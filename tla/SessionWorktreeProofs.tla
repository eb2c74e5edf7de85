------------------------ MODULE SessionWorktreeProofs ------------------------
(* Theorems about the checkouts, for any requests, refs and bounds. *)
EXTENDS SessionWorktree, TLAPS

-----------------------------------------------------------------------------
(* Flight locks.  A request that waits for its lock or has it shares the lock
   that the map names for its ref; so whoever has one of a ref has the same. *)

Holding == Critical \cup {"lock"}
Places == Running \cup {"idle", "done", "error"}

LockType ==
  /\ at \in [Jobs -> Places]
  /\ lock \in [Jobs -> Jobs \cup {NoLock}]
  /\ flight \in [Refs -> Jobs \cup {NoLock}]

LockInv ==
  /\ LockType
  /\ \A j \in Jobs : at[j] \in Holding => lock[j] = flight[RefOf[j]] /\ lock[j] # NoLock
  /\ OneFlight

locks == <<at, lock, flight>>

(* A request that works on its checkout goes on to another command. *)
LEMMA LockMoves ==
  ASSUME LockInv, NEW j \in Jobs, NEW p \in Critical, at[j] \in Critical,
         Goto(j, p), UNCHANGED <<lock, flight>>
  PROVE  LockInv'
<1> USE RefsAssumption DEF LockInv, LockType, Goto
<1>1. p \in Places /\ p \in Holding /\ at[j] \in Holding
  BY DEF Critical, Holding, Places, Running
<1>2. LockType'
  BY <1>1
<1>3. \A k \in Jobs : (at'[k] \in Critical <=> at[k] \in Critical)
                     /\ (at'[k] \in Holding <=> at[k] \in Holding)
  BY <1>1
<1> QED BY <1>2, <1>3 DEF OneFlight

(* It ends, and gives its lock back. *)
LEMMA LockLeaves ==
  ASSUME LockInv, NEW j \in Jobs, NEW p \in {"head", "error"},
         Goto(j, p), Unlock(j), UNCHANGED flight
  PROVE  LockInv'
<1> USE RefsAssumption DEF LockInv, LockType, Goto, Unlock
<1>1. p \in Places /\ p \notin Holding
  BY DEF Critical, Holding, Places, Running
<1>2. LockType'
  BY <1>1
<1>3. \A k \in Jobs : (at'[k] \in Holding => k # j /\ at'[k] = at[k] /\ lock'[k] = lock[k])
  BY <1>1
<1>4. \A k \in Jobs : at'[k] \in Critical => at[k] \in Critical
  BY <1>3 DEF Holding
<1> QED BY <1>2, <1>3, <1>4 DEF OneFlight

LEMMA LockEnter ==
  ASSUME LockInv, NEW j \in Jobs, Enter(j)
  PROVE  LockInv'
<1> USE RefsAssumption DEF LockInv, LockType
<1>1. PICK p \in Critical : at' = [at EXCEPT ![j] = p]
  BY DEF Enter, Goto, Critical
<1>2. LockType' /\ p \in Places
  BY <1>1 DEF Enter, Critical, Places, Running
<1>3. at[j] \in Holding /\ p \in Holding /\ UNCHANGED <<lock, flight>>
  BY DEF Enter, Holding
<1>4. \A k \in Jobs : k # j => at'[k] = at[k]
  BY <1>1
<1>5. \A k \in Jobs : RefOf[k] = RefOf[j] /\ at[k] \in Critical => FALSE
  <2> SUFFICES ASSUME NEW k \in Jobs, RefOf[k] = RefOf[j], at[k] \in Critical PROVE FALSE
    OBVIOUS
  <2>1. lock[k] = lock[j]
    BY <1>3 DEF Holding
  <2> QED BY <2>1 DEF Enter
<1>6. OneFlight'
  BY <1>4, <1>5 DEF OneFlight
<1> QED BY <1>1, <1>2, <1>3, <1>4, <1>6

(* A new request finds the lock of its ref if anybody holds one: the map still
   names it, as only locks nobody holds are pruned. *)
LEMMA LockPrepare ==
  ASSUME LockInv, NEW j \in Jobs, Prepare(j)
  PROVE  LockInv'
<1> USE RefsAssumption DEF LockInv, LockType
<1> DEFINE live == [r \in Refs |-> IF Strong(flight[r]) THEN flight[r] ELSE NoLock]
           mine == IF live[RefOf[j]] = NoLock THEN j ELSE live[RefOf[j]]
<1>1. /\ at[j] = "idle" /\ at' = [at EXCEPT ![j] = "lock"]
      /\ lock' = [lock EXCEPT ![j] = mine]
      /\ flight' = [live EXCEPT ![RefOf[j]] = mine]
  BY DEF Prepare, LockFor, Goto
<1>2. live \in [Refs -> Jobs \cup {NoLock}] /\ mine \in Jobs
  OBVIOUS
<1>3. LockType'
  BY <1>1, <1>2 DEF Places, Running
<1>4. "idle" \notin Holding /\ "lock" \notin Critical /\ mine # NoLock
  BY <1>2, NoLockAssumption DEF Holding, Critical
<1> HIDE DEF mine
<1>5. \A k \in Jobs : at[k] \in Holding => live[RefOf[k]] = lock[k] /\ lock[k] # NoLock /\ k # j
  BY <1>1, <1>4 DEF Strong
<1>6. \A k \in Jobs : at[k] \in Holding /\ RefOf[k] = RefOf[j] => mine = lock[k]
  BY <1>5 DEF mine
<1> HIDE DEF live
<1>7. \A k \in Jobs : k # j => at'[k] = at[k] /\ lock'[k] = lock[k]
  BY <1>1
<1>8. at'[j] = "lock" /\ lock'[j] = mine
  BY <1>1
<1>9. \A k \in Jobs : at'[k] \in Holding => lock'[k] = flight'[RefOf[k]] /\ lock'[k] # NoLock
  <2> SUFFICES ASSUME NEW k \in Jobs, at'[k] \in Holding
               PROVE  lock'[k] = flight'[RefOf[k]] /\ lock'[k] # NoLock
    OBVIOUS
  <2>1. CASE k = j
    BY <2>1, <1>1, <1>2, <1>4, <1>8
  <2>2. CASE k # j /\ RefOf[k] = RefOf[j]
    BY <2>2, <1>1, <1>2, <1>5, <1>6, <1>7
  <2>3. CASE k # j /\ RefOf[k] # RefOf[j]
    BY <2>3, <1>1, <1>2, <1>5, <1>7
  <2> QED BY <2>1, <2>2, <2>3
<1>10. OneFlight'
  BY <1>4, <1>7, <1>8 DEF OneFlight
<1> QED BY <1>3, <1>9, <1>10

LEMMA LockStep == LockInv /\ [Next]_vars => LockInv'
<1> SUFFICES ASSUME LockInv, [Next]_vars PROVE LockInv'
  OBVIOUS
<1>1. ASSUME NEW j \in Jobs, Job(j) PROVE LockInv'
  <2>1. CASE Enter(j)
    BY <2>1, LockEnter
  <2>2. CASE Compare(j)
    <3>1. PICK p \in Critical : Goto(j, p)
      BY <2>2 DEF Compare, Critical
    <3> QED BY <2>2, <3>1, LockMoves DEF Compare, Critical
  <2>3. CASE Fetch(j)
    <3>1. PICK p \in Critical : Goto(j, p)
      BY <2>3 DEF Fetch, Critical
    <3> QED BY <2>3, <3>1, LockMoves DEF Fetch, Critical
  <2>4. CASE Resolve(j)
    BY <2>4, LockMoves, "reset" \in Critical, "resolve" \in Critical DEF Resolve, Critical
  <2>5. CASE Reset(j)
    BY <2>5, LockMoves, "reset" \in Critical, "register" \in Critical DEF Reset, Critical
  <2>6. CASE Add(j)
    BY <2>6, LockMoves, "add" \in Critical, "register" \in Critical DEF Add, Critical
  <2>7. CASE Register(j)
    BY <2>7, LockLeaves DEF Register
  <2>8. CASE ReadHead(j)
    <3>1. "done" \notin Holding /\ "done" \in Places
      BY DEF Holding, Critical, Places
    <3>2. \A k \in Jobs : at'[k] \in Holding => at'[k] = at[k]
      BY <2>8, <3>1 DEF ReadHead, Goto, LockInv, LockType
    <3>3. \A k \in Jobs : at'[k] \in Critical => at'[k] = at[k]
      BY <3>2 DEF Holding
    <3> QED BY <2>8, <3>1, <3>2, <3>3
            DEF ReadHead, Goto, LockInv, LockType, OneFlight
  <2>9. CASE Fail(j)
    BY <2>9, LockLeaves DEF Fail
  <2> QED BY <1>1, <2>1, <2>2, <2>3, <2>4, <2>5, <2>6, <2>7, <2>8, <2>9 DEF Job
<1>2. ASSUME UNCHANGED locks PROVE LockInv'
  BY <1>2 DEF locks, LockInv, LockType, OneFlight
<1>3. ASSUME CodeDaemonDies PROVE LockInv'
  <2>1. \A k \in Jobs : at'[k] \notin Holding /\ at'[k] \in Places
    BY <1>3 DEF CodeDaemonDies, Running, Places, Holding, Critical, LockInv, LockType
  <2>2. \A k \in Jobs : at'[k] \notin Critical
    BY <2>1 DEF Holding
  <2>3. LockType'
    BY <1>3, <2>1 DEF CodeDaemonDies, LockType
  <2> QED BY <2>1, <2>2, <2>3 DEF LockInv, OneFlight
<1>4. ASSUME NEW j \in Jobs, Open(j) \/ Task(j) PROVE LockInv'
  <2>1. CASE Discover(j)
    BY <2>1, LockPrepare, <1>2 DEF Discover, manager, jobs, locks
  <2>2. CASE Open(j)
    BY <2>2, <1>2 DEF Open, locks
  <2> QED BY <1>4, <2>1, <2>2, <1>2
          DEF Task, Answered, SetWorktree, SetWorktreeSha, SetReady, manager, jobs, locks
<1>5. ASSUME Sweep \/ (\E r \in Refs : Push(r)) PROVE LockInv'
  BY <1>5, <1>2 DEF Sweep, SweepList, SweepRemove, SweepDelete, Push, jobs, locks
<1>6. CASE UNCHANGED vars
  BY <1>6, <1>2 DEF vars, manager, jobs, locks
<1> QED BY <1>1, <1>3, <1>4, <1>5, <1>6 DEF Next, CodeDaemon, Restart

LEMMA LockAlways == Spec => []LockInv
<1>1. Init => LockInv
  BY NoLockAssumption
     DEF Init, ManagerInit, LockInv, LockType, OneFlight, Holding, Critical, Places
<1> QED BY <1>1, LockStep, PTL DEF Spec

(* Preparing is single-flight per ref, for any number of requests and refs,
   although a flight lock only lives as long as a request holds it. *)
THEOREM SingleFlight == Spec => []OneFlight
<1>1. LockInv => OneFlight
  BY DEF LockInv
<1> QED BY <1>1, LockAlways, PTL

-----------------------------------------------------------------------------
(* The order of commits.  Whichever refs' tips a checkout was put on, what is
   known of it -- its HEAD, the sha the session recorded, the shas reported and
   not recorded yet -- never lies past the checkout along a ref, nor past the
   commit that a request is about to put it on: tips only move on, and each
   request of a ref reads its FETCH_HEAD after the one before it has ended. *)

(* If the two are of one ref, c is no later than d. *)
NotPast(c, d) == c \in Commits /\ d \in Commits /\ c[1] = d[1] => c[2] <= d[2]

Reached(c) == c \in Commits => c[2] <= origin[c[1]]

Tip(r) == <<r, origin[r]>>

Fetched(j) == fetchHead[CloneFor(j)]

Stages == {"idle", "discover", "waiting", "path", "sha", "ready", "end"}

OrderType ==
  /\ origin \in [Refs -> 1..MaxPushes]
  /\ fetchHead \in [Clones -> Commits \cup {NoCommit}]
  /\ tree \in [Dirs -> Commits \cup {NoCommit}]
  /\ got \in [Jobs -> Commits \cup {NoCommit}]
  /\ sha \in [Refs -> Commits \cup {NoCommit}]
  /\ task \in [Jobs -> Stages]

(* What is known of the checkout of ref r does not lie past commit c. *)
KnownBy(r, c) ==
  /\ NotPast(tree[DirOf[r]], c)
  /\ NotPast(sha[r], c)
  /\ \A k \in Jobs : RefOf[k] = r /\ at[k] = "done" => NotPast(got[k], c)

AllReached ==
  /\ \A c \in Clones : Reached(fetchHead[c])
  /\ \A d \in Dirs : Reached(tree[d])
  /\ \A r \in Refs : Reached(sha[r])
  /\ \A j \in Jobs : Reached(got[j])

TreeIsLast ==
  \A r \in Refs : OwnDir(r) /\ tree[DirOf[r]] \in Commits => KnownBy(r, tree[DirOf[r]])

FetchedIsLast ==
  \A j \in Jobs : at[j] \in {"resolve", "add"}
                    => /\ Fetched(j) \in Commits
                       /\ OwnDir(RefOf[j]) => KnownBy(RefOf[j], Fetched(j))

ResolvedIsLast ==
  \A j \in Jobs : at[j] = "reset"
                    => /\ got[j] \in Commits
                       /\ OwnDir(RefOf[j]) => KnownBy(RefOf[j], got[j])

RecordsAnswers == \A j \in Jobs : task[j] \in {"path", "sha"} => at[j] = "done"

OrderInv ==
  OrderType /\ AllReached /\ TreeIsLast /\ FetchedIsLast /\ ResolvedIsLast /\ RecordsAnswers

LEMMA NotPastSelf == \A c : NotPast(c, c)
<1>1. \A c \in Commits : c[2] \in Nat
  BY WorktreeBounds DEF Commits
<1> QED BY <1>1 DEF NotPast

LEMMA NoCommitIsNone ==
  NoCommit \notin Commits /\ Reached(NoCommit) /\ \A c : NotPast(NoCommit, c)
<1>1. NoCommit \notin Commits
  BY DEF NoCommit, Commits
<1> QED BY <1>1 DEF NotPast, Reached

LEMMA Located ==
  /\ \A r \in Refs : CloneOf[r] \in Clones /\ DirOf[r] \in Dirs
  /\ \A j \in Jobs : RefOf[j] \in Refs /\ CloneFor(j) \in Clones /\ DirFor(j) \in Dirs
BY RefsAssumption DEF Clones, Dirs, CloneFor, DirFor

LEMMA TipIsCommit ==
  ASSUME OrderType, NEW r \in Refs
  PROVE  Tip(r) \in Commits /\ Reached(Tip(r))
<1>1. origin[r] \in 1..MaxPushes /\ origin[r] <= origin[r]
  BY WorktreeBounds DEF OrderType
<1> QED BY <1>1 DEF Tip, Commits, Reached

(* Nothing lies past a tip. *)
LEMMA TipIsLast ==
  ASSUME OrderInv, NEW r \in Refs, NEW s \in Refs
  PROVE  KnownBy(r, Tip(s))
<1>1. \A c : Reached(c) => NotPast(c, Tip(s))
  BY DEF Reached, NotPast, Tip
<1> QED BY <1>1, Located DEF OrderInv, AllReached, KnownBy

LEMMA FetchedType == ASSUME OrderType, NEW j \in Jobs PROVE Fetched(j) \in Commits \cup {NoCommit}
BY Located DEF OrderType, Fetched

(* Most steps move a request or a task and touch nothing that is ordered. *)
orders == <<origin, fetchHead, tree, got, sha>>

Quiet ==
  \A k \in Jobs : /\ at'[k] = "done" <=> at[k] = "done"
                  /\ at'[k] \in {"resolve", "add", "reset"} => at'[k] = at[k]

LEMMA OrderQuiet ==
  ASSUME OrderInv, UNCHANGED orders, Quiet, task' \in [Jobs -> Stages], RecordsAnswers'
  PROVE  OrderInv'
<1>1. \A r \in Refs : \A c : KnownBy(r, c)' <=> KnownBy(r, c)
  BY DEF orders, Quiet, KnownBy
<1>2. OrderType' /\ AllReached'
  BY DEF OrderInv, OrderType, AllReached, Reached, orders
<1>3. TreeIsLast'
  BY <1>1 DEF OrderInv, TreeIsLast, orders
<1>4. FetchedIsLast' /\ ResolvedIsLast'
  BY <1>1, Located DEF OrderInv, FetchedIsLast, ResolvedIsLast, Fetched, orders, Quiet
<1> QED BY <1>2, <1>3, <1>4 DEF OrderInv

(* A request moves on within its critical section, the session is not involved. *)
LEMMA OrderAt ==
  ASSUME OrderInv, LockInv, NEW j \in Jobs, NEW p \in Places \ {"done", "resolve", "add", "reset"},
         at[j] # "done", Goto(j, p), UNCHANGED <<orders, task>>
  PROVE  OrderInv'
<1>1. Quiet
  BY DEF Quiet, Goto, LockInv, LockType
<1>2. RecordsAnswers'
  BY <1>1 DEF OrderInv, RecordsAnswers, Quiet
<1> QED BY <1>1, <1>2, OrderQuiet DEF OrderInv, OrderType

(* Fetch: the tip of a ref, which nothing known of any checkout is past: so
   the requests that have not read their FETCH_HEAD yet get a commit that is
   no older than theirs, if it is another ref's. *)
LEMMA OrderFetch ==
  ASSUME OrderInv, LockInv, NEW j \in Jobs, Fetch(j), UNCHANGED <<sha, task>>
  PROVE  OrderInv'
<1> DEFINE tip == Tip(RefOf[j])
<1>1. tip \in Commits /\ Reached(tip) /\ \A r \in Refs : KnownBy(r, tip)
  BY Located, TipIsCommit, TipIsLast DEF OrderInv
<1>2. /\ fetchHead' = [fetchHead EXCEPT ![CloneFor(j)] = tip]
      /\ UNCHANGED <<origin, tree, got, sha, task>>
  BY DEF Fetch, Tip
<1>3. PICK p \in {"resolve", "add"} : at' = [at EXCEPT ![j] = p]
  BY DEF Fetch, Goto
<1>4. at[j] # "done" /\ at'[j] = p /\ \A k \in Jobs : k # j => at'[k] = at[k]
  BY <1>3 DEF Fetch, LockInv, LockType
<1> HIDE DEF tip
<1>5. \A c \in Clones : fetchHead'[c] = IF c = CloneFor(j) THEN tip ELSE fetchHead[c]
  BY <1>2, Located DEF OrderInv, OrderType
<1>6. \A r \in Refs : \A c : KnownBy(r, c)' <=> KnownBy(r, c)
  BY <1>2, <1>4 DEF KnownBy
<1>7. OrderType'
  BY <1>1, <1>2, Located DEF OrderInv, OrderType
<1>8. AllReached'
  BY <1>1, <1>2, <1>5 DEF OrderInv, AllReached, Reached
<1>9. TreeIsLast'
  BY <1>2, <1>6 DEF OrderInv, TreeIsLast
<1>10. FetchedIsLast'
  <2> SUFFICES ASSUME NEW k \in Jobs, at'[k] \in {"resolve", "add"}
               PROVE  /\ Fetched(k)' \in Commits
                      /\ OwnDir(RefOf[k]) => KnownBy(RefOf[k], Fetched(k))'
    BY DEF FetchedIsLast
  <2>1. CASE CloneFor(k) = CloneFor(j)
    BY <1>1, <1>5, <1>6, <2>1, Located DEF Fetched
  <2>2. CASE CloneFor(k) # CloneFor(j)
    BY <1>4, <1>5, <1>6, <2>2, Located DEF Fetched, OrderInv, FetchedIsLast
  <2> QED BY <2>1, <2>2
<1>11. ResolvedIsLast'
  BY <1>2, <1>3, <1>4, <1>6, Located DEF OrderInv, ResolvedIsLast
<1>12. RecordsAnswers'
  BY <1>2, <1>4 DEF OrderInv, RecordsAnswers
<1> QED BY <1>7, <1>8, <1>9, <1>10, <1>11, <1>12 DEF OrderInv

(* Resolve: the request keeps what it fetched, or what another one did. *)
LEMMA OrderResolve ==
  ASSUME OrderInv, LockInv, NEW j \in Jobs, Resolve(j), UNCHANGED <<sha, task>>
  PROVE  OrderInv'
<1>1. /\ got' = [got EXCEPT ![j] = Fetched(j)]
      /\ at' = [at EXCEPT ![j] = "reset"] /\ at[j] = "resolve"
      /\ UNCHANGED <<origin, fetchHead, tree, sha, task>>
  BY DEF Resolve, Fetched, Goto, disk
<1>2. \A k \in Jobs : k # j => at'[k] = at[k] /\ got'[k] = got[k]
  BY <1>1
<1>3. at'[j] = "reset" /\ got'[j] = Fetched(j)
  BY <1>1 DEF LockInv, LockType, OrderInv, OrderType
<1>4. /\ Fetched(j) \in Commits
      /\ OwnDir(RefOf[j]) => KnownBy(RefOf[j], Fetched(j))
      /\ Reached(Fetched(j))
  BY <1>1, Located DEF OrderInv, FetchedIsLast, AllReached, Fetched
<1>5. \A r \in Refs : \A c : KnownBy(r, c)' <=> KnownBy(r, c)
  BY <1>1, <1>2, <1>3 DEF KnownBy
<1>6. OrderType' /\ AllReached'
  BY <1>1, <1>2, <1>3, <1>4 DEF OrderInv, OrderType, AllReached, Reached
<1>7. TreeIsLast' /\ FetchedIsLast'
  BY <1>1, <1>2, <1>3, <1>5, Located DEF OrderInv, TreeIsLast, FetchedIsLast, Fetched
<1>8. ResolvedIsLast'
  BY <1>2, <1>3, <1>4, <1>5, Located DEF OrderInv, ResolvedIsLast
<1>9. RecordsAnswers'
  BY <1>1, <1>2 DEF OrderInv, RecordsAnswers
<1> QED BY <1>6, <1>7, <1>8, <1>9 DEF OrderInv

(* Reset and Add: the checkout is put on a commit that nothing known is past. *)
PutsOn(j, c) ==
  /\ at[j] \in {"reset", "add"} /\ Goto(j, "register")
  /\ tree' = [tree EXCEPT ![DirFor(j)] = c]
  /\ UNCHANGED <<origin, fetchHead, got>>
  /\ c \in Commits /\ Reached(c)
  /\ OwnDir(RefOf[j]) => KnownBy(RefOf[j], c)

LEMMA PutsOnIsLast ==
  ASSUME OrderInv, NEW j \in Jobs
  PROVE  /\ Reset(j) => PutsOn(j, got[j])
         /\ Add(j) => PutsOn(j, Fetched(j))
<1>1. ASSUME Reset(j) PROVE PutsOn(j, got[j])
  BY <1>1 DEF Reset, PutsOn, OrderInv, ResolvedIsLast, AllReached
<1>2. ASSUME Add(j) PROVE PutsOn(j, Fetched(j))
  BY <1>2, Located DEF Add, PutsOn, OrderInv, FetchedIsLast, AllReached, Fetched
<1> QED BY <1>1, <1>2

LEMMA OrderPutsOn ==
  ASSUME OrderInv, LockInv, NEW j \in Jobs, NEW c, PutsOn(j, c), UNCHANGED <<sha, task>>
  PROVE  OrderInv'
<1> DEFINE own == RefOf[j]
<1>1. /\ tree' = [tree EXCEPT ![DirFor(j)] = c] /\ at' = [at EXCEPT ![j] = "register"]
      /\ UNCHANGED <<origin, fetchHead, got, sha, task>>
      /\ c \in Commits /\ Reached(c)
  BY DEF PutsOn, Goto
<1>2. at[j] \in Critical /\ at[j] # "done"
  BY DEF PutsOn, Critical
<1>3. at'[j] = "register" /\ \A k \in Jobs : k # j => at'[k] = at[k]
  BY <1>1 DEF LockInv, LockType
<1>4. \A d \in Dirs : tree'[d] = IF d = DirFor(j) THEN c ELSE tree[d]
  BY <1>1, Located DEF OrderInv, OrderType
<1>5. OrderType' /\ AllReached'
  BY <1>1, <1>4, Located DEF OrderInv, OrderType, AllReached, Reached
<1>6. \A r \in Refs : OwnDir(r) /\ r # own => tree'[DirOf[r]] = tree[DirOf[r]]
  BY <1>4, Located DEF OwnDir, DirFor
<1>7. \A r \in Refs : OwnDir(r) /\ r # own => \A e : KnownBy(r, e)' <=> KnownBy(r, e)
  BY <1>1, <1>2, <1>3, <1>6 DEF KnownBy
<1>8. OwnDir(own) => tree'[DirOf[own]] = c /\ KnownBy(own, c)'
  BY <1>1, <1>2, <1>3, <1>4, Located, NotPastSelf DEF PutsOn, KnownBy, DirFor
<1>9. TreeIsLast'
  BY <1>6, <1>7, <1>8, Located DEF OrderInv, TreeIsLast
<1>10. \A k \in Jobs : at'[k] \in {"resolve", "add", "reset"} => at'[k] = at[k] /\ RefOf[k] # own
  BY <1>2, <1>3 DEF LockInv, OneFlight, Critical
<1> HIDE DEF own
<1>11. FetchedIsLast'
  <2> SUFFICES ASSUME NEW k \in Jobs, at'[k] \in {"resolve", "add"}
               PROVE  /\ Fetched(k)' \in Commits
                      /\ OwnDir(RefOf[k]) => KnownBy(RefOf[k], Fetched(k))'
    BY DEF FetchedIsLast
  <2>1. at[k] \in {"resolve", "add"} /\ RefOf[k] # own /\ Fetched(k)' = Fetched(k)
    BY <1>1, <1>10 DEF Fetched
  <2> QED BY <1>7, <2>1, Located DEF OrderInv, FetchedIsLast
<1>12. ResolvedIsLast'
  <2> SUFFICES ASSUME NEW k \in Jobs, at'[k] = "reset"
               PROVE  got'[k] \in Commits /\ (OwnDir(RefOf[k]) => KnownBy(RefOf[k], got[k])')
    BY DEF ResolvedIsLast
  <2>1. at[k] = "reset" /\ RefOf[k] # own /\ got'[k] = got[k]
    BY <1>1, <1>10
  <2> QED BY <1>7, <2>1, Located DEF OrderInv, ResolvedIsLast
<1>13. RecordsAnswers'
  BY <1>1, <1>2, <1>3 DEF OrderInv, RecordsAnswers
<1> QED BY <1>5, <1>9, <1>11, <1>12, <1>13 DEF OrderInv

(* ReadHead: what is reported is the checkout itself. *)
LEMMA OrderReadHead ==
  ASSUME OrderInv, LockInv, NEW j \in Jobs, ReadHead(j), UNCHANGED <<sha, task>>
  PROVE  OrderInv'
<1>1. /\ got' = [got EXCEPT ![j] = tree[DirFor(j)]]
      /\ at' = [at EXCEPT ![j] = "done"]
      /\ UNCHANGED <<origin, fetchHead, tree, sha, task>>
  BY DEF ReadHead, Goto, disk
<1>2. \A k \in Jobs : k # j => at'[k] = at[k] /\ got'[k] = got[k]
  BY <1>1
<1>3. at'[j] = "done" /\ got'[j] = tree[DirFor(j)]
  BY <1>1 DEF LockInv, LockType, OrderInv, OrderType
<1>4. OrderType' /\ AllReached'
  BY <1>1, <1>2, <1>3, Located DEF OrderInv, OrderType, AllReached, Reached
<1>5. \A r \in Refs : \A c : KnownBy(r, c) => KnownBy(r, c)'
  <2> SUFFICES ASSUME NEW r \in Refs, NEW c, KnownBy(r, c), NEW k \in Jobs,
                      RefOf[k] = r, at'[k] = "done"
               PROVE  NotPast(got'[k], c)
    BY <1>1 DEF KnownBy
  <2>1. CASE k = j
    BY <1>3, <2>1 DEF KnownBy, DirFor
  <2>2. CASE k # j
    BY <1>2, <2>2 DEF KnownBy
  <2> QED BY <2>1, <2>2
<1>6. TreeIsLast' /\ FetchedIsLast' /\ ResolvedIsLast'
  BY <1>1, <1>2, <1>3, <1>5, Located
     DEF OrderInv, TreeIsLast, FetchedIsLast, ResolvedIsLast, Fetched
<1>7. RecordsAnswers'
  BY <1>1, <1>2, <1>3 DEF OrderInv, RecordsAnswers
<1> QED BY <1>4, <1>6, <1>7 DEF OrderInv

(* SweepRemove: a checkout that is gone is past nothing. *)
LEMMA OrderRemove ==
  ASSUME OrderInv, SweepRemove, UNCHANGED <<sha, task>>
  PROVE  OrderInv'
<1>1. UNCHANGED <<origin, fetchHead, at, got, sha, task>>
  BY DEF SweepRemove, jobs
<1>2. \A d \in Dirs : tree'[d] \in {tree[d], NoCommit}
  BY DEF SweepRemove, OrderInv, OrderType
<1>3. OrderType' /\ AllReached'
  BY <1>1, <1>2, NoCommitIsNone DEF SweepRemove, OrderInv, OrderType, AllReached, Reached
<1>4. \A r \in Refs : \A c : KnownBy(r, c) => KnownBy(r, c)'
  BY <1>1, <1>2, NoCommitIsNone, Located DEF KnownBy
<1>5. TreeIsLast'
  BY <1>2, <1>4, NoCommitIsNone, Located DEF OrderInv, TreeIsLast
<1>6. FetchedIsLast' /\ ResolvedIsLast' /\ RecordsAnswers'
  BY <1>1, <1>4, Located
     DEF OrderInv, FetchedIsLast, ResolvedIsLast, RecordsAnswers, Fetched
<1> QED BY <1>3, <1>5, <1>6 DEF OrderInv

(* Push: the tip only moves on. *)
LEMMA OrderPush ==
  ASSUME OrderInv, NEW r \in Refs, Push(r), UNCHANGED <<sha, task>>
  PROVE  OrderInv'
<1>1. UNCHANGED <<fetchHead, tree, at, got, sha, task>>
  BY DEF Push, disk, jobs
<1>2. origin[r] + 1 \in 1..MaxPushes
  BY WorktreeBounds DEF Push, OrderInv, OrderType
<1>3. OrderType'
  BY <1>1, <1>2 DEF Push, OrderInv, OrderType
<1>4. \A c \in Commits : c[2] \in Nat /\ origin[c[1]] \in Nat /\ origin'[c[1]] \in Nat
                         /\ origin[c[1]] <= origin'[c[1]]
  BY <1>2, WorktreeBounds DEF Push, Commits, OrderInv, OrderType
<1>5. AllReached'
  BY <1>1, <1>4 DEF OrderInv, AllReached, Reached
<1>6. \A s \in Refs : \A c : KnownBy(s, c)' <=> KnownBy(s, c)
  BY <1>1 DEF KnownBy
<1>7. TreeIsLast' /\ FetchedIsLast' /\ ResolvedIsLast' /\ RecordsAnswers'
  BY <1>1, <1>6, Located
     DEF OrderInv, TreeIsLast, FetchedIsLast, ResolvedIsLast, RecordsAnswers, Fetched
<1> QED BY <1>3, <1>5, <1>7 DEF OrderInv

(* SetWorktreeSha: what is recorded was reported, however long ago. *)
LEMMA OrderRecord ==
  ASSUME OrderInv, NEW j \in Jobs, SetWorktreeSha(j)
  PROVE  OrderInv'
<1>1. /\ sha' = [sha EXCEPT ![RefOf[j]] = got[j]]
      /\ task' = [task EXCEPT ![j] = "ready"]
      /\ UNCHANGED <<origin, fetchHead, tree, at, got>>
  BY DEF SetWorktreeSha, Step, manager, disk, jobs
<1>2. at[j] = "done"
  BY DEF SetWorktreeSha, OrderInv, RecordsAnswers
<1>3. \A r \in Refs : sha'[r] = IF r = RefOf[j] THEN got[j] ELSE sha[r]
  BY <1>1 DEF OrderInv, OrderType
<1>4. \A r \in Refs : \A c : KnownBy(r, c) => KnownBy(r, c)'
  BY <1>1, <1>2, <1>3 DEF KnownBy
<1>5. OrderType' /\ AllReached'
  BY <1>1, <1>3, Located DEF OrderInv, OrderType, Stages, AllReached, Reached
<1>6. TreeIsLast' /\ FetchedIsLast' /\ ResolvedIsLast'
  BY <1>1, <1>4, Located
     DEF OrderInv, TreeIsLast, FetchedIsLast, ResolvedIsLast, Fetched
<1>7. RecordsAnswers'
  BY <1>1 DEF OrderInv, OrderType, RecordsAnswers
<1> QED BY <1>5, <1>6, <1>7 DEF OrderInv

(* The other steps of a task keep the records, and the requests as they are. *)
LEMMA OrderTask ==
  ASSUME OrderInv, LockInv, NEW j \in Jobs, Open(j) \/ Task(j)
  PROVE  OrderInv'
<1> USE DEF orders, manager, disk, jobs, session
<1>1. CASE SetWorktreeSha(j)
  BY <1>1, OrderRecord
<1>2. ASSUME NEW t \in Stages, task' = [task EXCEPT ![j] = t], UNCHANGED <<orders, at>>,
             t \in {"path", "sha"} => at[j] = "done"
      PROVE  OrderInv'
  <2>1. Quiet /\ task' \in [Jobs -> Stages]
    BY <1>2 DEF Quiet, OrderInv, OrderType
  <2>2. RecordsAnswers'
    BY <1>2 DEF OrderInv, OrderType, RecordsAnswers
  <2> QED BY <1>2, <2>1, <2>2, OrderQuiet
<1>3. CASE Open(j)
  BY <1>2, <1>3, "discover" \in Stages DEF Open, Stages
<1>4. CASE Discover(j)
  <2>1. CASE Prepare(j) /\ Step(j, "waiting") /\ UNCHANGED orders
    <3>1. at[j] = "idle" /\ at' = [at EXCEPT ![j] = "lock"]
      BY <2>1 DEF Prepare, Goto
    <3>2. Quiet
      BY <3>1 DEF Quiet, LockInv, LockType
    <3>3. task' \in [Jobs -> Stages]
      BY <2>1 DEF Step, OrderInv, OrderType, Stages
    <3>4. RecordsAnswers'
      BY <2>1, <3>2 DEF Step, OrderInv, OrderType, RecordsAnswers, Quiet
    <3> QED BY <2>1, <3>2, <3>3, <3>4, OrderQuiet
  <2>2. CASE Failed(j) /\ UNCHANGED <<orders, at>>
    BY <2>2, <1>2, "end" \in Stages DEF Failed, Step, Stages
  <2> QED BY <1>4, <2>1, <2>2 DEF Discover
<1>5. CASE Answered(j)
  <2>1. PICK t \in {"path", "end"} : task' = [task EXCEPT ![j] = t] /\ (t = "path" => at[j] = "done")
    BY <1>5 DEF Answered, Step, Failed
  <2>2. UNCHANGED <<orders, at>>
    BY <1>5 DEF Answered
  <2> QED BY <1>2, <2>1, <2>2 DEF Stages
<1>6. CASE SetWorktree(j)
  <2>1. at[j] = "done"
    BY <1>6 DEF SetWorktree, OrderInv, RecordsAnswers
  <2> QED BY <1>2, <1>6, <2>1 DEF SetWorktree, Step, Stages
<1>7. CASE SetReady(j)
  BY <1>2, <1>7, "end" \in Stages DEF SetReady, Step, Stages
<1> QED BY <1>1, <1>3, <1>4, <1>5, <1>6, <1>7 DEF Task

LEMMA OrderJob ==
  ASSUME OrderInv, LockInv, NEW j \in Jobs, Job(j), UNCHANGED <<session, task>>
  PROVE  OrderInv'
<1> USE DEF orders, disk, session
<1>1. CASE Enter(j)
  <2>1. PICK p \in {"fetchNew", "compare", "fetch"} : Goto(j, p)
    BY <1>1 DEF Enter
  <2> QED BY <1>1, <2>1, OrderAt DEF Enter, Places, Running, Critical
<1>2. CASE Compare(j)
  <2>1. PICK p \in {"register", "fetch"} : Goto(j, p)
    BY <1>2 DEF Compare
  <2> QED BY <1>2, <2>1, OrderAt DEF Compare, Places, Running, Critical
<1>3. CASE Fetch(j)
  BY <1>3, OrderFetch
<1>4. CASE Resolve(j)
  BY <1>4, OrderResolve
<1>5. CASE Reset(j) \/ Add(j)
  BY <1>5, PutsOnIsLast, OrderPutsOn
<1>6. CASE Register(j)
  BY <1>6, OrderAt, "head" \in Places DEF Register, Places, Running
<1>7. CASE ReadHead(j)
  BY <1>7, OrderReadHead
<1>8. CASE Fail(j)
  <2>1. at[j] # "done" /\ "error" \in Places
    BY <1>8 DEF Fail, Critical, Places
  <2> QED BY <1>8, <2>1, OrderAt DEF Fail
<1> QED BY <1>1, <1>2, <1>3, <1>4, <1>5, <1>6, <1>7, <1>8 DEF Job

LEMMA OrderStep == LockInv /\ OrderInv /\ [Next]_vars => OrderInv'
<1> SUFFICES ASSUME LockInv, OrderInv, [Next]_vars PROVE OrderInv'
  OBVIOUS
<1> USE DEF orders, disk, jobs, session
<1>1. ASSUME UNCHANGED <<orders, at, task>> PROVE OrderInv'
  <2>1. Quiet /\ task' \in [Jobs -> Stages] /\ RecordsAnswers'
    BY <1>1 DEF Quiet, OrderInv, OrderType, RecordsAnswers
  <2> QED BY <1>1, <2>1, OrderQuiet
<1>2. ASSUME NEW j \in Jobs, Job(j), UNCHANGED <<session, task>> PROVE OrderInv'
  BY <1>2, OrderJob
<1>3. ASSUME Sweep, UNCHANGED <<session, task>> PROVE OrderInv'
  BY <1>1, <1>3, OrderRemove DEF Sweep, SweepList, SweepDelete
<1>4. ASSUME CodeDaemonDies, task' \in [Jobs -> Stages], UNCHANGED sha,
             \A j \in Jobs : task'[j] \in {"path", "sha"} => task'[j] = task[j]
      PROVE  OrderInv'
  <2>1. \A j \in Jobs : at'[j] = IF at[j] \in Running THEN "error" ELSE at[j]
    BY <1>4 DEF CodeDaemonDies
  <2>2. "done" \notin Running /\ {"resolve", "add", "reset"} \subseteq Running
    BY DEF Running, Critical
  <2>3. Quiet
    BY <2>1, <2>2 DEF Quiet
  <2>4. RecordsAnswers'
    BY <1>4, <2>3 DEF OrderInv, RecordsAnswers, Quiet
  <2> QED BY <1>4, <2>3, <2>4, OrderQuiet DEF CodeDaemonDies
<1>5. CASE CodeDaemon
  BY <1>2, <1>3, <1>4, <1>5 DEF CodeDaemon, OrderInv, OrderType
<1>6. ASSUME NEW j \in Jobs, Open(j) \/ Task(j) PROVE OrderInv'
  BY <1>6, OrderTask
<1>7. ASSUME NEW r \in Refs, Push(r), UNCHANGED <<session, task>> PROVE OrderInv'
  BY <1>7, OrderPush
<1>8. CASE Restart
  BY <1>4, <1>8 DEF Restart, OrderInv, OrderType, Stages
<1>9. CASE UNCHANGED vars
  BY <1>1, <1>9 DEF vars, manager
<1> QED BY <1>5, <1>6, <1>7, <1>8, <1>9 DEF Next

LEMMA OrderInit == Init => OrderInv
<1> SUFFICES ASSUME Init PROVE OrderInv
  OBVIOUS
<1>1. \A r \in Refs : <<r, 1>> \in Commits /\ origin[r] = 1
  BY WorktreeBounds DEF Commits, Init, ManagerInit
<1>2. PICK left \in Earlier :
        tree = [d \in Dirs |->
                 IF \E i \in DOMAIN left : DirOf[left[i]] = d
                 THEN <<CHOOSE r \in Refs : DirOf[r] = d /\ \E i \in DOMAIN left : left[i] = r, 1>>
                 ELSE NoCommit]
  BY DEF Init, ManagerInit
<1>3. \A d \in Dirs : tree[d] = NoCommit \/ \E r \in Refs : DirOf[r] = d /\ tree[d] = <<r, 1>>
  <2> SUFFICES ASSUME NEW d \in Dirs, NEW i \in DOMAIN left, DirOf[left[i]] = d
               PROVE  \E r \in Refs : DirOf[r] = d /\ tree[d] = <<r, 1>>
    BY <1>2
  <2>1. left \in Seq(Refs) /\ left[i] \in Refs
    BY EarlierAssumption
  <2>2. (CHOOSE r \in Refs : DirOf[r] = d /\ \E n \in DOMAIN left : left[n] = r) \in Refs
    BY <2>1
  <2>3. DirOf[CHOOSE r \in Refs : DirOf[r] = d /\ \E n \in DOMAIN left : left[n] = r] = d
    BY <2>1
  <2>4. tree[d] = <<CHOOSE r \in Refs : DirOf[r] = d /\ \E n \in DOMAIN left : left[n] = r, 1>>
    BY <1>2
  <2> QED BY <2>2, <2>3, <2>4
<1>4. /\ tree \in [Dirs -> Commits \cup {NoCommit}] /\ sha \in [Refs -> Commits \cup {NoCommit}]
      /\ \A r \in Refs : sha[r] \in {tree[DirOf[r]], NoCommit}
  BY <1>1, <1>2, <1>3 DEF Init
<1>5. /\ \A k \in Jobs : at[k] = "idle" /\ task[k] = "idle" /\ got[k] = NoCommit
      /\ \A c \in Clones : fetchHead[c] = NoCommit
  BY DEF Init, ManagerInit
<1>6. OrderType
  BY <1>4, WorktreeBounds DEF Init, ManagerInit, OrderType, Stages
<1>7. \A d \in Dirs : Reached(tree[d])
  BY <1>1, <1>3, NoCommitIsNone DEF Reached
<1>8. AllReached
  BY <1>4, <1>5, <1>7, NoCommitIsNone, Located DEF AllReached
<1>9. TreeIsLast
  BY <1>4, <1>5, NotPastSelf, NoCommitIsNone DEF TreeIsLast, KnownBy
<1>10. FetchedIsLast /\ ResolvedIsLast /\ RecordsAnswers
  BY <1>5 DEF FetchedIsLast, ResolvedIsLast, RecordsAnswers
<1> QED BY <1>6, <1>8, <1>9, <1>10 DEF OrderInv

LEMMA OrderAlways == Spec => []OrderInv
<1> QED BY OrderInit, OrderStep, LockAlways, PTL DEF Spec

(* The recorded sha never lies past the checkout along a ref, for any number
   of refs of one clone and of requests for them: whoever is told that the
   worktree of a page is ready gets that page's commit, a later one, or one of
   a ref that was fetched in between. *)
THEOREM RecordedShaIsKnown == Spec => []RecordedNotAhead
<1>1. OrderInv => RecordedNotAhead
  <2> SUFFICES ASSUME OrderInv, NEW r \in Refs, OwnDir(r), sha[r] # NoCommit,
                      tree[DirOf[r]] # NoCommit, sha[r][1] = tree[DirOf[r]][1]
               PROVE  sha[r][2] <= tree[DirOf[r]][2]
    BY DEF RecordedNotAhead
  <2>1. sha[r] \in Commits /\ tree[DirOf[r]] \in Commits
    BY Located DEF OrderInv, OrderType
  <2> QED BY <2>1 DEF OrderInv, TreeIsLast, KnownBy, NotPast
<1> QED BY <1>1, OrderAlways, PTL

(* What can move a checkout. *)
LEMMA Moves ==
  ASSUME [Next]_vars, tree' # tree
  PROVE  (\E j \in Jobs : Reset(j) \/ Add(j)) \/ SweepRemove
BY DEF Next, CodeDaemon, Job, Enter, Compare, Fetch, Resolve, Register, ReadHead, Fail,
       Sweep, SweepList, SweepDelete, CodeDaemonDies, Restart, Push, Open, Task, vars,
       Discover, Prepare, Answered, SetWorktree, SetWorktreeSha, SetReady, manager, disk

(* A checkout never goes back along a ref, whatever requests for whatever refs
   overlap, fail or are cut off by a restart, although two refs of one clone
   may get each other's commits. *)
THEOREM CheckoutNeverBack == Spec => NeverBack
<1> DEFINE Kept == \A r \in Refs : OwnDir(r) =>
                     LET old == tree[DirOf[r]]
                         new == tree'[DirOf[r]]
                     IN  old # NoCommit /\ new # NoCommit /\ old[1] = new[1] => old[2] <= new[2]
<1>1. OrderInv /\ [Next]_vars => [Kept]_tree
  <2> SUFFICES ASSUME OrderInv, [Next]_vars, tree' # tree, NEW r \in Refs, OwnDir(r),
                      tree[DirOf[r]] # NoCommit, tree'[DirOf[r]] # NoCommit,
                      tree[DirOf[r]][1] = tree'[DirOf[r]][1]
               PROVE  tree[DirOf[r]][2] <= tree'[DirOf[r]][2]
    OBVIOUS
  <2>1. tree[DirOf[r]] \in Commits /\ NotPast(tree[DirOf[r]], tree[DirOf[r]])
    BY Located, NotPastSelf DEF OrderInv, OrderType
  <2>2. ASSUME NEW j \in Jobs, Reset(j) \/ Add(j)
        PROVE  tree[DirOf[r]][2] <= tree'[DirOf[r]][2]
    <3>1. PICK c : PutsOn(j, c)
      BY <2>2, PutsOnIsLast
    <3>2. tree'[DirOf[r]] = IF DirOf[r] = DirFor(j) THEN c ELSE tree[DirOf[r]]
      BY <3>1, Located DEF PutsOn, OrderInv, OrderType
    <3>3. CASE DirOf[r] = DirFor(j)
      <4>1. RefOf[j] = r
        BY <3>3, Located DEF OwnDir, DirFor
      <4>2. NotPast(tree[DirOf[r]], c) /\ c \in Commits
        BY <3>1, <4>1 DEF PutsOn, KnownBy
      <4> QED BY <2>1, <3>2, <3>3, <4>2 DEF NotPast
    <3>4. CASE DirOf[r] # DirFor(j)
      BY <2>1, <3>2, <3>4 DEF NotPast
    <3> QED BY <3>3, <3>4
  <2>3. ASSUME SweepRemove
        PROVE  tree[DirOf[r]][2] <= tree'[DirOf[r]][2]
    <3>1. tree'[DirOf[r]] = tree[DirOf[r]]
      BY <2>3, Located DEF SweepRemove, OrderInv, OrderType
    <3> QED BY <2>1, <3>1 DEF NotPast
  <2> QED BY <2>2, <2>3, Moves
<1> QED BY <1>1, OrderAlways, PTL DEF Spec, NeverBack

-----------------------------------------------------------------------------
(* Whose commit it is.  As long as no two refs of a clone are between a fetch
   and the read of its FETCH_HEAD, what a request reads there is its own. *)

OwnInv ==
  /\ OwnRef
  /\ \A j \in Jobs : at[j] \in {"resolve", "add"} => Fetched(j)[1] = RefOf[j]
  /\ \A j \in Jobs : at[j] = "reset" => got[j][1] = RefOf[j]

LEMMA OwnStep == OwnInv /\ OrderInv /\ LockInv /\ LockInv' /\ Apart' /\ [Next]_vars => OwnInv'
<1> SUFFICES ASSUME OwnInv, OrderInv, LockInv, LockInv', Apart', [Next]_vars PROVE OwnInv'
  OBVIOUS
<1>1. ASSUME tree' = tree, UNCHANGED <<fetchHead, got>>,
             \A k \in Jobs : at'[k] \in {"resolve", "add", "reset"} => at'[k] = at[k]
      PROVE  OwnInv'
  BY <1>1 DEF OwnInv, OwnRef, Fetched
<1>2. ASSUME NEW j \in Jobs, Fetch(j) PROVE OwnInv'
  <2>1. /\ fetchHead' = [fetchHead EXCEPT ![CloneFor(j)] = Tip(RefOf[j])]
        /\ UNCHANGED <<tree, got>>
    BY <1>2 DEF Fetch, Tip
  <2>2. at'[j] \in {"resolve", "add"} /\ \A k \in Jobs : k # j => at'[k] = at[k]
    BY <1>2 DEF Fetch, Goto, LockInv, LockType
  <2>3. \A k \in Jobs : at'[k] \in {"resolve", "add"} /\ CloneFor(k) = CloneFor(j) => k = j
    BY <2>2 DEF Apart, CloneFor, LockInv, OneFlight, Critical
  <2>4. \A k \in Jobs : at'[k] \in {"resolve", "add"} =>
          Fetched(k)' = IF k = j THEN Tip(RefOf[j]) ELSE Fetched(k)
    BY <2>1, <2>3, Located DEF Fetched, OrderInv, OrderType
  <2> QED BY <2>1, <2>2, <2>4 DEF OwnInv, OwnRef, Tip
<1>3. ASSUME NEW j \in Jobs, Resolve(j) PROVE OwnInv'
  <2>1. /\ got' = [got EXCEPT ![j] = Fetched(j)] /\ at[j] = "resolve"
        /\ at' = [at EXCEPT ![j] = "reset"] /\ UNCHANGED <<fetchHead, tree>>
    BY <1>3 DEF Resolve, Fetched, Goto, disk
  <2>2. at'[j] = "reset" /\ got'[j] = Fetched(j)
        /\ \A k \in Jobs : k # j => at'[k] = at[k] /\ got'[k] = got[k]
    BY <2>1 DEF LockInv, LockType, OrderInv, OrderType
  <2> QED BY <2>1, <2>2 DEF OwnInv, OwnRef, Fetched
<1>4. ASSUME NEW j \in Jobs, Reset(j) \/ Add(j) PROVE OwnInv'
  <2>1. PICK c : PutsOn(j, c) /\ c[1] = RefOf[j]
    BY <1>4, PutsOnIsLast DEF Reset, Add, OwnInv
  <2>2. \A r \in Refs : tree'[DirOf[r]] = IF DirOf[r] = DirFor(j) THEN c ELSE tree[DirOf[r]]
    BY <2>1, Located DEF PutsOn, OrderInv, OrderType
  <2>3. OwnRef'
    BY <2>1, <2>2, Located DEF OwnInv, OwnRef, OwnDir, DirFor
  <2>4. \A k \in Jobs : at'[k] \in {"resolve", "add", "reset"} => at'[k] = at[k]
    BY <2>1 DEF PutsOn, Goto, LockInv, LockType
  <2> QED BY <2>1, <2>3, <2>4 DEF OwnInv, PutsOn, Fetched
<1>5. ASSUME SweepRemove PROVE OwnInv'
  <2>1. \A d \in Dirs : tree'[d] \in {tree[d], NoCommit}
    BY <1>5 DEF SweepRemove, OrderInv, OrderType
  <2> QED BY <1>5, <2>1, Located DEF SweepRemove, OwnInv, OwnRef, Fetched, jobs
<1>6. ASSUME NEW j \in Jobs, ReadHead(j) PROVE OwnInv'
  <2>1. /\ got' = [got EXCEPT ![j] = tree[DirFor(j)]]
        /\ at' = [at EXCEPT ![j] = "done"] /\ UNCHANGED <<fetchHead, tree>>
    BY <1>6 DEF ReadHead, Goto, disk
  <2>2. at'[j] = "done" /\ \A k \in Jobs : k # j => at'[k] = at[k] /\ got'[k] = got[k]
    BY <2>1 DEF LockInv, LockType
  <2> QED BY <2>1, <2>2 DEF OwnInv, OwnRef, Fetched
<1>7. ASSUME NEW j \in Jobs, Enter(j) \/ Compare(j) \/ Register(j) \/ Fail(j) PROVE OwnInv'
  <2>1. UNCHANGED <<fetchHead, tree, got>>
    BY <1>7 DEF Enter, Compare, Register, Fail, disk
  <2>2. PICK p \in Places \ {"resolve", "add", "reset"} : Goto(j, p)
    BY <1>7, "error" \in Places
       DEF Enter, Compare, Register, Fail, Places, Running, Critical
  <2>3. \A k \in Jobs : at'[k] \in {"resolve", "add", "reset"} => at'[k] = at[k]
    BY <2>2 DEF Goto, LockInv, LockType
  <2> QED BY <1>1, <2>1, <2>3
<1>8. ASSUME NEW j \in Jobs, Open(j) \/ Task(j) PROVE OwnInv'
  <2>1. UNCHANGED <<fetchHead, tree, got>>
    BY <1>8 DEF Open, Task, Discover, Answered, SetWorktree, SetWorktreeSha, SetReady,
                Prepare, manager, disk, jobs
  <2>2. UNCHANGED at \/ Goto(j, "lock")
    BY <1>8 DEF Open, Task, Discover, Answered, SetWorktree, SetWorktreeSha, SetReady,
                Prepare, manager, jobs
  <2>3. \A k \in Jobs : at'[k] \in {"resolve", "add", "reset"} => at'[k] = at[k]
    BY <2>2 DEF Goto, LockInv, LockType
  <2> QED BY <1>1, <2>1, <2>3
<1>9. ASSUME CodeDaemonDies PROVE OwnInv'
  <2>1. \A k \in Jobs : at'[k] = IF at[k] \in Running THEN "error" ELSE at[k]
    BY <1>9 DEF CodeDaemonDies
  <2> QED BY <1>1, <1>9, <2>1 DEF CodeDaemonDies, disk
<1>10. ASSUME SweepList \/ SweepDelete \/ (\E r \in Refs : Push(r)) \/ UNCHANGED vars
       PROVE  OwnInv'
  BY <1>1, <1>10 DEF SweepList, SweepDelete, Push, vars, manager, disk, jobs
<1> QED BY <1>2, <1>3, <1>4, <1>5, <1>6, <1>7, <1>8, <1>9, <1>10
        DEF Next, CodeDaemon, Job, Sweep, Restart

(* What would be enough for every checkout to be of its own ref: no lock of
   the code sees to it, for a flight lock is of one ref and FETCH_HEAD of the
   clone, but as long as requests for two refs of a clone happen to stay apart
   between a fetch and the read of FETCH_HEAD, no checkout gets another ref's
   commit. *)
THEOREM ApartIsEnough == Spec => OwnRefIfApart
<1>1. Init => OwnInv
  <2> SUFFICES ASSUME Init PROVE OwnInv
    OBVIOUS
  <2>1. /\ \A k \in Jobs : at[k] = "idle"
        /\ \A r \in Refs : OwnDir(r) => tree[DirOf[r]] \in {<<r, 1>>, NoCommit}
    <3>1. PICK left \in Earlier :
            tree = [d \in Dirs |->
                     IF \E i \in DOMAIN left : DirOf[left[i]] = d
                     THEN <<CHOOSE r \in Refs : DirOf[r] = d /\ \E i \in DOMAIN left : left[i] = r, 1>>
                     ELSE NoCommit]
      BY DEF Init, ManagerInit
    <3>2. ASSUME NEW r \in Refs, OwnDir(r), NEW i \in DOMAIN left, DirOf[left[i]] = DirOf[r]
          PROVE  tree[DirOf[r]] = <<r, 1>>
      <4>1. left[i] = r
        BY <3>2, EarlierAssumption DEF OwnDir
      <4>2. (CHOOSE s \in Refs : DirOf[s] = DirOf[r] /\ \E n \in DOMAIN left : left[n] = s) = r
        BY <3>2, <4>1 DEF OwnDir
      <4> QED BY <3>1, <3>2, <4>2, Located
    <3>3. \A r \in Refs : OwnDir(r) => tree[DirOf[r]] \in {<<r, 1>>, NoCommit}
      BY <3>1, <3>2, Located
    <3> QED BY <3>3 DEF Init, ManagerInit
  <2> QED BY <2>1 DEF OwnInv, OwnRef
<1>2. OwnInv => OwnRef
  BY DEF OwnInv
<1> QED BY <1>1, <1>2, OwnStep, OrderAlways, LockAlways, PTL DEF Spec, OwnRefIfApart
=============================================================================
