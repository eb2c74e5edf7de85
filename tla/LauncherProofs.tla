--------------------------- MODULE LauncherProofs ---------------------------
(* What Launcher keeps, for any number of commands, daemons, restarts and
   kills: first what holds as long as commands do not overlap and pid files
   are written, then who owns a daemon whatever happens. *)
EXTENDS Launcher, TLAPS

-----------------------------------------------------------------------------
(* The inductive invariant. *)

Places == {"idle"} \cup Starting \cup Stopping \cup Supervising \cup Ended

Commands == [kind : {"none", "start", "stop", "restart", "uninstall"},
             pc : Places, of : Runs \cup Daemons \cup {NoPid}]

Types ==
  /\ cmd \in [Runs -> Commands]
  /\ daemon \in [Daemons -> [st : {"unborn", "booting", "bound", "serving", "clean", "unclean"},
                             parent : Runs \cup {NoPid}]]
  /\ supPid \in Runs \cup {NoPid} /\ revPid \in Daemons \cup {NoPid}
  /\ endpoint \in [of : Daemons \cup {NoPid}, newer : SUBSET Runs]
  /\ announced \in [Runs -> Daemons \cup {NoPid}]

(* The daemons that some file or some supervisor still knows. *)
Held == LiveDaemons \ Lost

Born(d) == d \in Daemons /\ daemon[d].st # "unborn"

OneCommand == \A q, r \in UnderWay : q = r

(* A pid file that is written says what was written. *)
WritesTaken ==
  \A r \in Runs : /\ RecordSelf(r) => supPid' = r
                  /\ RecordChild(r) => revPid' = cmd[r].of

(* The runs in which commands happen not to overlap and no pid file fails; no
   lock of the code makes them so. *)
Undisturbed == Spec /\ []OneCommand /\ [][WritesTaken]_vars

SupervisorOnRecord ==
  /\ \A r \in Supervisors : supPid = r
  /\ supPid \in Runs => cmd[supPid].pc \in Supervising \cup Ended

(* What a command has made sure of, and what a supervisor answers for, at
   each place of the code. *)
NoSupervisor(r) ==
  cmd[r].pc \in {"orphan", "waitOrphan", "unlink", "recordSelf",
                 "readRev", "waitRev", "removeFiles", "wipe"} => Supervisors = {}

NoDaemon(r) ==
  cmd[r].pc \in {"unlink", "recordSelf", "removeFiles", "wipe",
                 "spawn", "backoff", "leave"} => Held = {}

WaitsForSupervisor(r) ==
  At(r, "waitSup") => /\ cmd[r].of \in Runs
                      /\ cmd[cmd[r].of].pc \in Supervising \cup Ended
                      /\ Supervisors \subseteq {cmd[r].of}

WaitsForDaemon(r) ==
  cmd[r].pc \in {"waitOrphan", "waitRev"} => cmd[r].of \in Daemons /\ Held \subseteq {cmd[r].of}

HasChild(r) ==
  cmd[r].pc \in {"record", "waiting", "stopping"} =>
    Born(cmd[r].of) /\ daemon[cmd[r].of].parent = r /\ Held \subseteq {cmd[r].of}

(* What a supervisor spawned and has not put on record. *)
Unrecorded(r) ==
  /\ At(r, "record") => revPid # cmd[r].of
  /\ At(r, "killed") /\ cmd[r].of # NoPid =>
       Born(cmd[r].of) /\ daemon[cmd[r].of].parent = r /\ revPid # cmd[r].of

Knows(r) ==
  /\ NoSupervisor(r) /\ NoDaemon(r)
  /\ WaitsForSupervisor(r) /\ WaitsForDaemon(r)
  /\ HasChild(r) /\ Unrecorded(r)

DaemonOnRecord ==
  /\ \A d \in Held : revPid = d \/ (daemon[d].parent \in Runs /\ At(daemon[d].parent, "record"))
  /\ revPid # NoPid => Born(revPid)

OwnOrLost(r, d) == Born(d) /\ (daemon[d].parent = r \/ d \in Lost)

EndpointsAreOwn ==
  /\ \A r \in endpoint.newer : OwnOrLost(r, endpoint.of)
  /\ \A r \in Runs : announced[r] # NoPid => OwnOrLost(r, announced[r])

Inv ==
  /\ Types
  /\ OneCommand
  /\ SupervisorOnRecord
  /\ \A r \in Runs : Knows(r)
  /\ DaemonOnRecord
  /\ EndpointsAreOwn

-----------------------------------------------------------------------------
(* Processes, and what a step of one of them leaves alone. *)

LEMMA Pids ==
  /\ NoPid \notin Runs /\ NoPid \notin Daemons
  /\ \A p \in Runs : p \notin Daemons
BY LauncherAssumption DEF Runs, Daemons, NoPid

LEMMA AliveIs ==
  /\ \A r \in Runs : Alive(r) <=> cmd[r].pc \notin Ended \cup {"idle"}
  /\ \A d \in Daemons : Alive(d) <=> daemon[d].st \in {"booting", "bound", "serving"}
  /\ \A p : LivePid(p) # NoPid => Alive(p) /\ LivePid(p) = p
  /\ \A p \in Runs \cup Daemons : LivePid(p) = NoPid => ~Alive(p)
  /\ ~Alive(NoPid)
BY Pids DEF Alive, LivePid

LEMMA LostIs ==
  \A d : d \in Lost <=> \E r \in Runs : At(r, "killed") /\ cmd[r].of = d
BY DEF Lost

LEMMA HeldIs ==
  \A d : d \in Held <=>
    /\ d \in Daemons /\ daemon[d].st \in {"booting", "bound", "serving"}
    /\ d \notin Lost
BY AliveIs DEF Held, LiveDaemons

LEMMA SupervisorsAre == \A r : r \in Supervisors <=> r \in Runs /\ cmd[r].pc \in Supervising
BY DEF Supervisors

LEMMA UnderWayAre ==
  \A r : r \in UnderWay <=> r \in Runs /\ cmd[r].pc \in Starting \cup Stopping
BY DEF UnderWay

(* One command moves and no process dies by its hand: the daemons, the lost
   ones and what other runs are doing stay as they are. *)
Walk(r) ==
  /\ UNCHANGED daemon
  /\ \A q \in Runs : q # r => cmd'[q] = cmd[q]
  /\ cmd[r].pc \notin Ended /\ cmd'[r].pc # "killed"
  /\ cmd[r].pc \in Supervising => cmd'[r].pc \in Supervising \cup Ended

LEMMA WalkFrame ==
  ASSUME Types, NEW r \in Runs, Walk(r)
  PROVE  /\ Lost' = Lost
         /\ Held' = Held
         /\ \A q \in Runs : q # r => (q \in Supervisors' <=> q \in Supervisors)
         /\ \A d : Born(d) => Born(d)' /\ daemon'[d].parent = daemon[d].parent
         /\ \A q \in Runs : cmd[q].pc \in Supervising \cup Ended
                             => cmd'[q].pc \in Supervising \cup Ended
<1>1. \A d : d \in Lost' <=> d \in Lost
  BY LostIs DEF Lost, At, Walk, Ended
<1>2. Lost' = Lost
  BY <1>1
<1>3. LiveDaemons' = LiveDaemons
  BY Pids DEF LiveDaemons, Alive, Walk
<1>4. Held' = Held
  BY <1>2, <1>3 DEF Held
<1>5. \A q \in Runs : q # r => (q \in Supervisors' <=> q \in Supervisors)
  BY DEF Supervisors, Walk
<1>6. \A d : Born(d) => Born(d)' /\ daemon'[d].parent = daemon[d].parent
  BY DEF Born, Walk
<1>7. \A q \in Runs : cmd[q].pc \in Supervising \cup Ended
                      => cmd'[q].pc \in Supervising \cup Ended
  BY DEF Walk
<1> QED BY <1>2, <1>4, <1>5, <1>6, <1>7

(* What another run knows survives when there are no more supervisors, no more
   daemons, and no pid of its own child comes on record. *)
LEMMA KnowsFrame ==
  ASSUME NEW q \in Runs, Knows(q), cmd'[q] = cmd[q],
         Supervisors' \subseteq Supervisors, Held' \subseteq Held,
         \A d : Born(d) => Born(d)' /\ daemon'[d].parent = daemon[d].parent,
         \A x \in Runs : cmd[x].pc \in Supervising \cup Ended
                         => cmd'[x].pc \in Supervising \cup Ended,
         At(q, "record") \/ At(q, "killed") =>
           revPid' \in {revPid, NoPid} \/ revPid' # cmd[q].of
  PROVE  Knows(q)'
<1>0. At(q, "record") => cmd[q].of # NoPid
  BY Pids DEF Knows, HasChild, Born, At
<1>1. NoSupervisor(q)' /\ NoDaemon(q)'
  BY DEF Knows, NoSupervisor, NoDaemon
<1>2. WaitsForSupervisor(q)'
  BY DEF Knows, WaitsForSupervisor, At
<1>3. WaitsForDaemon(q)'
  BY DEF Knows, WaitsForDaemon
<1>4. HasChild(q)'
  BY DEF Knows, HasChild
<1>5. Unrecorded(q)'
  BY <1>0 DEF Knows, Unrecorded, At
<1> QED BY <1>1, <1>2, <1>3, <1>4, <1>5 DEF Knows

(* Endpoints and announcements keep telling of an own daemon, or of a lost one. *)
LEMMA EndpointFrame ==
  ASSUME EndpointsAreOwn,
         \A d : Born(d) => Born(d)' /\ daemon'[d].parent = daemon[d].parent,
         Lost \subseteq Lost',
         endpoint' \in {endpoint, NoEndpoint},
         \A r \in Runs : announced'[r] \in {announced[r], NoPid}
  PROVE  EndpointsAreOwn'
<1>1. \A r, d : OwnOrLost(r, d) => OwnOrLost(r, d)'
  BY DEF OwnOrLost
<1>2. \A r \in endpoint'.newer : OwnOrLost(r, endpoint'.of)
  BY DEF EndpointsAreOwn, NoEndpoint
<1>3. \A r \in Runs : announced'[r] # NoPid => OwnOrLost(r, announced'[r])
  BY DEF EndpointsAreOwn
<1> QED BY <1>1, <1>2, <1>3 DEF EndpointsAreOwn

(* A step of one run keeps the invariant if what that run knows is true after
   it, and what the two pid files say. *)
LEMMA WalkKeepsInv ==
  ASSUME Inv, NEW r \in Runs, Walk(r), Types',
         cmd'[r].pc \in Starting \cup Stopping => r \in UnderWay \/ UnderWay = {},
         cmd'[r].pc \in Supervising => r \in Supervisors \/ At(r, "recordSelf"),
         revPid' \in {revPid, NoPid} \/ (At(r, "record") /\ revPid' = cmd[r].of),
         endpoint' \in {endpoint, NoEndpoint},
         \A q \in Runs : announced'[q] \in {announced[q], NoPid},
         Knows(r)', SupervisorOnRecord', DaemonOnRecord'
  PROVE  Inv'
<1>1. OneCommand'
  BY UnderWayAre DEF Inv, OneCommand, UnderWay, Walk
<1>2. ASSUME NEW q \in Runs, q # r PROVE Knows(q)'
  <2>1. /\ Held' = Held /\ cmd'[q] = cmd[q]
        /\ \A d : Born(d) => Born(d)' /\ daemon'[d].parent = daemon[d].parent
        /\ \A x \in Runs : cmd[x].pc \in Supervising \cup Ended
                           => cmd'[x].pc \in Supervising \cup Ended
    BY <1>2, WalkFrame DEF Inv, Walk
  <2>2. Knows(q)
    BY DEF Inv
  <2>3. At(q, "record") \/ At(q, "killed") =>
          revPid' \in {revPid, NoPid} \/ revPid' # cmd[q].of
    <3>1. (Born(cmd[r].of) /\ daemon[cmd[r].of].parent = r) \/ ~At(r, "record")
      BY DEF Inv, Knows, HasChild, At
    <3>2. At(q, "record") => daemon[cmd[q].of].parent = q
      BY <2>2 DEF Knows, HasChild, At
    <3>3. At(q, "killed") => cmd[q].of = NoPid \/ daemon[cmd[q].of].parent = q
      BY <2>2 DEF Knows, Unrecorded
    <3>4. ~Born(NoPid)
      BY Pids DEF Born
    <3> QED BY <1>2, <3>1, <3>2, <3>3, <3>4
  <2>4. CASE r \in Supervisors \/ r \notin Supervisors'
    <3>1. Supervisors' \subseteq Supervisors
      BY <2>4, WalkFrame DEF Inv, Supervisors
    <3> QED BY <2>1, <2>2, <2>3, <3>1, KnowsFrame
  <2>5. CASE At(r, "recordSelf")
    <3>1. r \in UnderWay
      BY <2>5, UnderWayAre DEF At, Starting
    <3>2. cmd[q].pc \notin Starting \cup Stopping
      BY <1>2, <3>1, UnderWayAre DEF Inv, OneCommand
    <3>3. NoSupervisor(q)' /\ WaitsForSupervisor(q)'
      BY <2>1, <3>2 DEF NoSupervisor, WaitsForSupervisor, At, Starting, Stopping
    <3>4. WaitsForDaemon(q)' /\ NoDaemon(q)' /\ HasChild(q)'
      BY <2>1, <2>2, <3>2 DEF Knows, WaitsForDaemon, NoDaemon, HasChild
    <3>5. At(q, "record") => cmd[q].of # NoPid
      BY <2>2, Pids DEF Knows, HasChild, Born, At
    <3>6. Unrecorded(q)'
      BY <2>1, <2>2, <2>3, <3>5 DEF Knows, Unrecorded, At
    <3> QED BY <3>3, <3>4, <3>6 DEF Knows
  <2>6. r \notin Supervisors' \/ r \in Supervisors \/ At(r, "recordSelf")
    BY DEF Supervisors
  <2> QED BY <2>4, <2>5, <2>6
<1>3. EndpointsAreOwn'
  <2>1. Lost' = Lost /\ \A d : Born(d) => Born(d)' /\ daemon'[d].parent = daemon[d].parent
    BY WalkFrame DEF Inv
  <2> QED BY <2>1, EndpointFrame DEF Inv
<1> QED BY <1>1, <1>2, <1>3 DEF Inv

(* The two pid files when neither a supervisor nor an unrecorded child begins. *)
LEMMA FilesFrame ==
  ASSUME Inv, NEW r \in Runs, Walk(r),
         revPid' = revPid \/ (revPid' = NoPid /\ revPid \notin Held),
         supPid' = supPid \/ (supPid' = NoPid /\ Supervisors' = {}),
         cmd'[r].pc \in Supervising => r \in Supervisors,
         ~At(r, "record")
  PROVE  SupervisorOnRecord' /\ DaemonOnRecord'
<1>1. SupervisorOnRecord'
  <2>1. \A q \in Supervisors' : q \in Supervisors
    BY SupervisorsAre, WalkFrame DEF Inv, Supervisors
  <2>2. \A q \in Supervisors' : supPid' = q
    BY <2>1 DEF Inv, SupervisorOnRecord
  <2>3. supPid' \in Runs => cmd'[supPid'].pc \in Supervising \cup Ended
    BY Pids, WalkFrame DEF Inv, SupervisorOnRecord
  <2> QED BY <2>2, <2>3 DEF SupervisorOnRecord
<1>2. DaemonOnRecord'
  <2>1. Held' = Held /\ UNCHANGED daemon
    BY WalkFrame DEF Inv, Walk
  <2>2. ASSUME NEW d \in Held
        PROVE  (revPid = d \/ (daemon[d].parent \in Runs /\ At(daemon[d].parent, "record")))'
    <3>1. ~At(r, "record")
      OBVIOUS
    <3>2. revPid = d => revPid' = d
      BY <2>2
    <3>3. \A q \in Runs : At(q, "record") => At(q, "record")'
      BY <3>1 DEF At, Walk
    <3>4. revPid = d \/ (daemon[d].parent \in Runs /\ At(daemon[d].parent, "record"))
      BY DEF Inv, DaemonOnRecord
    <3> QED BY <2>1, <3>2, <3>3, <3>4
  <2>3. revPid' # NoPid => Born(revPid)'
    BY WalkFrame DEF Inv, DaemonOnRecord
  <2> QED BY <2>1, <2>2, <2>3 DEF DaemonOnRecord
<1> QED BY <1>1, <1>2

(* Where Go and Deal take a run. *)
LEMMA GoTo ==
  ASSUME cmd \in [Runs -> Commands], NEW r \in Runs, NEW p \in Places, Go(r, p)
  PROVE  /\ cmd' \in [Runs -> Commands]
         /\ cmd'[r].pc = p /\ cmd'[r].of = cmd[r].of
         /\ \A q \in Runs : q # r => cmd'[q] = cmd[q]
<1>1. cmd[r] \in Commands
  OBVIOUS
<1>2. [cmd[r] EXCEPT !.pc = p] \in Commands
  BY <1>1 DEF Commands
<1>3. cmd' = [cmd EXCEPT ![r] = [cmd[r] EXCEPT !.pc = p]]
  BY DEF Go
<1>4. cmd'[r] = [cmd[r] EXCEPT !.pc = p]
  BY <1>3
<1>5. cmd'[r].pc = p /\ cmd'[r].of = cmd[r].of
  BY <1>1, <1>4 DEF Commands
<1> QED BY <1>2, <1>3, <1>5

LEMMA DealTo ==
  ASSUME cmd \in [Runs -> Commands], NEW r \in Runs, NEW p \in Places, NEW x \in Runs \cup Daemons \cup {NoPid},
         Deal(r, p, x)
  PROVE  /\ cmd' \in [Runs -> Commands]
         /\ cmd'[r].pc = p /\ cmd'[r].of = x
         /\ \A q \in Runs : q # r => cmd'[q] = cmd[q]
<1>1. cmd[r] \in Commands
  OBVIOUS
<1>2. [cmd[r] EXCEPT !.pc = p, !.of = x] \in Commands
  BY <1>1 DEF Commands
<1>3. cmd' = [cmd EXCEPT ![r] = [cmd[r] EXCEPT !.pc = p, !.of = x]]
  BY DEF Deal
<1>4. cmd'[r] = [cmd[r] EXCEPT !.pc = p, !.of = x]
  BY <1>3
<1>5. cmd'[r].pc = p /\ cmd'[r].of = x
  BY <1>1, <1>4 DEF Commands
<1> QED BY <1>2, <1>3, <1>5

-----------------------------------------------------------------------------
(* What a command finds out. *)

(* Without a supervisor, the only daemon there can be is the one on record. *)
LEMMA OnlyRecorded ==
  ASSUME Inv, Supervisors = {}
  PROVE  Held \subseteq {revPid}
BY DEF Inv, DaemonOnRecord, Supervisors, Supervising, At

LEMMA DeadIsNotHeld ==
  ASSUME NEW d, ~Alive(d)
  PROVE  d \notin Held
BY DEF Held, LiveDaemons

(* The pid of a dead supervisor, or none, means that there is none. *)
LEMMA NobodyOnRecord ==
  ASSUME Inv, LivePid(supPid) = NoPid
  PROVE  Supervisors = {}
<1>1. \A r \in Supervisors : r = supPid /\ Alive(r)
  BY AliveIs, SupervisorsAre DEF Inv, SupervisorOnRecord, Supervising, Ended
<1>2. \A r \in Supervisors : r \in Runs
  BY SupervisorsAre
<1> QED BY <1>1, <1>2, AliveIs

(* A step of one run that spawns nothing, records nobody and kills nobody. *)
Quiet(r) ==
  /\ UNCHANGED daemon
  /\ cmd' \in [Runs -> Commands]
  /\ \A q \in Runs : q # r => cmd'[q] = cmd[q]
  /\ cmd[r].pc \notin Ended \cup {"record"} /\ cmd'[r].pc # "killed"
  /\ cmd[r].pc \in Supervising => cmd'[r].pc \in Supervising \cup {"done"}
  /\ cmd'[r].pc \in Supervising => cmd[r].pc \in Supervising
  /\ cmd'[r].pc \in Starting \cup Stopping => r \in UnderWay \/ UnderWay = {}
  /\ revPid' = revPid \/ (revPid' = NoPid /\ revPid \notin Held)
  /\ \/ supPid' = supPid
     \/ supPid' = NoPid /\ Supervisors \subseteq {r} /\ cmd'[r].pc \notin Supervising
  /\ endpoint' \in {endpoint, NoEndpoint}
  /\ \A q \in Runs : announced'[q] \in {announced[q], NoPid}
  /\ announced' \in [Runs -> Daemons \cup {NoPid}]

LEMMA QuietStep ==
  ASSUME Inv, NEW r \in Runs, Quiet(r),
         Held' = Held /\ Supervisors' \subseteq Supervisors => Knows(r)'
  PROVE  Inv'
<1>1. Walk(r)
  BY DEF Quiet, Walk, Ended
<1>2. Types'
  <2>1. endpoint' \in [of : Daemons \cup {NoPid}, newer : SUBSET Runs]
    BY DEF Inv, Types, Quiet, NoEndpoint
  <2> QED BY <2>1 DEF Inv, Types, Quiet
<1>3. /\ cmd'[r].pc \in Supervising => r \in Supervisors
      /\ ~At(r, "record")
  BY SupervisorsAre DEF Quiet, At
<1>4. Supervisors' \subseteq Supervisors
  BY <1>1, <1>3, WalkFrame DEF Inv, Supervisors
<1>5. Supervisors \subseteq {r} /\ cmd'[r].pc \notin Supervising => Supervisors' = {}
  BY <1>4 DEF Supervisors
<1>6. Knows(r)'
  BY <1>1, <1>4, WalkFrame DEF Inv
<1>7. SupervisorOnRecord' /\ DaemonOnRecord'
  BY <1>1, <1>3, <1>5, FilesFrame DEF Quiet
<1> QED BY <1>1, <1>2, <1>3, <1>6, <1>7, WalkKeepsInv DEF Quiet

LEMMA DispatchStep ==
  ASSUME Inv, NEW r \in Runs, Dispatch(r), OneCommand'
  PROVE  Inv'
<1>1. PICK k \in {"start", "stop", "restart", "uninstall"} :
        cmd' = [cmd EXCEPT ![r] =
                 [kind |-> k, pc |-> IF k = "start" THEN "resolve" ELSE "readPids", of |-> NoPid]]
  BY DEF Dispatch
<1>2. [kind |-> k, pc |-> IF k = "start" THEN "resolve" ELSE "readPids", of |-> NoPid] \in Commands
  BY DEF Commands, Places, Starting, Stopping
<1>3. /\ cmd' \in [Runs -> Commands]
      /\ cmd'[r].pc \in {"resolve", "readPids"}
      /\ \A q \in Runs : q # r => cmd'[q] = cmd[q]
  BY <1>1, <1>2 DEF Inv, Types
<1>4. UnderWay = {}
  <2>1. r \in UnderWay' /\ r \notin UnderWay
    BY <1>3 DEF UnderWay, Dispatch, At, Starting, Stopping
  <2>2. \A q \in UnderWay : q \in UnderWay' /\ q # r
    BY <1>3, <2>1 DEF UnderWay
  <2> QED BY <2>1, <2>2 DEF OneCommand
<1>5. Quiet(r)
  BY <1>3, <1>4 DEF Inv, Types, Dispatch, Quiet, files, At, Ended, Supervising
<1>6. Knows(r)'
  BY <1>3 DEF Knows, NoSupervisor, NoDaemon, WaitsForSupervisor, WaitsForDaemon, HasChild,
              Unrecorded, At
<1> QED BY <1>5, <1>6, QuietStep

LEMMA ResolveStep ==
  ASSUME Inv, NEW r \in Runs, Resolve(r)
  PROVE  Inv'
<1>1. /\ cmd[r].pc = "resolve" /\ r \in UnderWay
      /\ \/ Go(r, "done") /\ UNCHANGED supPid
         \/ Go(r, "orphan") /\ supPid' = NoPid /\ LivePid(supPid) = NoPid
  BY UnderWayAre DEF Resolve, At, Starting
<1>2. /\ cmd' \in [Runs -> Commands]
      /\ \/ cmd'[r].pc = "done" /\ UNCHANGED supPid
         \/ cmd'[r].pc = "orphan" /\ supPid' = NoPid /\ Supervisors = {}
      /\ \A q \in Runs : q # r => cmd'[q] = cmd[q]
  BY <1>1, GoTo, NobodyOnRecord DEF Inv, Types, Places, Starting, Ended
<1>3. Quiet(r)
  BY <1>1, <1>2 DEF Inv, Types, Resolve, Quiet, Ended, Supervising
<1>4. Supervisors' \subseteq Supervisors => Knows(r)'
  BY <1>2 DEF Knows, NoSupervisor, NoDaemon, WaitsForSupervisor, WaitsForDaemon, HasChild,
              Unrecorded, At
<1> QED BY <1>3, <1>4, QuietStep

LEMMA ResolveOrphanStep ==
  ASSUME Inv, NEW r \in Runs, ResolveOrphan(r)
  PROVE  Inv'
<1>1. cmd[r].pc = "orphan" /\ r \in UnderWay
  BY UnderWayAre DEF ResolveOrphan, At, Starting
<1>2. Supervisors = {} /\ Held \subseteq {revPid} /\ revPid \in Daemons \cup {NoPid}
  BY <1>1, OnlyRecorded DEF Inv, Knows, NoSupervisor, Types
<1>3. \/ Deal(r, "waitOrphan", revPid) /\ UNCHANGED revPid /\ revPid \in Daemons
      \/ Go(r, "unlink") /\ revPid' = NoPid /\ revPid \notin Held
  BY <1>2, AliveIs, Pids, DeadIsNotHeld DEF ResolveOrphan
<1>4. /\ cmd' \in [Runs -> Commands]
      /\ \/ /\ cmd'[r].pc = "waitOrphan" /\ cmd'[r].of = revPid
            /\ UNCHANGED revPid /\ revPid \in Daemons
         \/ cmd'[r].pc = "unlink" /\ revPid' = NoPid /\ Held = {}
      /\ \A q \in Runs : q # r => cmd'[q] = cmd[q]
  BY <1>2, <1>3, GoTo, DealTo DEF Inv, Types, Places, Starting
<1>5. Quiet(r)
  BY <1>1, <1>4 DEF Inv, Types, ResolveOrphan, Quiet, Ended, Supervising
<1>6. Held' = Held /\ Supervisors' \subseteq Supervisors => Knows(r)'
  BY <1>2, <1>4
     DEF Knows, NoSupervisor, NoDaemon, WaitsForSupervisor, WaitsForDaemon, HasChild,
         Unrecorded, At
<1> QED BY <1>5, <1>6, QuietStep

(* A wait for a daemon is over when it is dead: then there is none. *)
LEMMA DaemonGoneStep ==
  ASSUME Inv, NEW r \in Runs, OrphanGone(r) \/ ReviewGone(r)
  PROVE  Inv'
<1>1. /\ cmd[r].pc \in {"waitOrphan", "waitRev"} /\ r \in UnderWay
      /\ ~Alive(cmd[r].of)
      /\ Deal(r, "unlink", NoPid) \/ Deal(r, "removeFiles", NoPid)
      /\ revPid' \in {revPid, NoPid}
  BY UnderWayAre DEF OrphanGone, ReviewGone, files, At, Starting, Stopping
<1>2. Supervisors = {} /\ Held = {}
  BY <1>1, DeadIsNotHeld DEF Inv, Knows, NoSupervisor, WaitsForDaemon
<1>3. /\ cmd' \in [Runs -> Commands]
      /\ cmd'[r].pc \in {"unlink", "removeFiles"}
      /\ \A q \in Runs : q # r => cmd'[q] = cmd[q]
  BY <1>1, DealTo DEF Inv, Types, Places, Starting, Stopping
<1>4. Quiet(r)
  BY <1>1, <1>2, <1>3 DEF Inv, Types, OrphanGone, ReviewGone, files, Quiet, Ended, Supervising
<1>5. Held' = Held /\ Supervisors' \subseteq Supervisors => Knows(r)'
  BY <1>2, <1>3
     DEF Knows, NoSupervisor, NoDaemon, WaitsForSupervisor, WaitsForDaemon, HasChild,
         Unrecorded, At
<1> QED BY <1>4, <1>5, QuietStep

LEMMA RemoveEndpointStep ==
  ASSUME Inv, NEW r \in Runs, RemoveEndpoint(r)
  PROVE  Inv'
<1>1. cmd[r].pc = "unlink" /\ r \in UnderWay /\ Go(r, "recordSelf")
  BY UnderWayAre DEF RemoveEndpoint, At, Starting
<1>2. Supervisors = {} /\ Held = {}
  BY <1>1 DEF Inv, Knows, NoSupervisor, NoDaemon
<1>3. /\ cmd' \in [Runs -> Commands] /\ cmd'[r].pc = "recordSelf"
      /\ \A q \in Runs : q # r => cmd'[q] = cmd[q]
  BY <1>1, GoTo DEF Inv, Types, Places, Starting
<1>4. Quiet(r)
  BY <1>1, <1>3 DEF Inv, Types, RemoveEndpoint, Quiet, Ended, Supervising
<1>5. Held' = Held /\ Supervisors' \subseteq Supervisors => Knows(r)'
  BY <1>2, <1>3
     DEF Knows, NoSupervisor, NoDaemon, WaitsForSupervisor, WaitsForDaemon, HasChild,
         Unrecorded, At
<1> QED BY <1>4, <1>5, QuietStep

(* The supervisor begins: nobody else is on record, and no daemon is left. *)
LEMMA RecordSelfStep ==
  ASSUME Inv, NEW r \in Runs, RecordSelf(r), WritesTaken
  PROVE  Inv'
<1>1. /\ cmd[r].pc = "recordSelf" /\ r \in UnderWay /\ Go(r, "spawn") /\ supPid' = r
      /\ UNCHANGED <<daemon, revPid, endpoint, announced>>
  BY UnderWayAre DEF RecordSelf, WritesTaken, At, Starting
<1>2. Supervisors = {} /\ Held = {}
  BY <1>1 DEF Inv, Knows, NoSupervisor, NoDaemon
<1>3. /\ cmd' \in [Runs -> Commands] /\ cmd'[r].pc = "spawn"
      /\ \A q \in Runs : q # r => cmd'[q] = cmd[q]
  BY <1>1, GoTo DEF Inv, Types, Places, Supervising
<1>4. Walk(r) /\ Types'
  BY <1>1, <1>3 DEF Inv, Types, Walk, Ended, Supervising
<1>5. Held' = {} /\ Supervisors' = {r}
  BY <1>2, <1>3, <1>4, WalkFrame, SupervisorsAre DEF Inv, Supervisors, Supervising
<1>6. Knows(r)'
  BY <1>3, <1>5
     DEF Knows, NoSupervisor, NoDaemon, WaitsForSupervisor, WaitsForDaemon, HasChild,
         Unrecorded, At
<1>7. SupervisorOnRecord'
  BY <1>1, <1>3, <1>5 DEF SupervisorOnRecord, Supervising
<1>8. DaemonOnRecord'
  BY <1>1, <1>4, <1>5, WalkFrame DEF Inv, DaemonOnRecord
<1>9. cmd'[r].pc \notin Starting \cup Stopping /\ At(r, "recordSelf")
  BY <1>1, <1>3 DEF Starting, Stopping, At
<1> QED BY <1>1, <1>4, <1>6, <1>7, <1>8, <1>9, WalkKeepsInv

-----------------------------------------------------------------------------
(* stop. *)

LEMMA ReadPidsStep ==
  ASSUME Inv, NEW r \in Runs, ReadPids(r)
  PROVE  Inv'
<1>1. /\ cmd[r].pc = "readPids" /\ r \in UnderWay
      /\ \/ LivePid(supPid) # NoPid /\ Deal(r, "waitSup", LivePid(supPid))
         \/ LivePid(supPid) = NoPid /\ LivePid(revPid) # NoPid /\ Go(r, "readRev")
         \/ LivePid(supPid) = NoPid /\ LivePid(revPid) = NoPid /\ Go(r, "removeFiles")
  BY UnderWayAre DEF ReadPids, At, Stopping
<1>2. CASE LivePid(supPid) # NoPid
  <2>1. LivePid(supPid) = supPid /\ supPid \in Runs
    BY <1>2, AliveIs DEF Inv, Types
  <2>2. /\ cmd[supPid].pc \in Supervising \cup Ended /\ Supervisors \subseteq {supPid}
    BY <2>1 DEF Inv, SupervisorOnRecord
  <2>3. Deal(r, "waitSup", supPid)
    BY <1>1, <1>2, <2>1
  <2>4. /\ cmd' \in [Runs -> Commands] /\ cmd'[r].pc = "waitSup" /\ cmd'[r].of = supPid
        /\ \A q \in Runs : q # r => cmd'[q] = cmd[q]
    BY <2>1, <2>3, DealTo DEF Inv, Types, Places, Stopping
  <2>5. supPid # r
    BY <1>1, <2>2 DEF Supervising, Ended
  <2>6. Quiet(r)
    BY <1>1, <2>4 DEF Inv, Types, ReadPids, files, Quiet, Ended, Supervising
  <2>7. Supervisors' \subseteq Supervisors => Knows(r)'
    BY <2>1, <2>2, <2>4, <2>5
       DEF Knows, NoSupervisor, NoDaemon, WaitsForSupervisor, WaitsForDaemon, HasChild,
           Unrecorded, At
  <2> QED BY <2>6, <2>7, QuietStep
<1>3. CASE LivePid(supPid) = NoPid
  <2>1. Supervisors = {} /\ Held \subseteq {revPid}
    BY <1>3, NobodyOnRecord, OnlyRecorded
  <2>2. LivePid(revPid) = NoPid => Held = {}
    <3>1. revPid \in Held => LivePid(revPid) # NoPid
      BY Pids DEF Held, LiveDaemons, LivePid
    <3> QED BY <2>1, <3>1
  <2>3. /\ cmd' \in [Runs -> Commands]
        /\ \/ cmd'[r].pc = "readRev"
           \/ cmd'[r].pc = "removeFiles" /\ Held = {}
        /\ \A q \in Runs : q # r => cmd'[q] = cmd[q]
    BY <1>1, <1>3, <2>2, GoTo DEF Inv, Types, Places, Stopping
  <2>4. Quiet(r)
    BY <1>1, <2>3 DEF Inv, Types, ReadPids, files, Quiet, Ended, Supervising
  <2>5. Held' = Held /\ Supervisors' \subseteq Supervisors => Knows(r)'
    BY <2>1, <2>3
       DEF Knows, NoSupervisor, NoDaemon, WaitsForSupervisor, WaitsForDaemon, HasChild,
           Unrecorded, At
  <2> QED BY <2>4, <2>5, QuietStep
<1> QED BY <1>2, <1>3

LEMMA SupervisorGoneStep ==
  ASSUME Inv, NEW r \in Runs, SupervisorGone(r)
  PROVE  Inv'
<1>1. /\ cmd[r].pc = "waitSup" /\ r \in UnderWay /\ ~Alive(cmd[r].of)
      /\ Deal(r, "readRev", NoPid)
  BY UnderWayAre DEF SupervisorGone, At, Stopping
<1>2. Supervisors = {}
  <2>1. Supervisors \subseteq {cmd[r].of} /\ cmd[r].of \in Runs
    BY <1>1 DEF Inv, Knows, WaitsForSupervisor, At
  <2>2. cmd[r].of \notin Supervisors
    BY <1>1, <2>1, AliveIs DEF Supervisors, Supervising, Ended
  <2> QED BY <2>1, <2>2
<1>3. /\ cmd' \in [Runs -> Commands] /\ cmd'[r].pc = "readRev"
      /\ \A q \in Runs : q # r => cmd'[q] = cmd[q]
  BY <1>1, DealTo DEF Inv, Types, Places, Stopping
<1>4. Quiet(r)
  BY <1>1, <1>3 DEF Inv, Types, SupervisorGone, files, Quiet, Ended, Supervising
<1>5. Supervisors' \subseteq Supervisors => Knows(r)'
  BY <1>2, <1>3
     DEF Knows, NoSupervisor, NoDaemon, WaitsForSupervisor, WaitsForDaemon, HasChild,
         Unrecorded, At
<1> QED BY <1>4, <1>5, QuietStep

LEMMA ReadReviewStep ==
  ASSUME Inv, NEW r \in Runs, ReadReview(r)
  PROVE  Inv'
<1>1. cmd[r].pc = "readRev" /\ r \in UnderWay
  BY UnderWayAre DEF ReadReview, At, Stopping
<1>2. Supervisors = {} /\ Held \subseteq {revPid} /\ revPid \in Daemons \cup {NoPid}
  BY <1>1, OnlyRecorded DEF Inv, Knows, NoSupervisor, Types
<1>3. \/ Deal(r, "waitRev", revPid) /\ revPid \in Daemons
      \/ Go(r, "removeFiles") /\ revPid \notin Held
  BY <1>2, AliveIs, Pids, DeadIsNotHeld DEF ReadReview
<1>4. /\ cmd' \in [Runs -> Commands]
      /\ \/ cmd'[r].pc = "waitRev" /\ cmd'[r].of = revPid /\ revPid \in Daemons
         \/ cmd'[r].pc = "removeFiles" /\ Held = {}
      /\ \A q \in Runs : q # r => cmd'[q] = cmd[q]
  BY <1>2, <1>3, GoTo, DealTo DEF Inv, Types, Places, Stopping
<1>5. Quiet(r)
  BY <1>1, <1>4 DEF Inv, Types, ReadReview, files, Quiet, Ended, Supervising
<1>6. Held' = Held /\ Supervisors' \subseteq Supervisors => Knows(r)'
  BY <1>2, <1>4
     DEF Knows, NoSupervisor, NoDaemon, WaitsForSupervisor, WaitsForDaemon, HasChild,
         Unrecorded, At
<1> QED BY <1>5, <1>6, QuietStep

(* The files go when nobody is left to be named by them. *)
LEMMA RemovedStep ==
  ASSUME Inv, NEW r \in Runs, RemoveFiles(r) \/ Wipe(r)
  PROVE  Inv'
<1>1. /\ cmd[r].pc \in {"removeFiles", "wipe"} /\ r \in UnderWay
      /\ \E p \in {"resolve", "wipe", "done"} : Go(r, p)
  BY UnderWayAre DEF RemoveFiles, Wipe, AfterStop, At, Stopping
<1>2. Supervisors = {} /\ Held = {}
  BY <1>1 DEF Inv, Knows, NoSupervisor, NoDaemon
<1>3. /\ cmd' \in [Runs -> Commands] /\ cmd'[r].pc \in {"resolve", "wipe", "done"}
      /\ \A q \in Runs : q # r => cmd'[q] = cmd[q]
  BY <1>1, GoTo DEF Inv, Types, Places, Starting, Stopping, Ended
<1>4. Quiet(r)
  BY <1>1, <1>2, <1>3 DEF Inv, Types, RemoveFiles, Wipe, Quiet, Ended, Supervising
<1>5. Held' = Held /\ Supervisors' \subseteq Supervisors => Knows(r)'
  BY <1>2, <1>3
     DEF Knows, NoSupervisor, NoDaemon, WaitsForSupervisor, WaitsForDaemon, HasChild,
         Unrecorded, At
<1> QED BY <1>4, <1>5, QuietStep

-----------------------------------------------------------------------------
(* The supervisor. *)

(* Its child is dead, or it has none: no daemon is left. *)
LEMMA ChildGoneStep ==
  ASSUME Inv, NEW r \in Runs,
         \/ SpawnFailed(r) \/ CleanExit(r) \/ BudgetExhausted(r) \/ UncleanExit(r)
         \/ StoppedChild(r) \/ BackoffOver(r)
  PROVE  Inv'
<1>1. /\ cmd[r].pc \in {"spawn", "waiting", "stopping", "backoff"}
      /\ \E p \in {"leave", "backoff", "spawn"} : Go(r, p)
      /\ cmd[r].pc \in {"waiting", "stopping"} => ~Alive(cmd[r].of) \/ daemon[cmd[r].of].st \in {"clean", "unclean"}
  BY DEF SpawnFailed, CleanExit, BudgetExhausted, UncleanExit, StoppedChild, BackoffOver,
         ChildIs, At
<1>2. Held = {}
  <2>1. CASE cmd[r].pc \in {"spawn", "backoff"}
    BY <2>1 DEF Inv, Knows, NoDaemon
  <2>2. CASE cmd[r].pc \in {"waiting", "stopping"}
    <3>1. Held \subseteq {cmd[r].of}
      BY <2>2 DEF Inv, Knows, HasChild
    <3> QED BY <1>1, <2>2, <3>1, HeldIs, DeadIsNotHeld
  <2> QED BY <1>1, <2>1, <2>2
<1>3. /\ cmd' \in [Runs -> Commands] /\ cmd'[r].pc \in {"leave", "backoff", "spawn"}
      /\ \A q \in Runs : q # r => cmd'[q] = cmd[q]
  BY <1>1, GoTo DEF Inv, Types, Places, Supervising
<1>4. Quiet(r)
  BY <1>1, <1>2, <1>3
     DEF Inv, Types, SpawnFailed, CleanExit, BudgetExhausted, UncleanExit, StoppedChild,
         BackoffOver, files, Quiet, Ended, Supervising, Starting, Stopping
<1>5. Held' = Held => Knows(r)'
  BY <1>2, <1>3
     DEF Knows, NoSupervisor, NoDaemon, WaitsForSupervisor, WaitsForDaemon, HasChild,
         Unrecorded, At
<1> QED BY <1>4, <1>5, QuietStep

LEMMA CancelledStep ==
  ASSUME Inv, NEW r \in Runs, Cancelled(r)
  PROVE  Inv'
<1>1. cmd[r].pc = "waiting" /\ Go(r, "stopping")
  BY DEF Cancelled, At
<1>2. /\ cmd' \in [Runs -> Commands]
      /\ cmd'[r].pc = "stopping" /\ cmd'[r].of = cmd[r].of
      /\ \A q \in Runs : q # r => cmd'[q] = cmd[q]
  BY <1>1, GoTo DEF Inv, Types, Places, Supervising
<1>3. Quiet(r)
  BY <1>1, <1>2 DEF Inv, Types, Cancelled, files, Quiet, Ended, Supervising, Starting, Stopping
<1>4. Born(cmd[r].of) /\ daemon[cmd[r].of].parent = r /\ Held \subseteq {cmd[r].of}
  BY <1>1 DEF Inv, Knows, HasChild
<1>5. UNCHANGED daemon
  BY DEF Cancelled
<1>6. Held' = Held => Knows(r)'
  BY <1>2, <1>4, <1>5
     DEF Knows, NoSupervisor, NoDaemon, WaitsForSupervisor, WaitsForDaemon, HasChild,
         Unrecorded, At, Born
<1> QED BY <1>3, <1>6, QuietStep

LEMMA LeaveStep ==
  ASSUME Inv, NEW r \in Runs, Leave(r)
  PROVE  Inv'
<1>1. /\ cmd[r].pc = "leave" /\ r \in Supervisors /\ supPid' = NoPid
      /\ cmd' = [cmd EXCEPT ![r] = [kind |-> "none", pc |-> "done", of |-> NoPid]]
  BY SupervisorsAre DEF Leave, At, Supervising
<1>2. Supervisors \subseteq {r}
  BY <1>1 DEF Inv, SupervisorOnRecord
<1>3. /\ cmd' \in [Runs -> Commands] /\ cmd'[r].pc = "done"
      /\ \A q \in Runs : q # r => cmd'[q] = cmd[q]
  <2>1. [kind |-> "none", pc |-> "done", of |-> NoPid] \in Commands
    BY DEF Commands, Places, Ended
  <2> QED BY <1>1, <2>1 DEF Inv, Types
<1>4. Quiet(r)
  BY <1>1, <1>2, <1>3
     DEF Inv, Types, Leave, Forget, Quiet, Ended, Supervising, Starting, Stopping
<1>5. Knows(r)'
  BY <1>3 DEF Knows, NoSupervisor, NoDaemon, WaitsForSupervisor, WaitsForDaemon, HasChild,
              Unrecorded, At
<1> QED BY <1>4, <1>5, QuietStep

LEMMA RecordChildStep ==
  ASSUME Inv, NEW r \in Runs, RecordChild(r), WritesTaken
  PROVE  Inv'
<1>1. /\ cmd[r].pc = "record" /\ r \in Supervisors /\ Go(r, "waiting") /\ revPid' = cmd[r].of
      /\ UNCHANGED <<daemon, supPid, endpoint, announced>>
  BY SupervisorsAre DEF RecordChild, WritesTaken, At, Supervising
<1>2. Born(cmd[r].of) /\ daemon[cmd[r].of].parent = r /\ Held \subseteq {cmd[r].of}
  BY <1>1 DEF Inv, Knows, HasChild
<1>3. /\ cmd' \in [Runs -> Commands]
      /\ cmd'[r].pc = "waiting" /\ cmd'[r].of = cmd[r].of
      /\ \A q \in Runs : q # r => cmd'[q] = cmd[q]
  BY <1>1, GoTo DEF Inv, Types, Places, Supervising
<1>4. Walk(r) /\ Types'
  BY <1>1, <1>2, <1>3 DEF Inv, Types, Walk, Ended, Supervising, Born
<1>5. Held' = Held /\ Born(cmd[r].of)'
  BY <1>1, <1>2, <1>3, <1>4, WalkFrame DEF Inv, Born
<1>6. Knows(r)'
  BY <1>1, <1>2, <1>3, <1>5
     DEF Knows, NoSupervisor, NoDaemon, WaitsForSupervisor, WaitsForDaemon, HasChild,
         Unrecorded, At, Born
<1>7. SupervisorOnRecord'
  BY <1>1, <1>3, <1>4, WalkFrame DEF Inv, SupervisorOnRecord, Supervisors
<1>8. DaemonOnRecord'
  BY <1>1, <1>2, <1>3, <1>5 DEF DaemonOnRecord, Born
<1>9. cmd'[r].pc \notin Starting \cup Stopping /\ At(r, "record")
  BY <1>1, <1>3 DEF Starting, Stopping, At
<1> QED BY <1>1, <1>4, <1>6, <1>7, <1>8, <1>9, WalkKeepsInv

(* A daemon is born, and there is no other: its supervisor had none left, no
   command that counts on there being none is under way. *)
LEMMA SpawnStep ==
  ASSUME Inv, NEW r \in Runs, Spawn(r)
  PROVE  Inv'
<1>1. PICK d \in Daemons : /\ daemon[d].st = "unborn"
                           /\ daemon' = [daemon EXCEPT ![d] = [st |-> "booting", parent |-> r]]
                           /\ Deal(r, "record", d)
  BY DEF Spawn
<1>2. /\ cmd[r].pc = "spawn" /\ r \in Supervisors
      /\ UNCHANGED <<supPid, revPid, endpoint, announced>>
  BY SupervisorsAre DEF Spawn, files, At, Supervising
<1>3. /\ cmd' \in [Runs -> Commands] /\ cmd'[r].pc = "record" /\ cmd'[r].of = d
      /\ \A q \in Runs : q # r => cmd'[q] = cmd[q]
  BY <1>1, DealTo DEF Inv, Types, Places, Supervising
<1>4. /\ daemon'[d].st = "booting" /\ daemon'[d].parent = r
      /\ \A e \in Daemons : e # d => daemon'[e] = daemon[e]
  BY <1>1 DEF Inv, Types
<1>5. Types'
  BY <1>1, <1>2, <1>3 DEF Inv, Types
<1>6. \A q \in Runs : cmd'[q].pc \in Supervising <=> cmd[q].pc \in Supervising
  BY <1>2, <1>3 DEF Supervising
<1>7. Supervisors' = Supervisors /\ \A q \in Supervisors : q = r
  BY <1>2, <1>6 DEF Supervisors, Inv, SupervisorOnRecord
<1>8. \A e : e \in Lost' <=> e \in Lost
  BY <1>2, <1>3, LostIs DEF Lost, At
<1>9. Held' \subseteq {d}
  <2>1. Held = {}
    BY <1>2 DEF Inv, Knows, NoDaemon
  <2>2. ASSUME NEW e \in Held', e # d PROVE e \in Held
    <3>1. /\ e \in Daemons /\ daemon'[e].st \in {"booting", "bound", "serving"}
          /\ e \notin Lost'
      BY Pids DEF Held, LiveDaemons, Alive
    <3> QED BY <1>4, <1>8, <2>2, <3>1, HeldIs
  <2> QED BY <2>1, <2>2
<1>10. \A e : Born(e) => e # d /\ Born(e)' /\ daemon'[e].parent = daemon[e].parent
  BY <1>1, <1>4 DEF Born
<1>11. OneCommand'
  BY <1>2, <1>3 DEF Inv, OneCommand, UnderWay, Starting, Stopping
<1>12. SupervisorOnRecord'
  BY <1>2, <1>3, <1>7 DEF Inv, SupervisorOnRecord, Supervising
<1>13. Knows(r)'
  <2>1. revPid' # d
    BY <1>2, <1>10, Pids DEF Inv, DaemonOnRecord
  <2>2. Born(d)'
    BY <1>4 DEF Born
  <2> QED BY <1>3, <1>4, <1>9, <2>1, <2>2
       DEF Knows, NoSupervisor, NoDaemon, WaitsForSupervisor, WaitsForDaemon, HasChild,
           Unrecorded, At
<1>14. ASSUME NEW q \in Runs, q # r PROVE Knows(q)'
  <2>1. Knows(q) /\ cmd'[q] = cmd[q]
    BY <1>3, <1>14 DEF Inv
  <2>2. cmd[q].pc \notin Supervising
    BY <1>7, <1>14 DEF Supervisors
  <2>3. cmd[q].pc \notin {"orphan", "waitOrphan", "unlink", "recordSelf",
                          "readRev", "waitRev", "removeFiles", "wipe"}
    BY <1>2, <2>1 DEF Knows, NoSupervisor
  <2>4. /\ NoSupervisor(q)' /\ NoDaemon(q)' /\ WaitsForDaemon(q)' /\ HasChild(q)'
    BY <2>1, <2>2, <2>3 DEF NoSupervisor, NoDaemon, WaitsForDaemon, HasChild, Supervising
  <2>5. WaitsForSupervisor(q)'
    <3>1. \A x \in Runs : cmd[x].pc \in Supervising \cup Ended
                         => cmd'[x].pc \in Supervising \cup Ended
      BY <1>3 DEF Supervising
    <3> QED BY <1>7, <2>1, <3>1 DEF Knows, WaitsForSupervisor, At
  <2>6. Unrecorded(q)'
    BY <1>2, <1>10, <2>1, <2>2 DEF Knows, Unrecorded, At, Supervising
  <2> QED BY <2>4, <2>5, <2>6 DEF Knows
<1>15. DaemonOnRecord'
  <2>1. daemon'[d].parent \in Runs /\ At(r, "record")'
    BY <1>3, <1>4 DEF At
  <2> QED BY <1>2, <1>4, <1>9, <1>10, <2>1 DEF Inv, DaemonOnRecord
<1>16. EndpointsAreOwn'
  BY <1>2, <1>8, <1>10, EndpointFrame DEF Inv
<1> QED BY <1>5, <1>11, <1>12, <1>13, <1>14, <1>15, <1>16 DEF Inv

-----------------------------------------------------------------------------
(* Kills, and the daemons. *)

LEMMA KillStep ==
  ASSUME Inv, NEW r \in Runs, Alive(r), KillRun(r), UNCHANGED files
  PROVE  Inv'
<1> DEFINE x == IF At(r, "record") THEN cmd[r].of ELSE NoPid
<1>1. /\ cmd' = [cmd EXCEPT ![r] = [kind |-> "none", pc |-> "killed", of |-> x]]
      /\ announced' = [announced EXCEPT ![r] = NoPid]
      /\ UNCHANGED <<daemon, supPid, revPid, endpoint>>
      /\ cmd[r].pc \notin Ended
  BY AliveIs DEF KillRun, Forget, files, Inv, Types
<1>2. x \in Runs \cup Daemons \cup {NoPid}
  BY DEF Inv, Types, Commands
<1> HIDE DEF x
<1>3. /\ cmd' \in [Runs -> Commands] /\ cmd'[r].pc = "killed" /\ cmd'[r].of = x
      /\ \A q \in Runs : q # r => cmd'[q] = cmd[q]
  <2>1. [kind |-> "none", pc |-> "killed", of |-> x] \in Commands
    BY <1>2 DEF Commands, Places, Ended
  <2> QED BY <1>1, <2>1 DEF Inv, Types
<1>4. Types'
  BY <1>1, <1>3 DEF Inv, Types
<1>5. Supervisors' \subseteq Supervisors
  BY <1>3 DEF Supervisors, Supervising
<1>6. \A e : e \in Lost' <=> e \in Lost \/ e = x
  BY <1>1, <1>3 DEF Lost, At, Ended
<1>7. LiveDaemons' = LiveDaemons
  BY <1>1, Pids DEF LiveDaemons, Alive
<1>8. Held' \subseteq Held /\ x \notin Held'
  BY <1>6, <1>7 DEF Held
<1>9. \A d : Born(d) => Born(d)' /\ daemon'[d].parent = daemon[d].parent
  BY <1>1 DEF Born
<1>10. \A q \in Runs : cmd[q].pc \in Supervising \cup Ended
                      => cmd'[q].pc \in Supervising \cup Ended
  BY <1>3 DEF Ended
<1>11. OneCommand'
  BY <1>3 DEF Inv, OneCommand, UnderWay, Starting, Stopping
<1>12. SupervisorOnRecord'
  BY <1>1, <1>5, <1>10 DEF Inv, SupervisorOnRecord
<1>13. Knows(r)'
  <2>1. x # NoPid => Born(x) /\ daemon[x].parent = r /\ revPid # x
    BY DEF x, Inv, Knows, HasChild, Unrecorded, At
  <2> QED BY <1>1, <1>3, <1>9, <2>1
       DEF Knows, NoSupervisor, NoDaemon, WaitsForSupervisor, WaitsForDaemon, HasChild,
           Unrecorded, At
<1>14. \A q \in Runs : q # r => Knows(q)'
  BY <1>1, <1>3, <1>5, <1>8, <1>9, <1>10, KnowsFrame DEF Inv
<1>15. DaemonOnRecord'
  <2>1. ASSUME NEW d \in Held'
        PROVE  (revPid = d \/ (daemon[d].parent \in Runs /\ At(daemon[d].parent, "record")))'
    <3>1. d \in Held
      BY <1>8
    <3>2. CASE revPid = d
      BY <1>1, <3>2
    <3>3. CASE daemon[d].parent \in Runs /\ At(daemon[d].parent, "record")
      <4>1. daemon[d].parent # r
        <5>1. At(r, "record") => d = x
          BY <3>1 DEF x, Inv, Knows, HasChild, At
        <5> QED BY <1>8, <3>3, <5>1
      <4> QED BY <1>1, <1>3, <3>3, <4>1 DEF At
    <3> QED BY <3>1, <3>2, <3>3 DEF Inv, DaemonOnRecord
  <2> QED BY <1>1, <1>9, <2>1 DEF Inv, DaemonOnRecord
<1>16. EndpointsAreOwn'
  <2>1. \A q \in Runs : announced'[q] \in {announced[q], NoPid}
    BY <1>1 DEF Inv, Types
  <2> QED BY <1>1, <1>6, <1>9, <2>1, EndpointFrame DEF Inv
<1> QED BY <1>4, <1>11, <1>12, <1>13, <1>14, <1>15, <1>16 DEF Inv

(* A daemon goes on, or ends: it was alive, so nothing new is. *)
LEMMA DaemonMoves ==
  ASSUME Inv, NEW d \in Daemons, Alive(d),
         NEW st \in {"bound", "serving", "clean", "unclean"},
         daemon' = [daemon EXCEPT ![d].st = st],
         UNCHANGED <<cmd, supPid, revPid, announced>>,
         endpoint' \in [of : Daemons \cup {NoPid}, newer : SUBSET Runs],
         endpoint' # endpoint =>
           \A r \in endpoint'.newer : OwnOrLost(r, endpoint'.of)
  PROVE  Inv'
<1>1. /\ daemon'[d].st = st /\ daemon'[d].parent = daemon[d].parent
      /\ \A e \in Daemons : e # d => daemon'[e] = daemon[e]
  BY DEF Inv, Types
<1>2. daemon[d].st \in {"booting", "bound", "serving"}
  BY AliveIs
<1>3. Types'
  <2>1. [daemon[d] EXCEPT !.st = st]
          \in [st : {"unborn", "booting", "bound", "serving", "clean", "unclean"},
              parent : Runs \cup {NoPid}]
    BY DEF Inv, Types
  <2> QED BY <2>1 DEF Inv, Types
<1>4. UNCHANGED <<Lost, Supervisors, UnderWay>>
  BY DEF Lost, At, Supervisors, UnderWay
<1>5. Held' \subseteq Held
  <2>1. LiveDaemons' \subseteq LiveDaemons
    BY <1>1, <1>2, Pids DEF LiveDaemons, Alive
  <2> QED BY <1>4, <2>1 DEF Held
<1>6. \A e : Born(e) => Born(e)' /\ daemon'[e].parent = daemon[e].parent
  BY <1>1 DEF Born
<1>7. OneCommand' /\ SupervisorOnRecord'
  BY <1>4 DEF Inv, OneCommand, SupervisorOnRecord
<1>8. \A q \in Runs : Knows(q)'
  BY <1>4, <1>5, <1>6, KnowsFrame DEF Inv
<1>9. DaemonOnRecord'
  <2>1. \A e \in Held' : e \in Daemons
    BY DEF Held, LiveDaemons
  <2>2. \A e \in Daemons : daemon'[e].parent = daemon[e].parent
    BY <1>1
  <2> QED BY <1>5, <1>6, <2>1, <2>2 DEF Inv, DaemonOnRecord, At
<1>10. EndpointsAreOwn'
  <2>1. \A r, e : OwnOrLost(r, e) => OwnOrLost(r, e)'
    BY <1>4, <1>6 DEF OwnOrLost
  <2>2. \A r \in endpoint'.newer : OwnOrLost(r, endpoint'.of)
    BY DEF Inv, EndpointsAreOwn
  <2> QED BY <2>1, <2>2 DEF Inv, EndpointsAreOwn
<1> QED BY <1>3, <1>7, <1>8, <1>9, <1>10 DEF Inv

LEMMA TimeoutKillStep ==
  ASSUME Inv, NEW r \in Runs, TimeoutKill(r)
  PROVE  Inv'
<1>1. Alive(cmd[r].of) /\ UNCHANGED files
  BY DEF TimeoutKill
<1>2. CASE cmd[r].pc \in {"waitOrphan", "waitRev"} /\ KillDaemon(cmd[r].of)
  <2>1. cmd[r].of \in Daemons
    BY <1>2 DEF Inv, Knows, WaitsForDaemon
  <2>2. daemon' = [daemon EXCEPT ![cmd[r].of].st = "unclean"]
    BY <1>2 DEF KillDaemon
  <2>3. UNCHANGED <<cmd, supPid, revPid, announced, endpoint>>
    BY <1>1, <1>2 DEF KillDaemon, files
  <2>4. endpoint' \in [of : Daemons \cup {NoPid}, newer : SUBSET Runs]
    BY <2>3 DEF Inv, Types
  <2> QED BY <1>1, <2>1, <2>2, <2>3, <2>4, DaemonMoves
<1>3. CASE At(r, "waitSup") /\ KillRun(cmd[r].of)
  <2>1. cmd[r].of \in Runs
    BY <1>3 DEF Inv, Knows, WaitsForSupervisor
  <2> QED BY <1>1, <1>3, <2>1, KillStep
<1> QED BY <1>2, <1>3 DEF TimeoutKill

LEMMA KillChildStep ==
  ASSUME Inv, NEW r \in Runs, KillChild(r)
  PROVE  Inv'
<1>1. Alive(cmd[r].of) /\ cmd[r].pc = "stopping" /\ UNCHANGED files
  BY DEF KillChild, At
<1>2. cmd[r].of \in Daemons
  BY <1>1 DEF Inv, Knows, HasChild, Born
<1>3. daemon' = [daemon EXCEPT ![cmd[r].of].st = "unclean"]
  BY DEF KillChild, KillDaemon
<1>4. UNCHANGED <<cmd, supPid, revPid, announced, endpoint>>
  BY DEF KillChild, KillDaemon, files
<1>5. endpoint' \in [of : Daemons \cup {NoPid}, newer : SUBSET Runs]
  BY <1>4 DEF Inv, Types
<1> QED BY <1>1, <1>2, <1>3, <1>4, <1>5, DaemonMoves

(* Whoever supervises when a daemon writes its endpoint is its parent. *)
LEMMA DaemonStep ==
  ASSUME Inv, NEW d \in Daemons, Bind(d) \/ WriteEndpoint(d) \/ Exits(d)
  PROVE  Inv'
<1>1. Alive(d)
  BY AliveIs DEF Bind, WriteEndpoint, Exits
<1>2. CASE Bind(d) \/ Exits(d)
  <2>1. PICK st \in {"bound", "clean", "unclean"} : daemon' = [daemon EXCEPT ![d].st = st]
    <3>1. CASE Bind(d)
      BY <3>1 DEF Bind
    <3>2. CASE Exits(d)
      <4>1. PICK how \in {"unclean"} \cup IF daemon[d].st = "serving" THEN {"clean"} ELSE {} :
              daemon' = [daemon EXCEPT ![d].st = how]
        BY <3>2 DEF Exits
      <4>2. how \in {"clean", "unclean"}
        OBVIOUS
      <4> QED BY <4>1, <4>2
    <3> QED BY <1>2, <3>1, <3>2
  <2>2. UNCHANGED <<cmd, supPid, revPid, announced, endpoint>>
    BY <1>2 DEF Bind, Exits, files
  <2>3. endpoint' \in [of : Daemons \cup {NoPid}, newer : SUBSET Runs]
    BY <2>2 DEF Inv, Types
  <2> QED BY <1>1, <2>1, <2>2, <2>3, DaemonMoves
<1>3. CASE WriteEndpoint(d)
  <2>1. /\ daemon' = [daemon EXCEPT ![d].st = "serving"]
        /\ endpoint' = [of |-> d, newer |-> {r \in Runs : cmd[r].pc \in Supervising}]
        /\ UNCHANGED <<cmd, supPid, revPid, announced>>
    BY <1>3 DEF WriteEndpoint
  <2>2. ASSUME NEW r \in Runs, cmd[r].pc \in Supervising PROVE OwnOrLost(r, d)
    <3>1. Born(d)
      BY <1>1, AliveIs DEF Born
    <3>2. d \in Held \/ d \in Lost
      BY <1>1 DEF Held, LiveDaemons
    <3>3. d \in Held => daemon[d].parent = r
      BY <2>2 DEF Inv, Knows, NoDaemon, HasChild, Supervising
    <3> QED BY <3>1, <3>2, <3>3 DEF OwnOrLost
  <2>3. endpoint' \in [of : Daemons \cup {NoPid}, newer : SUBSET Runs]
    BY <2>1
  <2>4. \A r \in endpoint'.newer : OwnOrLost(r, endpoint'.of)
    BY <2>1, <2>2
  <2> QED BY <1>1, <2>1, <2>3, <2>4, DaemonMoves
<1> QED BY <1>2, <1>3

LEMMA StillStep ==
  ASSUME Inv, UNCHANGED <<cmd, daemon, files, announced>>
  PROVE  Inv'
<1>1. /\ Lost' = Lost /\ Supervisors' = Supervisors /\ UnderWay' = UnderWay
      /\ Held' = Held
  BY DEF Lost, At, Supervisors, UnderWay, Held, LiveDaemons, Alive
<1>2. \A e : Born(e)' <=> Born(e)
  BY DEF Born
<1>3. Types' /\ OneCommand' /\ SupervisorOnRecord'
  BY <1>1 DEF Inv, Types, OneCommand, SupervisorOnRecord, files
<1>4. \A q \in Runs : Knows(q)'
  BY <1>1, <1>2, KnowsFrame DEF Inv, files
<1>5. DaemonOnRecord' /\ EndpointsAreOwn'
  BY <1>1, <1>2 DEF Inv, DaemonOnRecord, EndpointsAreOwn, OwnOrLost, At, files
<1> QED BY <1>3, <1>4, <1>5 DEF Inv

LEMMA AnnounceStep ==
  ASSUME Inv, NEW r \in Runs, Announce(r)
  PROVE  Inv'
<1>1. /\ UNCHANGED <<cmd, daemon, supPid, revPid, endpoint>>
      /\ announced' = [announced EXCEPT ![r] = endpoint.of]
      /\ OwnOrLost(r, endpoint.of)
  BY DEF Announce, FreshFor, files, Inv, EndpointsAreOwn
<1>2. Lost' = Lost /\ Supervisors' = Supervisors /\ UnderWay' = UnderWay /\ Held' = Held
  BY <1>1 DEF Lost, At, Supervisors, UnderWay, Held, LiveDaemons, Alive
<1>3. \A e : Born(e)' <=> Born(e)
  BY <1>1 DEF Born
<1>4. Types' /\ OneCommand' /\ SupervisorOnRecord'
  BY <1>1, <1>2 DEF Inv, Types, OneCommand, SupervisorOnRecord
<1>5. \A q \in Runs : Knows(q)'
  BY <1>1, <1>2, <1>3, KnowsFrame DEF Inv
<1>6. DaemonOnRecord'
  BY <1>1, <1>2, <1>3 DEF Inv, DaemonOnRecord, At
<1>7. EndpointsAreOwn'
  <2>1. \A q, e : OwnOrLost(q, e)' <=> OwnOrLost(q, e)
    BY <1>1, <1>2, <1>3 DEF OwnOrLost
  <2> QED BY <1>1, <2>1 DEF Inv, Types, EndpointsAreOwn
<1> QED BY <1>4, <1>5, <1>6, <1>7 DEF Inv

-----------------------------------------------------------------------------
(* The theorems. *)

LEMMA InitInv == Init => Inv
<1> SUFFICES ASSUME Init PROVE Inv
  OBVIOUS
<1>1. \A r \in Runs : cmd[r].pc = "idle" /\ cmd[r].of = NoPid /\ announced[r] = NoPid
  BY DEF Init
<1>2. \A d \in Daemons : daemon[d].st = "unborn"
  BY DEF Init
<1>3. Held = {}
  BY <1>2, HeldIs
<1>4. Supervisors = {} /\ UnderWay = {}
  BY <1>1 DEF Supervisors, UnderWay, Supervising, Starting, Stopping
<1>5. Types
  BY DEF Init, Types, Commands, Places, NoEndpoint
<1>6. \A r \in Runs : Knows(r)
  BY <1>1 DEF Knows, NoSupervisor, NoDaemon, WaitsForSupervisor, WaitsForDaemon, HasChild,
              Unrecorded, At
<1>7. EndpointsAreOwn
  BY <1>1 DEF Init, EndpointsAreOwn, NoEndpoint
<1> QED BY <1>3, <1>4, <1>5, <1>6, <1>7, Pids
        DEF Init, Inv, OneCommand, SupervisorOnRecord, DaemonOnRecord

LEMMA NextInv ==
  ASSUME Inv, Next, OneCommand', WritesTaken
  PROVE  Inv'
<1>1. ASSUME NEW r \in Runs, Command(r) PROVE Inv'
  BY <1>1, ResolveStep, ResolveOrphanStep, DaemonGoneStep, RemoveEndpointStep, RecordSelfStep,
     ReadPidsStep, SupervisorGoneStep, ReadReviewStep, RemovedStep, TimeoutKillStep
     DEF Command
<1>2. ASSUME NEW r \in Runs, Supervise(r) PROVE Inv'
  BY <1>2, SpawnStep, RecordChildStep, ChildGoneStep, CancelledStep, KillChildStep, LeaveStep
     DEF Supervise
<1>3. ASSUME NEW r \in Runs, RunKilled(r) PROVE Inv'
  BY <1>3, KillStep DEF RunKilled
<1>4. ASSUME NEW r \in Runs, Interrupt(r) PROVE Inv'
  BY <1>4, StillStep DEF Interrupt
<1>5. CASE Tick
  BY <1>5, StillStep DEF Tick
<1> QED
  BY <1>1, <1>2, <1>3, <1>4, <1>5, DispatchStep, AnnounceStep, DaemonStep DEF Next

LEMMA Inductive == Undisturbed => []Inv
<1>1. Inv /\ OneCommand' /\ [WritesTaken]_vars /\ [Next]_vars => Inv'
  BY NextInv, StillStep DEF vars
<1> QED BY InitInv, <1>1, PTL DEF Undisturbed, Spec

(* Undisturbed, a start announces the endpoint of its own daemon, although the endpoint
   file of an earlier install may have stayed (start.rs). *)
THEOREM AnnouncementIsOwn == Undisturbed => []AnnouncedIsOwn
<1>1. Inv => AnnouncedIsOwn
  BY DEF Inv, EndpointsAreOwn, OwnOrLost, AnnouncedIsOwn
<1> QED BY <1>1, Inductive, PTL

(* Only the removal of the files ends a stop. *)
LEMMA StopEndsSo ==
  ASSUME Inv, Next, NEW r \in Runs,
         cmd[r].pc \in {"removeFiles", "wipe"}, cmd'[r].pc \in {"done", "resolve"}
  PROVE  RemoveFiles(r) \/ Wipe(r)
<1>1. cmd'[r] # cmd[r]
  OBVIOUS
<1>2. cmd \in [Runs -> Commands]
  BY DEF Inv, Types
<1>3. ASSUME NEW q \in Runs, Dispatch(q) \/ Command(q) \/ Supervise(q), ~TimeoutKill(q)
      PROVE  q = r
  <2>1. \/ UNCHANGED cmd
        \/ \E c : cmd' = [cmd EXCEPT ![q] = c]
    BY <1>3 DEF Dispatch, Command, Supervise, Resolve, ResolveOrphan, OrphanGone,
         RemoveEndpoint, RecordSelf, ReadPids, SupervisorGone, ReadReview, ReviewGone,
         RemoveFiles, Wipe, Spawn, SpawnFailed, RecordChild, CleanExit, BudgetExhausted,
         UncleanExit, BackoffOver, Cancelled, KillChild, KillDaemon, StoppedChild, Leave,
         Go, Deal
  <2> QED BY <1>1, <1>2, <2>1
<1>4. ASSUME NEW q \in Runs, TimeoutKill(q) \/ RunKilled(q) PROVE FALSE
  <2>1. \/ UNCHANGED cmd
        \/ \E p, x : cmd' = [cmd EXCEPT ![p] = [kind |-> "none", pc |-> "killed", of |-> x]]
    BY <1>4 DEF TimeoutKill, RunKilled, KillDaemon, KillRun
  <2> QED BY <1>1, <1>2, <2>1
<1>5. ASSUME \/ \E q \in Runs : Announce(q) \/ Interrupt(q)
             \/ \E d \in Daemons : Bind(d) \/ WriteEndpoint(d) \/ Exits(d)
             \/ Tick
      PROVE  FALSE
  BY <1>1, <1>5 DEF Announce, Interrupt, Bind, WriteEndpoint, Exits, Tick
<1>6. Dispatch(r) \/ Command(r) \/ Supervise(r)
  BY <1>3, <1>4, <1>5 DEF Next, Command
<1> QED
  BY <1>4, <1>6 DEF Dispatch, Command, Supervise, Resolve, ResolveOrphan, OrphanGone,
       RemoveEndpoint, RecordSelf, ReadPids, SupervisorGone, ReadReview, ReviewGone,
       Spawn, SpawnFailed, RecordChild, CleanExit, BudgetExhausted, UncleanExit,
       BackoffOver, Cancelled, KillChild, StoppedChild, Leave, At

(* Undisturbed, a stop that has ended leaves no supervisor, and no daemon but
   those that no file names, whoever was killed on the way (stop.rs). *)
THEOREM StopsStop == Undisturbed => StopStops
<1> DEFINE Stopped(r) == (cmd[r].pc \in {"removeFiles", "wipe"} /\ cmd'[r].pc \in {"done", "resolve"})
                           => Supervisors' = {} /\ LiveDaemons' \subseteq Lost'
<1>1. ASSUME Inv, Next, NEW r \in Runs,
             cmd[r].pc \in {"removeFiles", "wipe"}, cmd'[r].pc \in {"done", "resolve"}
      PROVE  Supervisors' = {} /\ LiveDaemons' \subseteq Lost'
  <2>1. RemoveFiles(r) \/ Wipe(r)
    BY <1>1, StopEndsSo
  <2>2. Supervisors = {} /\ Held = {}
    BY <1>1 DEF Inv, Knows, NoSupervisor, NoDaemon
  <2>3. PICK p : Go(r, p)
    BY <2>1 DEF RemoveFiles, Wipe
  <2>4. Walk(r)
    BY <1>1, <2>1, <2>3 DEF Walk, RemoveFiles, Wipe, Go, Ended, Supervising, Inv, Types
  <2>5. Held' = {}
    BY <1>1, <2>2, <2>4, WalkFrame DEF Inv
  <2>6. \A q \in Runs : q \notin Supervisors'
    BY <1>1, <2>2, <2>4, WalkFrame DEF Inv, Supervisors, Supervising
  <2> QED BY <2>5, <2>6 DEF Held, Supervisors
<1>2. Inv /\ [Next]_vars => [\A r \in Runs : Stopped(r)]_vars
  BY <1>1
<1>3. Undisturbed => [][\A r \in Runs : Stopped(r)]_vars
  BY <1>2, Inductive, PTL DEF Undisturbed, Spec
<1> QED BY <1>3 DEF StopStops
-----------------------------------------------------------------------------
(* Who owns a daemon, whatever commands overlap and whatever pid file could
   not be written.  The inductive invariant says what each run deals with at
   each place, and that a daemon that is alive has its place with one. *)

WithChild == {"record", "waiting", "stopping"}

Placed(r) ==
  /\ cmd[r].pc \in {"waitOrphan", "waitRev"} => cmd[r].of \in Daemons
  /\ At(r, "waitSup") => cmd[r].of \in Runs
  /\ cmd[r].pc \in WithChild => Born(cmd[r].of) /\ daemon[cmd[r].of].parent = r

Owned(d) ==
  daemon[d].st \in {"booting", "bound", "serving"} =>
    /\ daemon[d].parent \in Runs
    /\ ChildOf(daemon[d].parent, d) \/ At(daemon[d].parent, "killed")

OneEach ==
  \A d, e \in LiveDaemons : daemon[d].parent = daemon[e].parent => d = e

OwnTypes ==
  /\ cmd \in [Runs -> Commands]
  /\ daemon \in [Daemons -> [st : {"unborn", "booting", "bound", "serving", "clean", "unclean"},
                             parent : Runs \cup {NoPid}]]
  /\ supPid \in Runs \cup {NoPid} /\ revPid \in Daemons \cup {NoPid}

OwnInv ==
  /\ OwnTypes
  /\ \A r \in Runs : Placed(r)
  /\ \A d \in Daemons : Owned(d)
  /\ OneEach

LEMMA LiveDaemonsAre ==
  \A d : d \in LiveDaemons <=> d \in Daemons /\ daemon[d].st \in {"booting", "bound", "serving"}
BY AliveIs DEF LiveDaemons

(* A step of one run that spawns and signals nothing: it keeps its child, or
   the child has ended, or a kill takes the run from it. *)
Moves(r) ==
  /\ UNCHANGED daemon
  /\ cmd' \in [Runs -> Commands]
  /\ \A q \in Runs : q # r => cmd'[q] = cmd[q]
  /\ supPid' \in Runs \cup {NoPid} /\ revPid' \in Daemons \cup {NoPid}
  /\ cmd[r].pc # "killed"
  /\ cmd[r].pc \in WithChild /\ Alive(cmd[r].of) =>
       \/ cmd'[r].pc = "killed"
       \/ cmd'[r].pc \in WithChild /\ cmd'[r].of = cmd[r].of

LEMMA MovesKeep ==
  ASSUME OwnInv, NEW r \in Runs, Moves(r), Placed(r)'
  PROVE  OwnInv'
<1>1. OwnTypes'
  BY DEF OwnInv, OwnTypes, Moves
<1>2. ASSUME NEW q \in Runs PROVE Placed(q)'
  BY DEF OwnInv, Placed, Moves, At, Born
<1>3. ASSUME NEW d \in Daemons PROVE Owned(d)'
  <2>1. Owned(d) /\ (Alive(d) <=> daemon[d].st \in {"booting", "bound", "serving"})
    BY AliveIs DEF OwnInv
  <2> QED BY <2>1 DEF Owned, Moves, ChildOf, At, WithChild
<1>4. OneEach'
  <2>1. \A d : d \in LiveDaemons' <=> d \in LiveDaemons
    BY Pids DEF LiveDaemons, Alive, Moves
  <2> QED BY <2>1 DEF OwnInv, OneEach, Moves
<1> QED BY <1>1, <1>2, <1>3, <1>4 DEF OwnInv

(* A daemon that is alive goes on, or ends. *)
LEMMA ProgressKeeps ==
  ASSUME OwnInv, NEW d \in Daemons, Alive(d),
         NEW st \in {"bound", "serving", "clean", "unclean"},
         daemon' = [daemon EXCEPT ![d].st = st],
         UNCHANGED <<cmd, supPid, revPid>>
  PROVE  OwnInv'
<1>1. /\ daemon'[d].st = st /\ daemon'[d].parent = daemon[d].parent
      /\ daemon[d].st \in {"booting", "bound", "serving"}
      /\ \A e \in Daemons : e # d => daemon'[e] = daemon[e]
  BY AliveIs DEF OwnInv, OwnTypes
<1>2. OwnTypes'
  <2>1. [daemon[d] EXCEPT !.st = st]
          \in [st : {"unborn", "booting", "bound", "serving", "clean", "unclean"},
               parent : Runs \cup {NoPid}]
    BY DEF OwnInv, OwnTypes
  <2> QED BY <2>1 DEF OwnInv, OwnTypes
<1>3. \A e \in Daemons : daemon'[e].parent = daemon[e].parent
  BY <1>1
<1>4. \A q \in Runs : Placed(q)'
  BY <1>1, <1>3 DEF OwnInv, Placed, At, Born
<1>5. \A e \in Daemons : Owned(e)'
  BY <1>1 DEF OwnInv, Owned, ChildOf, At
<1>6. \A e \in LiveDaemons' : e \in LiveDaemons /\ e \in Daemons
  <2>1. \A e : e \in LiveDaemons' =>
          e \in Daemons /\ daemon'[e].st \in {"booting", "bound", "serving"}
    BY Pids DEF LiveDaemons, Alive
  <2> QED BY <1>1, <2>1, LiveDaemonsAre
<1>7. OneEach'
  BY <1>3, <1>6 DEF OwnInv, OneEach
<1> QED BY <1>2, <1>4, <1>5, <1>7 DEF OwnInv

LEMMA KilledKeeps ==
  ASSUME OwnInv, NEW r \in Runs, Alive(r), KillRun(r), UNCHANGED files
  PROVE  OwnInv'
<1> DEFINE x == IF At(r, "record") THEN cmd[r].of ELSE NoPid
<1>1. /\ cmd' = [cmd EXCEPT ![r] = [kind |-> "none", pc |-> "killed", of |-> x]]
      /\ UNCHANGED <<daemon, supPid, revPid>>
      /\ cmd[r].pc \notin Ended
  BY AliveIs DEF KillRun, files, OwnInv, OwnTypes
<1>2. x \in Runs \cup Daemons \cup {NoPid}
  BY DEF OwnInv, OwnTypes, Commands
<1> HIDE DEF x
<1>3. [kind |-> "none", pc |-> "killed", of |-> x] \in Commands
  BY <1>2 DEF Commands, Places, Ended
<1>4. cmd'[r].pc = "killed"
  BY <1>1 DEF OwnInv, OwnTypes
<1>5. Moves(r)
  BY <1>1, <1>3, <1>4 DEF Moves, OwnInv, OwnTypes, Ended
<1>6. Placed(r)'
  BY <1>4 DEF Placed, At, WithChild
<1> QED BY <1>5, <1>6, MovesKeep

(* Commands: what is waited for was read from a pid file. *)
LEMMA CommandOwns ==
  ASSUME OwnInv, NEW r \in Runs, Dispatch(r) \/ Command(r)
  PROVE  OwnInv'
<1>1. /\ OwnTypes /\ Placed(r)
      /\ cmd \in [Runs -> Commands]
      /\ supPid \in Runs \cup {NoPid} /\ revPid \in Daemons \cup {NoPid}
  BY DEF OwnInv, OwnTypes
<1>2. CASE Dispatch(r)
  <2>1. PICK k \in {"start", "stop", "restart", "uninstall"} :
          cmd' = [cmd EXCEPT ![r] =
                   [kind |-> k, pc |-> IF k = "start" THEN "resolve" ELSE "readPids", of |-> NoPid]]
    BY <1>2 DEF Dispatch
  <2>2. [kind |-> k, pc |-> IF k = "start" THEN "resolve" ELSE "readPids", of |-> NoPid]
          \in Commands
    BY DEF Commands, Places, Starting, Stopping
  <2>3. /\ cmd' \in [Runs -> Commands] /\ cmd'[r].pc \in {"resolve", "readPids"}
        /\ \A q \in Runs : q # r => cmd'[q] = cmd[q]
    BY <1>1, <2>1, <2>2
  <2>4. Placed(r)'
    BY <2>3 DEF Placed, At, WithChild
  <2>5. Moves(r)
    BY <1>1, <1>2, <2>3 DEF Moves, Dispatch, files, At, WithChild
  <2> QED BY <2>4, <2>5, MovesKeep
<1>3. CASE TimeoutKill(r)
  <2>1. CASE cmd[r].pc \in {"waitOrphan", "waitRev"} /\ KillDaemon(cmd[r].of)
    <3>1. cmd[r].of \in Daemons
      BY <1>1, <2>1 DEF Placed
    <3>2. Alive(cmd[r].of) /\ UNCHANGED <<cmd, supPid, revPid>>
          /\ daemon' = [daemon EXCEPT ![cmd[r].of].st = "unclean"]
      BY <1>3, <2>1 DEF TimeoutKill, KillDaemon, files
    <3> QED BY <3>1, <3>2, ProgressKeeps
  <2>2. CASE At(r, "waitSup") /\ KillRun(cmd[r].of)
    BY <1>1, <1>3, <2>2, KilledKeeps DEF TimeoutKill, Placed
  <2> QED BY <1>3, <2>1, <2>2 DEF TimeoutKill
<1>4. ASSUME NEW p \in Places \ ({"waitOrphan", "waitRev", "waitSup"} \cup WithChild),
             Go(r, p) \/ Deal(r, p, NoPid),
             UNCHANGED daemon, cmd[r].pc \notin {"killed"} \cup WithChild,
             supPid' \in Runs \cup {NoPid}, revPid' \in Daemons \cup {NoPid}
      PROVE  OwnInv'
  <2>1. /\ cmd' \in [Runs -> Commands] /\ cmd'[r].pc = p
        /\ \A q \in Runs : q # r => cmd'[q] = cmd[q]
    BY <1>1, <1>4, GoTo, DealTo
  <2>2. Placed(r)' /\ Moves(r)
    BY <1>1, <1>4, <2>1 DEF Placed, Moves, At
  <2> QED BY <2>2, MovesKeep
<1>5. ASSUME NEW p \in {"waitOrphan", "waitRev", "waitSup"}, NEW x,
             Deal(r, p, x), p = "waitSup" => x \in Runs, p # "waitSup" => x \in Daemons,
             UNCHANGED daemon, cmd[r].pc \notin {"killed"} \cup WithChild,
             supPid' \in Runs \cup {NoPid}, revPid' \in Daemons \cup {NoPid}
      PROVE  OwnInv'
  <2>1. /\ cmd' \in [Runs -> Commands] /\ cmd'[r].pc = p /\ cmd'[r].of = x
        /\ \A q \in Runs : q # r => cmd'[q] = cmd[q]
    BY <1>1, <1>5, DealTo DEF Places, Starting, Stopping
  <2>2. Placed(r)' /\ Moves(r)
    BY <1>1, <1>5, <2>1 DEF Placed, Moves, At, WithChild
  <2> QED BY <2>2, MovesKeep
<1>6. LivePid(revPid) # NoPid => revPid \in Daemons
  BY <1>1, AliveIs
<1>7. LivePid(supPid) # NoPid => LivePid(supPid) \in Runs
  BY <1>1, AliveIs
<1>8. CASE Resolve(r)
  BY <1>1, <1>4, <1>8 DEF Resolve, At, Places, Starting, Ended, WithChild
<1>9. CASE ResolveOrphan(r)
  BY <1>1, <1>4, <1>5, <1>6, <1>9 DEF ResolveOrphan, At, Places, Starting, WithChild
<1>10. CASE OrphanGone(r) \/ RemoveEndpoint(r)
  BY <1>1, <1>4, <1>10 DEF OrphanGone, RemoveEndpoint, At, Places, Starting, WithChild
<1>11. CASE RecordSelf(r)
  <2>1. supPid' \in Runs \cup {NoPid}
    BY <1>1, <1>11 DEF RecordSelf, Written
  <2> QED BY <1>1, <1>4, <1>11, <2>1 DEF RecordSelf, At, Places, Supervising, WithChild
<1>12. CASE ReadPids(r)
  <2>1. CASE LivePid(supPid) # NoPid
    <3>1. Deal(r, "waitSup", LivePid(supPid)) /\ UNCHANGED <<daemon, supPid, revPid>>
          /\ cmd[r].pc = "readPids"
      BY <1>12, <2>1 DEF ReadPids, files, At
    <3> QED BY <1>1, <1>5, <1>7, <2>1, <3>1 DEF WithChild
  <2>2. CASE LivePid(supPid) = NoPid
    <3>1. /\ Go(r, "readRev") \/ Go(r, "removeFiles")
          /\ UNCHANGED <<daemon, supPid, revPid>> /\ cmd[r].pc = "readPids"
      BY <1>12, <2>2 DEF ReadPids, files, At
    <3> QED BY <1>1, <1>4, <3>1 DEF Places, Stopping, WithChild
  <2> QED BY <2>1, <2>2
<1>13. CASE SupervisorGone(r) \/ ReviewGone(r)
  BY <1>1, <1>4, <1>13 DEF SupervisorGone, ReviewGone, files, At, Places, Stopping, WithChild
<1>14. CASE ReadReview(r)
  BY <1>1, <1>4, <1>5, <1>6, <1>14, AliveIs
     DEF ReadReview, files, At, Places, Stopping, WithChild
<1>15. CASE RemoveFiles(r)
  <2>1. AfterStop(r) \in {"resolve", "wipe", "done"}
    BY DEF AfterStop
  <2> QED BY <1>1, <1>4, <1>15, <2>1
          DEF RemoveFiles, At, Places, Starting, Stopping, Ended, WithChild
<1>16. CASE Wipe(r)
  BY <1>1, <1>4, <1>16 DEF Wipe, At, Places, Ended, WithChild
<1> QED BY <1>2, <1>3, <1>8, <1>9, <1>10, <1>11, <1>12, <1>13, <1>14, <1>15, <1>16 DEF Command

(* Supervisors: a child is let go only when it has ended. *)
LEMMA SupervisorOwns ==
  ASSUME OwnInv, NEW r \in Runs, Supervise(r)
  PROVE  OwnInv'
<1>1. /\ OwnTypes /\ Placed(r)
      /\ cmd \in [Runs -> Commands]
      /\ supPid \in Runs \cup {NoPid} /\ revPid \in Daemons \cup {NoPid}
      /\ NoPid \in Runs \cup Daemons \cup {NoPid}
  BY DEF OwnInv, OwnTypes
<1>2. CASE Spawn(r)
  <2>1. PICK d \in Daemons : /\ daemon[d].st = "unborn"
                             /\ daemon' = [daemon EXCEPT ![d] = [st |-> "booting", parent |-> r]]
                             /\ Deal(r, "record", d)
    BY <1>2 DEF Spawn
  <2>2. cmd[r].pc = "spawn" /\ UNCHANGED <<supPid, revPid>>
    BY <1>2 DEF Spawn, At, files
  <2>3. /\ cmd' \in [Runs -> Commands] /\ cmd'[r].pc = "record" /\ cmd'[r].of = d
        /\ \A q \in Runs : q # r => cmd'[q] = cmd[q]
    BY <1>1, <2>1, DealTo DEF Places, Supervising
  <2>4. /\ daemon'[d].st = "booting" /\ daemon'[d].parent = r
        /\ \A e \in Daemons : e # d => daemon'[e] = daemon[e]
    BY <1>1, <2>1 DEF OwnTypes
  <2>5. OwnTypes'
    BY <1>1, <2>1, <2>2, <2>3 DEF OwnTypes
  <2>6. ASSUME NEW q \in Runs PROVE Placed(q)'
    <3>1. CASE q = r
      BY <2>3, <2>4, <3>1 DEF Placed, At, WithChild, Born
    <3>2. CASE q # r
      <4>1. Placed(q) /\ cmd'[q] = cmd[q]
        BY <2>3, <3>2 DEF OwnInv
      <4> QED BY <2>1, <2>4, <4>1 DEF Placed, At, Born
    <3> QED BY <3>1, <3>2
  <2>7. ASSUME NEW e \in Daemons, e # d, daemon[e].st \in {"booting", "bound", "serving"}
        PROVE  daemon[e].parent # r
    BY <2>2, <2>7 DEF OwnInv, Owned, ChildOf, At
  <2>8. ASSUME NEW e \in Daemons PROVE Owned(e)'
    <3>1. CASE e = d
      BY <2>3, <2>4, <3>1 DEF Owned, ChildOf
    <3>2. CASE e # d
      <4>1. Owned(e) /\ daemon'[e] = daemon[e]
        BY <2>4, <3>2 DEF OwnInv
      <4> QED BY <2>3, <2>7, <3>2, <4>1 DEF Owned, ChildOf, At
    <3> QED BY <3>1, <3>2
  <2>9. OneEach'
    <3>1. \A e \in LiveDaemons' : e \in Daemons /\ (e # d => e \in LiveDaemons)
      <4>1. \A e : e \in LiveDaemons' =>
              e \in Daemons /\ daemon'[e].st \in {"booting", "bound", "serving"}
        BY Pids DEF LiveDaemons, Alive
      <4> QED BY <2>4, <4>1, LiveDaemonsAre
    <3>2. \A e \in LiveDaemons' : e # d => daemon'[e].parent # r
      BY <2>4, <2>7, <3>1, LiveDaemonsAre
    <3> QED BY <2>4, <3>1, <3>2 DEF OwnInv, OneEach
  <2> QED BY <2>5, <2>6, <2>8, <2>9 DEF OwnInv
<1>3. CASE KillChild(r)
  <2>1. cmd[r].of \in Daemons /\ Alive(cmd[r].of)
        /\ daemon' = [daemon EXCEPT ![cmd[r].of].st = "unclean"]
        /\ UNCHANGED <<cmd, supPid, revPid>>
    BY <1>1, <1>3 DEF KillChild, KillDaemon, files, Placed, WithChild, At, Born
  <2> QED BY <2>1, ProgressKeeps
<1>4. ASSUME NEW p \in {"spawn", "backoff", "leave"}, Go(r, p), UNCHANGED daemon,
             cmd[r].pc # "killed", cmd[r].pc \in WithChild => ~Alive(cmd[r].of),
             supPid' \in Runs \cup {NoPid}, revPid' \in Daemons \cup {NoPid}
      PROVE  OwnInv'
  <2>1. /\ cmd' \in [Runs -> Commands] /\ cmd'[r].pc = p
        /\ \A q \in Runs : q # r => cmd'[q] = cmd[q]
    BY <1>1, <1>4, GoTo DEF Places, Supervising
  <2>2. Placed(r)' /\ Moves(r)
    BY <1>1, <1>4, <2>1 DEF Placed, Moves, At, WithChild
  <2> QED BY <2>2, MovesKeep
<1>5. ASSUME NEW p \in {"waiting", "stopping"}, Go(r, p), UNCHANGED daemon,
             cmd[r].pc \in WithChild,
             supPid' \in Runs \cup {NoPid}, revPid' \in Daemons \cup {NoPid}
      PROVE  OwnInv'
  <2>1. /\ cmd' \in [Runs -> Commands] /\ cmd'[r].pc = p /\ cmd'[r].of = cmd[r].of
        /\ \A q \in Runs : q # r => cmd'[q] = cmd[q]
    BY <1>1, <1>5, GoTo DEF Places, Supervising
  <2>2. Placed(r)' /\ Moves(r)
    BY <1>1, <1>5, <2>1 DEF Placed, Moves, At, WithChild, Born
  <2> QED BY <2>2, MovesKeep
<1>6. CASE SpawnFailed(r) \/ BackoffOver(r)
  BY <1>1, <1>4, <1>6 DEF SpawnFailed, BackoffOver, files, At, WithChild
<1>7. CASE CleanExit(r) \/ BudgetExhausted(r) \/ UncleanExit(r)
  <2>1. cmd[r].pc = "waiting" /\ cmd[r].of \in Daemons
        /\ daemon[cmd[r].of].st \in {"clean", "unclean"}
    BY <1>1, <1>7
       DEF CleanExit, BudgetExhausted, UncleanExit, At, ChildIs, Placed, WithChild, Born
  <2>2. ~Alive(cmd[r].of)
    BY <2>1, AliveIs
  <2> QED BY <1>1, <1>4, <1>7, <2>1, <2>2 DEF CleanExit, BudgetExhausted, UncleanExit
<1>8. CASE StoppedChild(r)
  BY <1>1, <1>4, <1>8 DEF StoppedChild, At
<1>9. CASE Cancelled(r)
  BY <1>1, <1>5, <1>9 DEF Cancelled, files, At, WithChild
<1>10. CASE RecordChild(r)
  <2>1. cmd[r].pc = "record" /\ cmd[r].of \in Daemons
    BY <1>1, <1>10 DEF RecordChild, At, Placed, WithChild, Born
  <2>2. revPid' \in Daemons \cup {NoPid}
    BY <1>1, <1>10, <2>1 DEF RecordChild, Written
  <2> QED BY <1>1, <1>5, <1>10, <2>1, <2>2 DEF RecordChild, WithChild
<1>11. CASE Leave(r)
  <2>1. [kind |-> "none", pc |-> "done", of |-> NoPid] \in Commands
    BY DEF Commands, Places, Ended
  <2>2. /\ cmd' \in [Runs -> Commands] /\ cmd'[r].pc = "done"
        /\ \A q \in Runs : q # r => cmd'[q] = cmd[q]
    BY <1>1, <1>11, <2>1 DEF Leave
  <2>3. Placed(r)' /\ Moves(r)
    BY <1>1, <1>11, <2>2 DEF Placed, Moves, Leave, At, WithChild
  <2> QED BY <2>3, MovesKeep
<1> QED BY <1>2, <1>3, <1>6, <1>7, <1>8, <1>9, <1>10, <1>11 DEF Supervise

LEMMA OwnInvInit == Init => OwnInv
<1> SUFFICES ASSUME Init PROVE OwnInv
  OBVIOUS
<1>1. /\ \A r \in Runs : cmd[r].pc = "idle"
      /\ \A d \in Daemons : daemon[d].st = "unborn"
  BY DEF Init
<1>2. OwnTypes
  BY DEF Init, OwnTypes, Commands, Places
<1>3. LiveDaemons = {}
  BY <1>1, LiveDaemonsAre
<1> QED BY <1>1, <1>2, <1>3 DEF OwnInv, Placed, At, WithChild, Owned, OneEach

LEMMA OwnInvNext == OwnInv /\ [Next]_vars => OwnInv'
<1> SUFFICES ASSUME OwnInv, [Next]_vars PROVE OwnInv'
  OBVIOUS
<1>1. ASSUME UNCHANGED <<cmd, daemon, supPid, revPid>> PROVE OwnInv'
  <2>1. LiveDaemons' = LiveDaemons
    BY <1>1 DEF LiveDaemons, Alive
  <2> QED BY <1>1, <2>1 DEF OwnInv, OwnTypes, Placed, At, Born, Owned, ChildOf, OneEach
<1>2. ASSUME NEW r \in Runs, Announce(r) \/ Interrupt(r) PROVE OwnInv'
  BY <1>1, <1>2 DEF Announce, Interrupt, files
<1>3. CASE Tick \/ UNCHANGED vars
  BY <1>1, <1>3 DEF Tick, vars, files
<1>4. ASSUME NEW r \in Runs, RunKilled(r) PROVE OwnInv'
  BY <1>4, KilledKeeps DEF RunKilled
<1>5. ASSUME NEW d \in Daemons, Bind(d) PROVE OwnInv'
  BY <1>5, AliveIs, ProgressKeeps DEF Bind, files
<1>6. ASSUME NEW d \in Daemons, WriteEndpoint(d) PROVE OwnInv'
  BY <1>6, AliveIs, ProgressKeeps DEF WriteEndpoint
<1>7. ASSUME NEW d \in Daemons, Exits(d) PROVE OwnInv'
  <2>1. PICK how \in {"clean", "unclean"} : daemon' = [daemon EXCEPT ![d].st = how]
    BY <1>7 DEF Exits
  <2> QED BY <1>7, <2>1, ProgressKeeps DEF Exits, files
<1> QED BY <1>2, <1>3, <1>4, <1>5, <1>6, <1>7, CommandOwns, SupervisorOwns DEF Next

(* A daemon that is alive is the one child its supervisor waits for, or the one
   that a kill of its supervisor left, for any commands at once, any kills and
   pid files that could not be written: no supervisor that ends by itself
   leaves a daemon behind (Supervisor::run of supervisor.rs). *)
THEOREM EveryChildIsOwned == Spec => []ChildrenAreOwned
<1>1. OwnInv => ChildrenAreOwned
  <2> SUFFICES ASSUME OwnInv PROVE ChildrenAreOwned
    OBVIOUS
  <2>1. \A d \in LiveDaemons : /\ daemon[d].parent \in Runs
                               /\ ChildOf(daemon[d].parent, d) \/ At(daemon[d].parent, "killed")
    BY LiveDaemonsAre DEF OwnInv, Owned
  <2> QED BY <2>1 DEF ChildrenAreOwned, OwnInv, OneEach
<1> QED BY OwnInvInit, OwnInvNext, <1>1, PTL DEF Spec
=============================================================================
