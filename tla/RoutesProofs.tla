---------------------------- MODULE RoutesProofs ----------------------------
(* What the review daemon keeps of its configuration, its pairing codes and   *)
(* its sign-in, for any number of requests at once, of any bodies; and what   *)
(* the page that sets the configuration asks of it, in any order.             *)
EXTENDS Routes, PageRequests, FiniteSetTheorems, SequenceTheorems, TLAPS

-----------------------------------------------------------------------------
(* Jobs, and what may be changed of one. *)

Stages ==
  {"idle", "lock", "open", "write", "rename", "commit", "swap", "check", "redeem", "record",
   "forgive", "origin", "load", "refresh", "forget", "truncate", "save", "callback", "exchange",
   "clear"}

Handles == {"none", "tmp", "file", "gone", "auth"}

JobOf(C, A) ==
  [op : Ops \cup {"none"}, pc : Stages, cand : C, handle : Handles, inst : A, arg : A]

Table(f, C, A) == f \in [Slots -> JobOf(C, A)] /\ Config0 \in C /\ 0 \in A

Same(j, k) == k.op = j.op /\ k.cand = j.cand /\ k.inst = j.inst

Others(f, g, s) == \A t \in Slots \ {s} : g[t] = f[t]

WithJob(f, s, j)          == [f EXCEPT ![s] = j]
WithPc(f, s, p)           == [f EXCEPT ![s].pc = p]
WithPcHandle(f, s, p, h)  == [f EXCEPT ![s].pc = p, ![s].handle = h]
WithPcArg(f, s, p, a)     == [f EXCEPT ![s].pc = p, ![s].arg = a]
WithPcCand(f, s, p, c)    == [f EXCEPT ![s].pc = p, ![s].cand = c]

LEMMA IdleIs ==
  /\ \A C, A : Config0 \in C /\ 0 \in A => Idle \in JobOf(C, A)
  /\ Idle.op = "none" /\ Idle.pc = "idle" /\ Idle.cand = Config0 /\ Idle.handle = "none"
  /\ Idle.inst = 0 /\ Idle.arg = 0
BY DEF Idle, JobOf, Stages, Handles

LEMMA SetJob ==
  ASSUME NEW C, NEW A, NEW f, Table(f, C, A), NEW s \in Slots, NEW j \in JobOf(C, A),
         NEW g, g = WithJob(f, s, j)
  PROVE  Table(g, C, A) /\ Others(f, g, s) /\ g[s] = j
BY DEF Table, Others, WithJob

LEMMA SetPc ==
  ASSUME NEW C, NEW A, NEW f, Table(f, C, A), NEW s \in Slots, NEW p \in Stages,
         NEW g, g = WithPc(f, s, p)
  PROVE  /\ Table(g, C, A) /\ Others(f, g, s) /\ Same(f[s], g[s])
         /\ g[s].pc = p /\ g[s].handle = f[s].handle /\ g[s].arg = f[s].arg
<1>1. f[s] \in JobOf(C, A)
  BY DEF Table
<1>2. PICK j : j = [f[s] EXCEPT !.pc = p]
  OBVIOUS
<1>3. /\ j \in JobOf(C, A) /\ Same(f[s], j)
      /\ j.pc = p /\ j.handle = f[s].handle /\ j.arg = f[s].arg
  BY <1>1, <1>2 DEF JobOf, Same
<1>4. g = [f EXCEPT ![s] = j]
  BY <1>2 DEF Table, WithPc
<1>5. Table(g, C, A) /\ Others(f, g, s) /\ g[s] = j
  BY <1>3, <1>4 DEF Table, Others
<1> QED BY <1>3, <1>5

LEMMA SetPcHandle ==
  ASSUME NEW C, NEW A, NEW f, Table(f, C, A), NEW s \in Slots, NEW p \in Stages,
         NEW h \in Handles, NEW g, g = WithPcHandle(f, s, p, h)
  PROVE  /\ Table(g, C, A) /\ Others(f, g, s) /\ Same(f[s], g[s])
         /\ g[s].pc = p /\ g[s].handle = h /\ g[s].arg = f[s].arg
<1>1. f[s] \in JobOf(C, A)
  BY DEF Table
<1>2. PICK j : j = [f[s] EXCEPT !.pc = p, !.handle = h]
  OBVIOUS
<1>3. /\ j \in JobOf(C, A) /\ Same(f[s], j)
      /\ j.pc = p /\ j.handle = h /\ j.arg = f[s].arg
  BY <1>1, <1>2 DEF JobOf, Same
<1>4. g = [f EXCEPT ![s] = j]
  BY <1>2 DEF Table, WithPcHandle
<1>5. Table(g, C, A) /\ Others(f, g, s) /\ g[s] = j
  BY <1>3, <1>4 DEF Table, Others
<1> QED BY <1>3, <1>5

LEMMA SetPcArg ==
  ASSUME NEW C, NEW A, NEW f, Table(f, C, A), NEW s \in Slots, NEW p \in Stages,
         NEW a \in A, NEW g, g = WithPcArg(f, s, p, a)
  PROVE  /\ Table(g, C, A) /\ Others(f, g, s) /\ Same(f[s], g[s])
         /\ g[s].pc = p /\ g[s].handle = f[s].handle /\ g[s].arg = a
<1>1. f[s] \in JobOf(C, A)
  BY DEF Table
<1>2. PICK j : j = [f[s] EXCEPT !.pc = p, !.arg = a]
  OBVIOUS
<1>3. /\ j \in JobOf(C, A) /\ Same(f[s], j)
      /\ j.pc = p /\ j.handle = f[s].handle /\ j.arg = a
  BY <1>1, <1>2 DEF JobOf, Same
<1>4. g = [f EXCEPT ![s] = j]
  BY <1>2 DEF Table, WithPcArg
<1>5. Table(g, C, A) /\ Others(f, g, s) /\ g[s] = j
  BY <1>3, <1>4 DEF Table, Others
<1> QED BY <1>3, <1>5

LEMMA SetPcCand ==
  ASSUME NEW C, NEW A, NEW f, Table(f, C, A), NEW s \in Slots, NEW p \in Stages,
         NEW c \in C, NEW g, g = WithPcCand(f, s, p, c)
  PROVE  /\ Table(g, C, A) /\ Others(f, g, s)
         /\ g[s].op = f[s].op /\ g[s].pc = p /\ g[s].cand = c /\ g[s].handle = f[s].handle
<1>1. f[s] \in JobOf(C, A)
  BY DEF Table
<1>2. PICK j : j = [f[s] EXCEPT !.pc = p, !.cand = c]
  OBVIOUS
<1>3. /\ j \in JobOf(C, A) /\ j.op = f[s].op
      /\ j.pc = p /\ j.cand = c /\ j.handle = f[s].handle
  BY <1>1, <1>2 DEF JobOf
<1>4. g = [f EXCEPT ![s] = j]
  BY <1>2 DEF Table, WithPcCand
<1>5. Table(g, C, A) /\ Others(f, g, s) /\ g[s] = j
  BY <1>3, <1>4 DEF Table, Others
<1> QED BY <1>3, <1>5

(* Handles that a rename, or a file removed, moves. *)
Moving(f, s, j, H) == [t \in Slots |-> [(IF t = s THEN j ELSE f[t]) EXCEPT !.handle = H[t]]]

LEMMA SetHandles ==
  ASSUME NEW C, NEW A, NEW f, Table(f, C, A), NEW s \in Slots, NEW j \in JobOf(C, A),
         NEW H, H \in [Slots -> Handles],
         NEW g, g = Moving(f, s, j, H)
  PROVE  /\ Table(g, C, A)
         /\ \A t \in Slots \ {s} : /\ Same(f[t], g[t]) /\ g[t].pc = f[t].pc
                                   /\ g[t].arg = f[t].arg
         /\ \A t \in Slots : g[t].handle = H[t]
         /\ Same(j, g[s]) /\ g[s].pc = j.pc /\ g[s].arg = j.arg
<1> DEFINE Handed(i, t) == [i EXCEPT !.handle = H[t]]
<1>1. ASSUME NEW t \in Slots, NEW i \in JobOf(C, A)
      PROVE  /\ Handed(i, t) \in JobOf(C, A) /\ Same(i, Handed(i, t))
             /\ Handed(i, t).pc = i.pc /\ Handed(i, t).arg = i.arg
             /\ Handed(i, t).handle = H[t]
  BY DEF JobOf, Same
<1>2. \A t \in Slots : f[t] \in JobOf(C, A)
  BY DEF Table
<1>3. \A t \in Slots \ {s} : g[t] = Handed(f[t], t)
  BY DEF Moving
<1>4. g[s] = Handed(j, s)
  BY DEF Moving
<1>5. DOMAIN g = Slots /\ g = [t \in Slots |-> g[t]]
  BY DEF Moving
<1> HIDE DEF Handed
<1>6. ASSUME NEW t \in Slots PROVE g[t] \in JobOf(C, A)
  <2>1. CASE t = s
    BY <1>1, <1>4, <2>1
  <2>2. CASE t # s
    <3>1. f[t] \in JobOf(C, A)
      BY <1>2
    <3>2. g[t] = Handed(f[t], t)
      BY <1>3, <2>2
    <3>3. Handed(f[t], t) \in JobOf(C, A)
      BY <1>1, <3>1
    <3> QED BY <3>2, <3>3
  <2> QED BY <2>1, <2>2
<1>7. g \in [Slots -> JobOf(C, A)]
  BY <1>5, <1>6
<1> QED BY <1>1, <1>2, <1>3, <1>4, <1>7 DEF Table

-----------------------------------------------------------------------------
(* What the actions do to the jobs. *)

Belongs(op, pc) ==
  \/ op = "none" /\ pc = "idle"
  \/ op = "post" /\ pc \in {"lock", "open", "write", "rename", "commit", "swap"}
  \/ op = "pair" /\ pc \in {"check", "redeem", "record", "forgive"} \cup Persists
  \/ op \in AccessOps /\ pc \in {"lock", "load", "refresh", "forget", "truncate", "save"}
  \/ op = "login" /\ pc \in {"callback", "exchange", "truncate", "save", "clear"}

Placed == \A s \in Slots : Belongs(job[s].op, job[s].pc)

Jobs == (\E C, A : Table(job, C, A)) /\ Placed

Stay(s) == Others(job, job', s)

LEMMA SlotIs ==
  ASSUME Jobs, NEW s \in Slots
  PROVE  job[s].op \in Ops \cup {"none"} /\ job[s].pc \in Stages /\ job[s].handle \in Handles
BY DEF Jobs, Table, JobOf

LEMMA Stepped ==
  ASSUME Jobs, NEW s \in Slots, NEW p \in Stages, Belongs(job[s].op, p), Step(s, p)
  PROVE  /\ Jobs' /\ Stay(s) /\ Same(job[s], job'[s])
         /\ job'[s].pc = p /\ job'[s].handle = job[s].handle /\ job'[s].arg = job[s].arg
<1>1. PICK C, A : Table(job, C, A)
  BY DEF Jobs
<1>2. job' = WithPc(job, s, p)
  BY DEF Step, WithPc
<1>3. /\ Table(job', C, A) /\ Stay(s) /\ Same(job[s], job'[s])
      /\ job'[s].pc = p /\ job'[s].handle = job[s].handle /\ job'[s].arg = job[s].arg
  BY <1>1, <1>2, SetPc DEF Stay
<1> QED BY <1>3 DEF Jobs, Placed, Others, Same, Stay

LEMMA Finished ==
  ASSUME Jobs, NEW s \in Slots, Done(s)
  PROVE  Jobs' /\ Stay(s) /\ job'[s] = Idle
<1>1. PICK C, A : Table(job, C, A)
  BY DEF Jobs
<1>2. Idle \in JobOf(C, A)
  BY <1>1, IdleIs DEF Table
<1>3. job' = WithJob(job, s, Idle)
  BY DEF Done, WithJob
<1>4. Table(job', C, A) /\ Stay(s) /\ job'[s] = Idle
  BY <1>1, <1>2, <1>3, SetJob DEF Stay
<1>5. Belongs(Idle.op, Idle.pc)
  BY IdleIs DEF Belongs
<1> QED BY <1>4, <1>5 DEF Jobs, Placed, Others, Stay

LEMMA Put ==
  ASSUME Jobs, NEW s \in Slots, NEW C, NEW A, NEW new \in JobOf(C, A),
         Belongs(new.op, new.pc), job' = WithJob(job, s, new)
  PROVE  Jobs' /\ Stay(s) /\ job'[s] = new
<1>1. PICK D, B : Table(job, D, B)
  BY DEF Jobs
<1>2. Table(job, C \cup D, A \cup B) /\ new \in JobOf(C \cup D, A \cup B)
  BY <1>1 DEF Table, JobOf
<1>3. Table(job', C \cup D, A \cup B) /\ Stay(s) /\ job'[s] = new
  BY <1>2, SetJob DEF Stay
<1> QED BY <1>3 DEF Jobs, Placed, Others, Stay

LEMMA Arrived ==
  ASSUME Jobs, NEW s \in Slots, NEW op, NEW C, NEW A, NEW new \in JobOf(C, A),
         Belongs(new.op, new.pc), Arrive(s, op, new)
  PROVE  /\ Jobs' /\ Stay(s) /\ job[s].op = "none" /\ job[s].pc = "idle"
         /\ job'[s] = new /\ up
<1>1. job[s].pc = "idle" /\ job' = WithJob(job, s, new) /\ up
  BY DEF Arrive, WithJob
<1>2. job[s].op = "none"
  BY <1>1, SlotIs DEF Jobs, Placed, Belongs, Persists, AccessOps
<1> QED BY <1>1, <1>2, Put

LEMMA SteppedWithHandle ==
  ASSUME Jobs, NEW s \in Slots, NEW p \in Stages, NEW h \in Handles,
         Belongs(job[s].op, p), job' = WithPcHandle(job, s, p, h)
  PROVE  /\ Jobs' /\ Stay(s) /\ Same(job[s], job'[s])
         /\ job'[s].pc = p /\ job'[s].handle = h /\ job'[s].arg = job[s].arg
<1>1. PICK C, A : Table(job, C, A)
  BY DEF Jobs
<1>2. /\ Table(job', C, A) /\ Stay(s) /\ Same(job[s], job'[s])
      /\ job'[s].pc = p /\ job'[s].handle = h /\ job'[s].arg = job[s].arg
  BY <1>1, SetPcHandle DEF Stay
<1> QED BY <1>2 DEF Jobs, Placed, Others, Same, Stay

LEMMA SteppedWithArg ==
  ASSUME Jobs, NEW s \in Slots, NEW p \in Stages, NEW a,
         Belongs(job[s].op, p), job' = WithPcArg(job, s, p, a)
  PROVE  /\ Jobs' /\ Stay(s) /\ Same(job[s], job'[s])
         /\ job'[s].pc = p /\ job'[s].handle = job[s].handle /\ job'[s].arg = a
<1>1. PICK C, A : Table(job, C, A)
  BY DEF Jobs
<1>2. Table(job, C, A \cup {a})
  BY <1>1 DEF Table, JobOf
<1>3. /\ Table(job', C, A \cup {a}) /\ Stay(s) /\ Same(job[s], job'[s])
      /\ job'[s].pc = p /\ job'[s].handle = job[s].handle /\ job'[s].arg = a
  BY <1>2, SetPcArg DEF Stay
<1> QED BY <1>3 DEF Jobs, Placed, Others, Same, Stay

LEMMA SteppedWithCand ==
  ASSUME Jobs, NEW s \in Slots, NEW p \in Stages, NEW c,
         Belongs(job[s].op, p), job' = WithPcCand(job, s, p, c)
  PROVE  /\ Jobs' /\ Stay(s)
         /\ job'[s].op = job[s].op /\ job'[s].pc = p /\ job'[s].cand = c
         /\ job'[s].handle = job[s].handle
<1>1. PICK C, A : Table(job, C, A)
  BY DEF Jobs
<1>2. Table(job, C \cup {c}, A)
  BY <1>1 DEF Table, JobOf
<1>3. /\ Table(job', C \cup {c}, A) /\ Stay(s)
      /\ job'[s].op = job[s].op /\ job'[s].pc = p /\ job'[s].cand = c
      /\ job'[s].handle = job[s].handle
  BY <1>2, SetPcCand DEF Stay
<1> QED BY <1>3 DEF Jobs, Placed, Others, Stay

(* Others keep all but their handles, which a rename or a removal may move. *)
Drift(s, H) ==
  \A t \in Slots \ {s} :
    /\ Same(job[t], job'[t]) /\ job'[t].pc = job[t].pc /\ job'[t].arg = job[t].arg
    /\ job'[t].handle = H[t]

MovedTo(h) == CASE h = "tmp" -> "file" [] h = "file" -> "gone" [] OTHER -> h

RenamedHandles == [t \in Slots |-> MovedTo(job[t].handle)]

RemovedHandles == [t \in Slots |-> IF job[t].handle = "auth" THEN "gone" ELSE job[t].handle]

LEMMA Renamed ==
  ASSUME Jobs, NEW s \in Slots, NEW C, NEW A, Table(job, C, A), NEW next \in JobOf(C, A),
         Belongs(next.op, next.pc), Moved(s, next)
  PROVE  /\ Jobs' /\ Drift(s, RenamedHandles)
         /\ Same(next, job'[s]) /\ job'[s].pc = next.pc /\ job'[s].arg = next.arg
         /\ job'[s].handle = MovedTo(next.handle)
<1> DEFINE H == [RenamedHandles EXCEPT ![s] = MovedTo(next.handle)]
<1>1. RenamedHandles \in [Slots -> Handles]
  BY SlotIs DEF RenamedHandles, MovedTo, Handles
<1>2. H \in [Slots -> Handles] /\ H[s] = MovedTo(next.handle)
      /\ \A t \in Slots \ {s} : H[t] = RenamedHandles[t]
  BY <1>1 DEF JobOf, MovedTo, Handles
<1>3. job' = Moving(job, s, next, H)
  <2>1. ASSUME NEW t \in Slots
        PROVE  job'[t] = [(IF t = s THEN next ELSE job[t]) EXCEPT !.handle = H[t]]
    BY <1>2 DEF Moved, RenamedHandles, MovedTo
  <2> QED BY <2>1 DEF Moved, Moving
<1> HIDE DEF H
<1>4. /\ Table(job', C, A)
      /\ \A t \in Slots \ {s} : /\ Same(job[t], job'[t]) /\ job'[t].pc = job[t].pc
                                /\ job'[t].arg = job[t].arg
      /\ \A t \in Slots : job'[t].handle = H[t]
      /\ Same(next, job'[s]) /\ job'[s].pc = next.pc /\ job'[s].arg = next.arg
  BY <1>2, <1>3, SetHandles
<1>5. Drift(s, RenamedHandles) /\ job'[s].handle = MovedTo(next.handle)
  BY <1>2, <1>4 DEF Drift
<1>6. Placed'
  BY <1>4 DEF Jobs, Placed, Same
<1> QED BY <1>4, <1>5, <1>6 DEF Jobs

-----------------------------------------------------------------------------
(* The requests that write the configuration. *)

\* Fresh(j, op, pc): a job of kind op at pc, with no open handle.
Fresh(j, op, pc) == j.op = op /\ j.pc = pc /\ j.handle = "none"

LEMMA NewPost ==
  ASSUME Jobs, NEW s \in Slots, PostArrives(s)
  PROVE  /\ Jobs' /\ Stay(s) /\ job[s].op = "none" /\ up
         /\ Fresh(job'[s], "post", "lock") /\ job'[s].inst = 0
<1>1. PICK b \in Bodies : Arrive(s, "post", [Idle EXCEPT !.op = "post", !.pc = "lock", !.arg = b])
  BY DEF PostArrives
<1>2. PICK j : j = [Idle EXCEPT !.op = "post", !.pc = "lock", !.arg = b]
  OBVIOUS
<1>3. j \in JobOf({Config0}, {0, b}) /\ Fresh(j, "post", "lock") /\ j.inst = 0
  BY <1>2 DEF Idle, JobOf, Stages, Handles, Ops, Fresh
<1>4. Arrive(s, "post", j)
  BY <1>1, <1>2
<1>5. Belongs(j.op, j.pc)
  BY <1>3 DEF Belongs, Fresh
<1> QED BY <1>3, <1>4, <1>5, Arrived

LEMMA CheckedPost ==
  ASSUME Jobs, NEW s \in Slots, PostChecks(s)
  PROVE  /\ Jobs' /\ Stay(s) /\ job[s].op = "post" /\ job[s].pc = "lock" /\ up
         /\ configLock = Free
         /\ LET body == job[s].arg  cand == Candidate(config, body) IN
            \/ /\ LimitsFit(body) /\ (Has(body, "provider") => Builds(cand))
               /\ Fresh(job'[s], "post", "open") /\ job'[s].cand = cand
               /\ \/ job'[s].inst = 0 /\ built' = built
                  \/ built' = built + 1
               /\ configLock' = s
            \/ job'[s] = Idle /\ UNCHANGED <<configLock, built>>
<1> DEFINE body == job[s].arg
           cand == Candidate(config, body)
           inst == IF Has(body, "provider") THEN built' ELSE 0
           new  == [Idle EXCEPT !.op = "post", !.pc = "open", !.cand = cand, !.inst = inst]
<1>1. job[s].op = "post" /\ job[s].pc = "lock" /\ up /\ configLock = Free
  BY DEF PostChecks, At
<1>2. CASE LimitsFit(body) /\ (Has(body, "provider") => Builds(cand))
  <2>1. configLock' = s /\ job' = WithJob(job, s, new)
        /\ built' = IF Has(body, "provider") THEN built + 1 ELSE built
    BY <1>2 DEF PostChecks, Accepted, WithJob
  <2>2. PICK c, n : c = cand /\ n = inst
    OBVIOUS
  <2>3. PICK j : j = [Idle EXCEPT !.op = "post", !.pc = "open", !.cand = c, !.inst = n]
    OBVIOUS
  <2>4. j \in JobOf({c}, {0, n}) /\ Fresh(j, "post", "open") /\ j.cand = c /\ j.inst = n
    BY <2>3 DEF Idle, JobOf, Stages, Handles, Ops, Fresh
  <2>5. job' = WithJob(job, s, j)
    BY <2>1, <2>2, <2>3
  <2>6. Belongs(j.op, j.pc)
    BY <2>4 DEF Belongs, Fresh
  <2>7. Jobs' /\ Stay(s) /\ job'[s] = j
    BY <2>4, <2>5, <2>6, Put
  <2> HIDE DEF inst, cand, body
  <2>8. Fresh(job'[s], "post", "open") /\ job'[s].cand = cand /\ job'[s].inst = inst
    BY <2>2, <2>4, <2>7
  <2>9. \/ inst = 0 /\ built' = built
        \/ inst = built' /\ built' = built + 1
    BY <2>1 DEF inst
  <2> QED BY <1>1, <1>2, <2>1, <2>7, <2>8, <2>9 DEF body, cand
<1>3. CASE ~(LimitsFit(body) /\ (Has(body, "provider") => Builds(cand)))
  <2>1. Done(s) /\ UNCHANGED <<configLock, built>>
    BY <1>3 DEF PostChecks, Accepted
  <2> QED BY <1>1, <2>1, Finished
<1> QED BY <1>2, <1>3

LEMMA OpenedFile ==
  ASSUME Jobs, NEW s \in Slots, NEW op \in {"post", "pair"}, Open(s, op)
  PROVE  /\ Jobs' /\ Stay(s) /\ Same(job[s], job'[s]) /\ job[s].op = op /\ job[s].pc = "open"
         /\ job'[s].pc = "write" /\ job'[s].handle = "tmp"
         /\ file' = file /\ tmp' = Torn
<1>1. Belongs(job[s].op, "write") /\ "write" \in Stages /\ "tmp" \in Handles
  BY DEF Open, At, Belongs, Persists, Stages, Handles
<1>2. job' = WithPcHandle(job, s, "write", "tmp")
  BY DEF Open, Target, WithPcHandle
<1>3. job[s].op = op /\ job[s].pc = "open" /\ file' = file /\ tmp' = Torn
  BY DEF Open, At, Target
<1> QED BY <1>1, <1>2, <1>3, SteppedWithHandle

LEMMA WrittenFile ==
  ASSUME Jobs, NEW s \in Slots, NEW op \in {"post", "pair"}, Write(s, op)
  PROVE  /\ Jobs' /\ Stay(s) /\ Same(job[s], job'[s]) /\ job[s].op = op /\ job[s].pc = "write"
         /\ job'[s].pc = "rename" /\ job'[s].handle = "none"
<1>1. Belongs(job[s].op, "rename") /\ "rename" \in Stages /\ "none" \in Handles
  BY DEF Write, At, Belongs, Persists, Stages, Handles
<1>2. job' = WithPcHandle(job, s, "rename", "none")
  BY DEF Write, WithPcHandle
<1>3. job[s].op = op /\ job[s].pc = "write"
  BY DEF Write, At
<1> QED BY <1>1, <1>2, <1>3, SteppedWithHandle

LEMMA RenamedPost ==
  ASSUME Jobs, NEW s \in Slots, PostRenames(s)
  PROVE  /\ Jobs' /\ Drift(s, RenamedHandles) /\ job[s].op = "post" /\ job[s].pc = "rename"
         /\ Same(job[s], job'[s]) /\ job'[s].pc = "commit"
         /\ job'[s].handle = MovedTo(job[s].handle)
         /\ file' = tmp /\ tmp # NoFile
<1>1. job[s].op = "post" /\ job[s].pc = "rename" /\ file' = tmp /\ tmp # NoFile
  BY DEF PostRenames, Rename, At, Target
<1>2. PICK C, A : Table(job, C, A)
  BY DEF Jobs
<1>3. PICK j : j = [job[s] EXCEPT !.pc = "commit"]
  OBVIOUS
<1>4. job[s] \in JobOf(C, A)
  BY <1>2 DEF Table
<1>5. /\ j \in JobOf(C, A) /\ Same(job[s], j) /\ j.pc = "commit"
      /\ j.handle = job[s].handle /\ j.op = "post"
  BY <1>1, <1>3, <1>4 DEF JobOf, Stages, Same
<1>6. Belongs(j.op, j.pc)
  BY <1>5 DEF Belongs
<1>7. Moved(s, j)
  BY <1>3 DEF PostRenames, Rename
<1>8. Jobs' /\ Drift(s, RenamedHandles) /\ Same(j, job'[s]) /\ job'[s].pc = j.pc
      /\ job'[s].handle = MovedTo(j.handle)
  BY <1>2, <1>5, <1>6, <1>7, Renamed
<1> QED BY <1>1, <1>5, <1>8 DEF Same

LEMMA RenamedPair ==
  ASSUME Jobs, NEW s \in Slots, PairRenames(s)
  PROVE  /\ Jobs' /\ Drift(s, RenamedHandles) /\ job[s].op = "pair" /\ job[s].pc = "rename"
         /\ Fresh(job'[s], "none", "idle") /\ file' = tmp
<1>1. job[s].op = "pair" /\ job[s].pc = "rename" /\ file' = tmp /\ Moved(s, Idle)
  BY DEF PairRenames, Rename, At, Target
<1>2. PICK C, A : Table(job, C, A)
  BY DEF Jobs
<1>3. Idle \in JobOf(C, A) /\ Belongs(Idle.op, Idle.pc)
  BY <1>2, IdleIs DEF Table, Belongs
<1>4. Jobs' /\ Drift(s, RenamedHandles) /\ Same(Idle, job'[s]) /\ job'[s].pc = Idle.pc
      /\ job'[s].handle = MovedTo(Idle.handle)
  BY <1>1, <1>2, <1>3, Renamed
<1> QED BY <1>1, <1>4, IdleIs DEF Same, Fresh, MovedTo

LEMMA OriginSet ==
  ASSUME Jobs, NEW s \in Slots, PairSetsOrigin(s)
  PROVE  /\ Jobs' /\ Stay(s) /\ job[s].op = "pair" /\ job[s].pc = "origin" /\ configLock = Free
         /\ config' = [config EXCEPT !.origin = "extension"]
         /\ job'[s].op = "pair" /\ job'[s].pc = "open" /\ job'[s].cand = config'
         /\ job'[s].handle = job[s].handle
<1>1. job[s].op = "pair" /\ job[s].pc = "origin" /\ configLock = Free
      /\ config' = [config EXCEPT !.origin = "extension"]
  BY DEF PairSetsOrigin, At
<1>2. PICK c : c = config'
  OBVIOUS
<1>3. job' = WithPcCand(job, s, "open", c)
  BY <1>2 DEF PairSetsOrigin, WithPcCand
<1>4. Belongs(job[s].op, "open") /\ "open" \in Stages
  BY <1>1 DEF Belongs, Persists, Stages
<1> QED BY <1>1, <1>2, <1>3, <1>4, SteppedWithCand

(* The jobs of a sign-in, and the pairings whose code is still looked at, are no business *)
(* of the requests that write the configuration. *)
Signing(j) == j.op \in AccessOps \cup {"login"}
Coding(j)  == j.op = "pair" /\ j.pc \notin Persists

Kept(t) ==
  /\ Same(job[t], job'[t]) /\ job'[t].pc = job[t].pc /\ job'[t].arg = job[t].arg
  /\ job'[t].handle = "auth" <=> job[t].handle = "auth"

LeavesOthers ==
  \A t \in Slots :
    Signing(job[t]) \/ Coding(job[t]) \/ Signing(job'[t]) \/ Coding(job'[t]) => Kept(t)

LEMMA SettingsLeaveOthers ==
  ASSUME Jobs, NEW s \in Slots, SettingsStep(s)
  PROVE  Jobs' /\ LeavesOthers
<1> DEFINE Own(j) == ~Signing(j) /\ ~Coding(j)
<1>1. ASSUME Stay(s), Own(job[s]), Own(job'[s]) PROVE LeavesOthers
  BY <1>1 DEF Stay, Others, LeavesOthers, Kept, Same
<1>2. ASSUME Drift(s, RenamedHandles), Own(job[s]), Own(job'[s]) PROVE LeavesOthers
  BY <1>2 DEF Drift, RenamedHandles, MovedTo, LeavesOthers, Kept
<1>3. \A j : (j.op \in {"none", "post"} \/ (j.op = "pair" /\ j.pc \in Persists)) => Own(j)
  BY DEF Signing, Coding, AccessOps
<1>4. Own(Idle)
  BY <1>3, IdleIs
<1> HIDE DEF Own
<1>5. CASE PostArrives(s)
  BY <1>1, <1>3, <1>5, NewPost DEF Fresh
<1>6. CASE PostChecks(s)
  BY <1>1, <1>3, <1>4, <1>6, CheckedPost DEF Fresh
<1>7. CASE PostOpens(s) \/ PairOpens(s)
  <2>1. PICK op \in {"post", "pair"} : Open(s, op)
    BY <1>7 DEF PostOpens, PairOpens
  <2>2. Jobs' /\ Stay(s) /\ Same(job[s], job'[s]) /\ job[s].op = op /\ job[s].pc = "open"
        /\ job'[s].pc = "write"
    BY <2>1, OpenedFile
  <2> QED BY <1>1, <1>3, <2>2 DEF Same, Persists
<1>8. CASE PostWrites(s) \/ PairWrites(s)
  <2>1. PICK op \in {"post", "pair"} : Write(s, op)
    BY <1>8 DEF PostWrites, PairWrites
  <2>2. Jobs' /\ Stay(s) /\ Same(job[s], job'[s]) /\ job[s].op = op /\ job[s].pc = "write"
        /\ job'[s].pc = "rename"
    BY <2>1, WrittenFile
  <2> QED BY <1>1, <1>3, <2>2 DEF Same, Persists
<1>9. CASE PostRenames(s)
  BY <1>2, <1>3, <1>9, RenamedPost DEF Same
<1>10. CASE PairRenames(s)
  BY <1>2, <1>3, <1>10, RenamedPair DEF Fresh, Persists
<1>11. CASE PostPersistFails(s) \/ PairPersistFails(s) \/ PostSwaps(s)
  <2>1. Done(s) /\ \/ job[s].op = "post"
                   \/ job[s].op = "pair" /\ job[s].pc \in Persists
    BY <1>11 DEF PostPersistFails, PairPersistFails, PostSwaps, At, Persists
  <2> QED BY <1>1, <1>3, <1>4, <2>1, Finished
<1>12. CASE PostCommits(s)
  <2>1. job[s].op = "post" /\ (Step(s, "swap") \/ Done(s))
    BY <1>12 DEF PostCommits, At
  <2>2. CASE Done(s)
    BY <1>1, <1>3, <1>4, <2>1, <2>2, Finished
  <2>3. CASE Step(s, "swap")
    <3>1. Belongs(job[s].op, "swap") /\ "swap" \in Stages
      BY <2>1 DEF Belongs, Stages
    <3>2. Jobs' /\ Stay(s) /\ Same(job[s], job'[s])
      BY <2>3, <3>1, Stepped
    <3> QED BY <1>1, <1>3, <2>1, <3>2 DEF Same
  <2> QED BY <2>1, <2>2, <2>3
<1>13. CASE PairSetsOrigin(s)
  BY <1>1, <1>3, <1>13, OriginSet DEF Persists
<1> QED BY <1>5, <1>6, <1>7, <1>8, <1>9, <1>10, <1>11, <1>12, <1>13 DEF SettingsStep

-----------------------------------------------------------------------------
(* The requests of a sign-in. *)

LEMMA NewTurn ==
  ASSUME Jobs, NEW s \in Slots, TurnArrives(s)
  PROVE  /\ Jobs' /\ Stay(s) /\ job[s].op = "none" /\ up
         /\ Fresh(job'[s], "turn", "lock") /\ job'[s].inst = provider.inst
<1>1. PICK n : n = provider.inst
  OBVIOUS
<1>2. PICK j : j = [Idle EXCEPT !.op = "turn", !.pc = "lock", !.inst = n]
  OBVIOUS
<1>3. j \in JobOf({Config0}, {0, n}) /\ Fresh(j, "turn", "lock") /\ j.inst = n
  BY <1>2 DEF Idle, JobOf, Stages, Handles, Ops, Fresh
<1>4. Arrive(s, "turn", j)
  BY <1>1, <1>2 DEF TurnArrives
<1>5. Belongs(j.op, j.pc)
  BY <1>3 DEF Belongs, Fresh, AccessOps
<1> QED BY <1>1, <1>3, <1>4, <1>5, Arrived

LEMMA NewEphemeral ==
  ASSUME Jobs, NEW s \in Slots, NEW op \in {"validate", "models"}, Ephemeral(s, op)
  PROVE  /\ Jobs' /\ Stay(s) /\ job[s].op = "none" /\ up
         /\ \/ Fresh(job'[s], op, "lock") /\ job'[s].inst = built' /\ built' = built + 1
            \/ job'[s] = Idle /\ built' = built
<1>1. PICK n : n = built'
  OBVIOUS
<1>2. PICK j : j = [Idle EXCEPT !.op = op, !.pc = "lock", !.inst = n]
  OBVIOUS
<1>3. j \in JobOf({Config0}, {0, n}) /\ Fresh(j, op, "lock") /\ j.inst = n
  BY <1>2 DEF Idle, JobOf, Stages, Handles, Ops, Fresh
<1>4. \/ built' = built + 1 /\ Arrive(s, op, j)
      \/ built' = built /\ Arrive(s, op, Idle)
  BY <1>1, <1>2 DEF Ephemeral
<1>5. Belongs(j.op, j.pc) /\ Belongs(Idle.op, Idle.pc)
  BY <1>3, IdleIs DEF Belongs, Fresh, AccessOps
<1>6. Idle \in JobOf({Config0}, {0})
  BY IdleIs
<1> QED BY <1>1, <1>3, <1>4, <1>5, <1>6, Arrived

LEMMA NewLogin ==
  ASSUME Jobs, NEW s \in Slots, LoginArrives(s)
  PROVE  /\ Jobs' /\ Stay(s) /\ job[s].op = "none" /\ up
         /\ \/ Fresh(job'[s], "login", "callback")
            \/ job'[s] = Idle
<1>1. PICK j : j = [Idle EXCEPT !.op = "login", !.pc = "callback"]
  OBVIOUS
<1>2. j \in JobOf({Config0}, {0}) /\ Fresh(j, "login", "callback")
  BY <1>1 DEF Idle, JobOf, Stages, Handles, Ops, Fresh
<1>3. Arrive(s, "login", j) \/ Arrive(s, "login", Idle)
  BY <1>1 DEF LoginArrives, BeginCallback
<1>4. Belongs(j.op, j.pc) /\ Belongs(Idle.op, Idle.pc)
  BY <1>2, IdleIs DEF Belongs, Fresh
<1>5. Idle \in JobOf({Config0}, {0})
  BY IdleIs
<1> QED BY <1>2, <1>3, <1>4, <1>5, Arrived

(* A step of a sign-in under way leaves the job at one of its places. *)
Advanced(s) == Signing(job[s]) /\ Stay(s) /\ Same(job[s], job'[s])

LEMMA SignInSteps ==
  ASSUME Jobs, NEW s \in Slots, NEW p \in Stages, Signing(job[s]), Belongs(job[s].op, p)
  PROVE  /\ Step(s, p) =>
              Jobs' /\ Advanced(s) /\ job'[s].pc = p /\ job'[s].handle = job[s].handle
              /\ job'[s].arg = job[s].arg
         /\ \A a : job' = WithPcArg(job, s, p, a) =>
              Jobs' /\ Advanced(s) /\ job'[s].pc = p /\ job'[s].handle = job[s].handle
              /\ job'[s].arg = a
         /\ \A h \in Handles : job' = WithPcHandle(job, s, p, h) =>
              Jobs' /\ Advanced(s) /\ job'[s].pc = p /\ job'[s].handle = h
              /\ job'[s].arg = job[s].arg
BY Stepped, SteppedWithArg, SteppedWithHandle DEF Advanced

LEMMA SignedOut ==
  ASSUME Jobs, NEW s \in Slots, SignOut(s)
  PROVE  /\ Jobs' /\ Drift(s, RemovedHandles) /\ Signing(job[s]) /\ job[s].pc = "forget"
         /\ Fresh(job'[s], "none", "idle")
<1>1. Signing(job[s]) /\ job[s].pc = "forget"
  BY DEF SignOut, AtAccess, Signing
<1> DEFINE H == [RemovedHandles EXCEPT ![s] = "none"]
<1>2. RemovedHandles \in [Slots -> Handles]
  BY SlotIs DEF RemovedHandles, Handles
<1>3. /\ H \in [Slots -> Handles] /\ H[s] = "none"
      /\ \A t \in Slots \ {s} : H[t] = RemovedHandles[t]
  BY <1>2 DEF Handles
<1>4. job' = Moving(job, s, Idle, H)
  <2>1. ASSUME NEW t \in Slots
        PROVE  job'[t] = [(IF t = s THEN Idle ELSE job[t]) EXCEPT !.handle = H[t]]
    <3>1. CASE t = s
      <4>1. job'[t] = Idle
        BY <3>1 DEF SignOut
      <4>2. Idle = [Idle EXCEPT !.handle = "none"]
        BY DEF Idle
      <4> QED BY <3>1, <4>1, <4>2, <1>3
    <3>2. CASE t # s
      <4>1. job'[t] = [job[t] EXCEPT !.handle = IF @ = "auth" THEN "gone" ELSE @]
        BY <3>2 DEF SignOut
      <4> QED BY <3>2, <4>1, <1>3 DEF RemovedHandles
    <3> QED BY <3>1, <3>2
  <2> QED BY <2>1 DEF SignOut, Moving
<1>5. PICK C, A : Table(job, C, A)
  BY DEF Jobs
<1>6. Idle \in JobOf(C, A) /\ Belongs(Idle.op, Idle.pc)
  BY <1>5, IdleIs DEF Table, Belongs
<1> HIDE DEF H
<1>7. /\ Table(job', C, A)
      /\ \A t \in Slots \ {s} : /\ Same(job[t], job'[t]) /\ job'[t].pc = job[t].pc
                                /\ job'[t].arg = job[t].arg
      /\ \A t \in Slots : job'[t].handle = H[t]
      /\ Same(Idle, job'[s]) /\ job'[s].pc = Idle.pc
  BY <1>3, <1>4, <1>5, <1>6, SetHandles
<1>8. Drift(s, RemovedHandles) /\ Fresh(job'[s], "none", "idle")
  BY <1>3, <1>7, IdleIs DEF Drift, Fresh, Same
<1>9. Placed'
  BY <1>6, <1>7 DEF Jobs, Placed, Same
<1> QED BY <1>1, <1>7, <1>8, <1>9 DEF Jobs

(* A step of a sign-in moves a job of its own, and of the others at most a handle on the *)
(* token's file. *)
Writes(j) == j.op \in {"post", "pair"}

OnlyTokenHandles(s) ==
  \A t \in Slots \ {s} :
    /\ Same(job[t], job'[t]) /\ job'[t].pc = job[t].pc /\ job'[t].arg = job[t].arg
    /\ \/ job'[t].handle = job[t].handle
       \/ job[t].handle = "auth" /\ job'[t].handle = "gone"

Elsewhere(s) ==
  /\ Jobs' /\ OnlyTokenHandles(s) /\ ~Writes(job[s]) /\ ~Writes(job'[s])
  /\ job'[s].handle \in {job[s].handle, "none", "auth"}

LEMMA SignInElsewhere ==
  ASSUME Jobs, NEW s \in Slots, SignInStep(s)
  PROVE  Elsewhere(s)
<1>1. ASSUME Stay(s) PROVE OnlyTokenHandles(s)
  BY <1>1 DEF Stay, Others, OnlyTokenHandles, Same
<1>2. \A j : (Signing(j) \/ j.op = "none") => ~Writes(j)
  BY DEF Signing, AccessOps, Writes
<1>3. ~Writes(Idle) /\ Idle.handle = "none"
  BY <1>2, IdleIs
<1>4. ASSUME Done(s), Signing(job[s]) PROVE Elsewhere(s)
  BY <1>1, <1>2, <1>3, <1>4, Finished DEF Elsewhere
<1>5. ASSUME Jobs', Advanced(s), job'[s].handle \in {job[s].handle, "auth"}
      PROVE  Elsewhere(s)
  BY <1>1, <1>2, <1>5 DEF Elsewhere, Advanced, Same, Signing
<1>6. ASSUME NEW p \in Stages, Signing(job[s]), Belongs(job[s].op, p), Step(s, p)
      PROVE  Elsewhere(s)
  BY <1>5, <1>6, SignInSteps
<1>7. ASSUME NEW p \in Stages, NEW a, Signing(job[s]), Belongs(job[s].op, p),
             job' = WithPcArg(job, s, p, a)
      PROVE  Elsewhere(s)
  BY <1>5, <1>7, SignInSteps
<1>8. \A p \in {"load", "refresh", "forget", "truncate", "save"} :
         p \in Stages /\ (job[s].op \in AccessOps => Belongs(job[s].op, p))
  BY DEF Belongs, Stages
<1>9. \A p \in {"exchange", "truncate", "save", "clear"} :
         p \in Stages /\ (job[s].op = "login" => Belongs(job[s].op, p))
  BY DEF Belongs, Stages
<1>10. job[s].op \in AccessOps \/ job[s].op = "login" => Signing(job[s])
  BY DEF Signing
<1>11. CASE TurnArrives(s)
  BY <1>1, <1>2, <1>11, NewTurn DEF Fresh, Signing, AccessOps, Elsewhere
<1>12. CASE ValidateArrives(s) \/ ModelsArrives(s)
  <2>1. PICK op \in {"validate", "models"} : Ephemeral(s, op)
    BY <1>12 DEF ValidateArrives, ModelsArrives
  <2> QED BY <1>1, <1>2, <1>3, <2>1, NewEphemeral DEF Fresh, Signing, AccessOps, Elsewhere
<1>13. CASE LoginArrives(s)
  BY <1>1, <1>2, <1>3, <1>13, NewLogin DEF Fresh, Signing, Elsewhere
<1>14. CASE Enter(s)
  <2>1. job[s].op \in AccessOps /\ Step(s, "load")
    BY <1>14 DEF Enter, AtAccess
  <2> QED BY <1>6, <1>8, <1>10, <2>1
<1>15. CASE LoadToken(s)
  <2>1. job[s].op \in AccessOps
        /\ (Done(s) \/ \E a : job' = WithPcArg(job, s, "refresh", a))
    BY <1>15 DEF LoadToken, AtAccess, Leave, WithPcArg
  <2> QED BY <1>4, <1>7, <1>8, <1>10, <2>1
<1>16. CASE Refresh(s)
  <2>1. job[s].op \in AccessOps
        /\ (Step(s, "forget") \/ \E a : job' = WithPcArg(job, s, "truncate", a))
    BY <1>16 DEF Refresh, AtAccess, WithPcArg
  <2> QED BY <1>6, <1>7, <1>8, <1>10, <2>1
<1>17. CASE RefreshFails(s)
  <2>1. job[s].op \in AccessOps /\ Step(s, "forget")
    BY <1>17 DEF RefreshFails, AtAccess
  <2> QED BY <1>6, <1>8, <1>10, <2>1
<1>18. CASE SignOut(s)
  <2>1. Drift(s, RemovedHandles) => OnlyTokenHandles(s)
    BY DEF Drift, RemovedHandles, OnlyTokenHandles
  <2> QED BY <1>2, <1>18, <2>1, SignedOut DEF Fresh, Elsewhere
<1>19. CASE Truncate(s)
  <2>1. job[s].pc = "truncate" /\ job' = WithPcHandle(job, s, "save", "auth")
    BY <1>19 DEF Truncate, WithPcHandle
  <2>2. job[s].op \in AccessOps \/ job[s].op = "login"
    BY <2>1 DEF Jobs, Placed, Belongs, Persists
  <2>3. "auth" \in Handles
    BY DEF Handles
  <2>4. Jobs' /\ Advanced(s) /\ job'[s].handle = "auth"
    BY <1>8, <1>9, <1>10, <2>1, <2>2, <2>3, SignInSteps
  <2> QED BY <1>5, <2>4
<1>20. CASE SaveRefreshed(s) \/ SaveFails(s)
  <2>1. job[s].op \in AccessOps /\ Done(s)
    BY <1>20 DEF SaveRefreshed, SaveFails, AtAccess, Leave
  <2> QED BY <1>4, <1>10, <2>1
<1>21. CASE Callback(s)
  <2>1. job[s].op = "login" /\ Step(s, "exchange")
    BY <1>21 DEF Callback, At
  <2> QED BY <1>6, <1>9, <1>10, <2>1
<1>22. CASE CallbackFails(s) \/ ExchangeFails(s) \/ SaveSignIn(s) \/ SignInNotSaved(s)
  <2>1. job[s].op = "login" /\ Step(s, "clear")
    BY <1>22 DEF CallbackFails, ExchangeFails, SaveSignIn, SignInNotSaved, At
  <2> QED BY <1>6, <1>9, <1>10, <2>1
<1>23. CASE Exchange(s)
  <2>1. job[s].op = "login" /\ \E a : job' = WithPcArg(job, s, "truncate", a)
    BY <1>23 DEF Exchange, At, WithPcArg
  <2> QED BY <1>7, <1>9, <1>10, <2>1
<1>24. CASE ClearPending(s)
  <2>1. job[s].op = "login" /\ Done(s)
    BY <1>24 DEF ClearPending, At
  <2> QED BY <1>4, <1>10, <2>1
<1> QED BY <1>11, <1>12, <1>13, <1>14, <1>15, <1>16, <1>17, <1>18, <1>19, <1>20, <1>21,
           <1>22, <1>23, <1>24 DEF SignInStep

-----------------------------------------------------------------------------
(* The requests that pair, up to the answer on their code. *)

LEMMA Issued ==
  ASSUME Jobs, NEW s \in Slots, Issue(s)
  PROVE  Jobs' /\ Stay(s) /\ job[s].op = "none" /\ job'[s] = Idle /\ up
<1>1. Idle \in JobOf({Config0}, {0}) /\ Belongs(Idle.op, Idle.pc)
  BY IdleIs DEF Belongs
<1> QED BY <1>1, Arrived DEF Issue

LEMMA NewPair ==
  ASSUME Jobs, NEW s \in Slots, PairArrives(s)
  PROVE  Jobs' /\ Stay(s) /\ job[s].op = "none" /\ Fresh(job'[s], "pair", "check") /\ up
<1>1. PICK c : Arrive(s, "pair", [Idle EXCEPT !.op = "pair", !.pc = "check", !.arg = c])
  BY DEF PairArrives
<1>2. PICK j : j = [Idle EXCEPT !.op = "pair", !.pc = "check", !.arg = c]
  OBVIOUS
<1>3. j \in JobOf({Config0}, {0, c}) /\ Fresh(j, "pair", "check")
  BY <1>2 DEF Idle, JobOf, Stages, Handles, Ops, Fresh
<1>4. Arrive(s, "pair", j)
  BY <1>1, <1>2
<1>5. Belongs(j.op, j.pc)
  BY <1>3 DEF Belongs, Fresh
<1> QED BY <1>3, <1>4, <1>5, Arrived

LEMMA PairSteps ==
  ASSUME Jobs, NEW s \in Slots, job[s].op = "pair",
         NEW p \in {"redeem", "record", "forgive"}, Step(s, p)
  PROVE  Jobs' /\ Stay(s) /\ Same(job[s], job'[s]) /\ job'[s].pc = p
         /\ job'[s].handle = job[s].handle
<1>1. Belongs(job[s].op, p) /\ p \in Stages
  BY DEF Belongs, Stages
<1> QED BY <1>1, Stepped

LEMMA AcceptedPair ==
  ASSUME Jobs, NEW s \in Slots, PairSucceeds(s)
  PROVE  /\ Jobs' /\ Stay(s) /\ job[s].op = "pair" /\ job[s].pc = "forgive" /\ up
         /\ \/ job'[s].op = "pair" /\ job'[s].pc = "origin" /\ job'[s].handle = job[s].handle
            \/ job'[s] = Idle
<1>1. job[s].op = "pair" /\ job[s].pc = "forgive" /\ up
  BY DEF PairSucceeds, At
<1>2. \/ job' = WithPcArg(job, s, "origin", 0)
      \/ Done(s)
  BY DEF PairSucceeds, WithPcArg
<1>3. Belongs(job[s].op, "origin") /\ "origin" \in Stages
  BY <1>1 DEF Belongs, Persists, Stages
<1> QED BY <1>1, <1>2, <1>3, SteppedWithArg, Finished DEF Same

Codes(j) == j.op \in {"none", "pair"}

LEMMA PairingElsewhere ==
  ASSUME Jobs, NEW s \in Slots, PairingStep(s)
  PROVE  Jobs' /\ Stay(s) /\ Codes(job[s]) /\ Codes(job'[s])
<1>1. Codes(Idle)
  BY IdleIs DEF Codes
<1>2. CASE Issue(s)
  BY <1>1, <1>2, Issued DEF Codes
<1>3. CASE PairArrives(s)
  BY <1>3, NewPair DEF Fresh, Codes
<1>4. CASE PairSucceeds(s)
  BY <1>1, <1>4, AcceptedPair DEF Codes
<1>5. CASE PairChecks(s) \/ Redeem(s) \/ PairFails(s)
  <2>1. job[s].op = "pair" /\ (Done(s) \/ \E p \in {"redeem", "record", "forgive"} : Step(s, p))
    BY <1>5 DEF PairChecks, Redeem, PairFails, At
  <2>2. CASE Done(s)
    BY <1>1, <2>1, <2>2, Finished DEF Codes
  <2>3. CASE \E p \in {"redeem", "record", "forgive"} : Step(s, p)
    BY <2>1, <2>3, PairSteps DEF Codes, Same
  <2> QED BY <2>1, <2>2, <2>3
<1> QED BY <1>2, <1>3, <1>4, <1>5 DEF PairingStep

-----------------------------------------------------------------------------
(* The one-time codes: the store holds the codes issued and not redeemed, with their *)
(* expiry; a guess that passed the ledger is counted before it fails. *)

Guess(t) == job[t].op = "pair" /\ job[t].pc \in {"redeem", "record"}
Guesses  == {t \in Slots : Guess(t)}

CodeTypes ==
  /\ clock \in Nat /\ issued \in Seq(Nat) /\ redeemed \in Seq(Nat \X Nat)
  /\ ledger \in [count : Nat, first : Nat]

CodesAreCounted ==
  /\ DOMAIN codes \subseteq 1 .. Len(issued)
  /\ \A c \in DOMAIN codes : codes[c] = issued[c] + TTL

Redeemed(i) ==
  /\ redeemed[i][1] \in 1 .. Len(issued) /\ redeemed[i][1] \notin DOMAIN codes
  /\ redeemed[i][2] <= issued[redeemed[i][1]] + TTL
  /\ \A j \in DOMAIN redeemed : redeemed[i][1] = redeemed[j][1] => i = j

RedeemedAreGone == \A i \in DOMAIN redeemed : Redeemed(i)

FailuresAreCounted ==
  ledger.count + Cardinality(Guesses) <= MaxFailures + Cardinality(Slots) - 1

CodeInv == Jobs /\ CodeTypes /\ CodesAreCounted /\ RedeemedAreGone /\ FailuresAreCounted

LEMMA FewGuesses ==
  /\ Cardinality(Slots) \in Nat
  /\ \A S : S \subseteq Slots =>
       /\ IsFiniteSet(S) /\ Cardinality(S) \in Nat /\ Cardinality(S) <= Cardinality(Slots)
       /\ \A T : T \subseteq S => Cardinality(T) <= Cardinality(S)
       /\ \A x \in S : Cardinality(S \ {x}) = Cardinality(S) - 1
<1>1. IsFiniteSet(Slots)
  BY SettingsAssumption
<1>2. \A S : S \subseteq Slots => IsFiniteSet(S) /\ Cardinality(S) <= Cardinality(Slots)
  BY <1>1, FS_Subset
<1>3. \A S : S \subseteq Slots => Cardinality(S) \in Nat
  BY <1>2, FS_CardinalityType
<1>4. \A S, T : S \subseteq Slots /\ T \subseteq S => Cardinality(T) <= Cardinality(S)
  BY <1>2, FS_Subset
<1>5. \A S, x : S \subseteq Slots /\ x \in S => Cardinality(S \ {x}) = Cardinality(S) - 1
  BY <1>2, FS_RemoveElement
<1> QED BY <1>2, <1>3, <1>4, <1>5


LEMMA JobsInit ==
  ASSUME job = [s \in Slots |-> Idle]
  PROVE  Jobs
<1>1. Idle \in JobOf({Config0}, {0}) /\ Belongs(Idle.op, Idle.pc)
  BY IdleIs DEF Belongs
<1>2. job \in [Slots -> JobOf({Config0}, {0})]
  BY <1>1
<1>3. Table(job, {Config0}, {0})
  BY <1>2 DEF Table
<1>4. Placed
  BY <1>1 DEF Placed
<1> QED BY <1>3, <1>4 DEF Jobs

LEMMA NoGuess ==
  ASSUME job = [s \in Slots |-> Idle], ledger = NoFailures
  PROVE  FailuresAreCounted
<1>1. Guesses = {}
  BY IdleIs DEF Guesses, Guess
<1>2. Cardinality(Guesses) = 0
  BY <1>1, FS_EmptySet
<1>3. ledger.count = 0
  BY DEF NoFailures
<1> QED BY <1>2, <1>3, FewGuesses, PairingAssumption DEF FailuresAreCounted

LEMMA CodesInit == ASSUME Init PROVE CodeInv
<1>1. job = [s \in Slots |-> Idle]
  BY DEF Init, SettingsInit
<1>2. codes = << >> /\ issued = << >> /\ ledger = NoFailures /\ clock = 0 /\ redeemed = << >>
  BY DEF Init, PairingInit
<1>3. Jobs /\ FailuresAreCounted
  BY <1>1, <1>2, JobsInit, NoGuess
<1>4. CodeTypes
  BY <1>2 DEF CodeTypes, NoFailures
<1>5. CodesAreCounted /\ RedeemedAreGone
  BY <1>2 DEF CodesAreCounted, RedeemedAreGone
<1> QED BY <1>3, <1>4, <1>5 DEF CodeInv

LEMMA GuessesFewer ==
  ASSUME FailuresAreCounted, ledger.count \in Nat, Guesses' \subseteq Guesses,
         ledger'.count \in Nat, ledger'.count <= ledger.count
  PROVE  FailuresAreCounted'
<1>1. Guesses \subseteq Slots
  BY DEF Guesses
<1>2. /\ Cardinality(Guesses') <= Cardinality(Guesses)
      /\ Cardinality(Guesses) \in Nat /\ Cardinality(Guesses') \in Nat
      /\ Cardinality(Slots) \in Nat
  BY <1>1, FewGuesses
<1> QED BY <1>2, PairingAssumption DEF FailuresAreCounted

LEMMA CodesUntouched ==
  ASSUME CodeInv, Jobs', Guesses' \subseteq Guesses, UNCHANGED pairingVars
  PROVE  CodeInv'
<1>1. UNCHANGED <<codes, issued, ledger, clock, redeemed>>
  BY DEF pairingVars
<1>2. CodeTypes' /\ CodesAreCounted' /\ RedeemedAreGone'
  BY <1>1 DEF CodeInv, CodeTypes, CodesAreCounted, RedeemedAreGone, Redeemed
<1>3. FailuresAreCounted'
  BY <1>1, GuessesFewer DEF CodeInv, CodeTypes
<1> QED BY <1>2, <1>3 DEF CodeInv

(* Requests of the other groups make no guess. *)
LEMMA NoNewGuess ==
  ASSUME Jobs, NEW s \in Slots, SettingsStep(s) \/ SignInStep(s)
  PROVE  Jobs' /\ Guesses' \subseteq Guesses
<1>1. \A j : j.op = "pair" /\ j.pc \in {"redeem", "record"} => Coding(j)
  BY DEF Coding, Persists
<1>2. CASE SettingsStep(s)
  <2>1. Jobs' /\ LeavesOthers
    BY <1>2, SettingsLeaveOthers
  <2>2. ASSUME NEW t \in Slots, Guess(t)' PROVE Guess(t)
    <3>1. Coding(job'[t])
      BY <1>1, <2>2 DEF Guess
    <3>2. Kept(t)
      BY <2>1, <3>1 DEF LeavesOthers
    <3> QED BY <2>2, <3>2 DEF Kept, Same, Guess
  <2> QED BY <2>1, <2>2 DEF Guesses
<1>3. CASE SignInStep(s)
  <2>1. Elsewhere(s)
    BY <1>3, SignInElsewhere
  <2>2. ASSUME NEW t \in Slots, Guess(t)' PROVE Guess(t)
    <3>1. Writes(job'[t])
      BY <2>2 DEF Guess, Writes
    <3>2. t # s
      BY <2>1, <3>1 DEF Elsewhere
    <3> QED BY <2>1, <2>2, <3>2 DEF Elsewhere, OnlyTokenHandles, Same, Guess
  <2> QED BY <2>1, <2>2 DEF Guesses, Elsewhere
<1> QED BY <1>2, <1>3

LEMMA StayGuesses ==
  ASSUME NEW s \in Slots, Stay(s), Guess(s)' => Guess(s)
  PROVE  Guesses' \subseteq Guesses
BY DEF Stay, Others, Guesses, Guess

LEMMA CodesIssued ==
  ASSUME CodeInv, NEW s \in Slots, Issue(s)
  PROVE  CodeInv'
<1>1. Jobs' /\ Stay(s) /\ job'[s] = Idle
  BY Issued DEF CodeInv
<1>2. Guesses' \subseteq Guesses
  BY <1>1, StayGuesses, IdleIs DEF Guess
<1>3. /\ issued' = Append(issued, clock) /\ UNCHANGED <<ledger, clock, redeemed>>
      /\ codes' = [c \in Pruned \cup {Len(issued')} |-> issued'[c] + TTL]
  BY DEF Issue
<1>4. /\ issued' \in Seq(Nat) /\ Len(issued') = Len(issued) + 1 /\ Len(issued) \in Nat
      /\ \A c \in 1 .. Len(issued) : issued'[c] = issued[c]
  BY <1>3 DEF CodeInv, CodeTypes
<1>5. Pruned \subseteq 1 .. Len(issued)
  BY DEF Pruned, CodeInv, CodesAreCounted
<1>6. CodeTypes' /\ CodesAreCounted'
  <2>1. CodeTypes'
    BY <1>3, <1>4 DEF CodeInv, CodeTypes
  <2>2. DOMAIN codes' = Pruned \cup {Len(issued')}
    BY <1>3
  <2>3. \A c \in DOMAIN codes' : codes'[c] = issued'[c] + TTL
    BY <1>3
  <2>4. DOMAIN codes' \subseteq 1 .. Len(issued')
    <3>1. 1 .. Len(issued) \subseteq 1 .. Len(issued') /\ Len(issued') \in 1 .. Len(issued')
      BY <1>4
    <3> QED BY <1>5, <2>2, <3>1
  <2> QED BY <2>1, <2>3, <2>4 DEF CodesAreCounted
<1>7. RedeemedAreGone'
  <2>1. ASSUME NEW i \in DOMAIN redeemed PROVE Redeemed(i)'
    <3>1. /\ redeemed[i][1] \in 1 .. Len(issued) /\ redeemed[i][1] \notin DOMAIN codes
          /\ redeemed[i][2] <= issued[redeemed[i][1]] + TTL
          /\ \A j \in DOMAIN redeemed : redeemed[i][1] = redeemed[j][1] => i = j
      BY <2>1 DEF CodeInv, RedeemedAreGone, Redeemed
    <3>2. DOMAIN codes' = Pruned \cup {Len(issued) + 1}
      BY <1>3, <1>4
    <3>3. redeemed[i][1] \notin DOMAIN codes'
      BY <3>1, <3>2, <1>4 DEF Pruned
    <3> QED BY <1>3, <1>4, <3>1, <3>3 DEF Redeemed
  <2> QED BY <1>3, <2>1 DEF RedeemedAreGone
<1>8. FailuresAreCounted'
  BY <1>2, <1>3, GuessesFewer DEF CodeInv, CodeTypes
<1> QED BY <1>1, <1>6, <1>7, <1>8 DEF CodeInv

LEMMA CodesChecked ==
  ASSUME CodeInv, NEW s \in Slots, PairChecks(s)
  PROVE  CodeInv'
<1> DEFINE kept == IF Lapsed(ledger) THEN NoFailures ELSE ledger
<1>1. /\ job[s].op = "pair" /\ job[s].pc = "check" /\ ledger' = kept
      /\ IF OverLimit(kept) THEN Done(s) ELSE Step(s, "redeem")
      /\ UNCHANGED <<codes, issued, clock, redeemed>>
  BY DEF PairChecks, At
<1>2. /\ ledger \in [count : Nat, first : Nat] /\ kept \in [count : Nat, first : Nat]
      /\ kept.count <= ledger.count /\ (kept.count = 0 \/ ~Lapsed(ledger))
  BY DEF CodeInv, CodeTypes, NoFailures
<1>3. Jobs' /\ Stay(s)
  BY <1>1, Finished, PairSteps DEF CodeInv
<1>4. CodeTypes' /\ CodesAreCounted' /\ RedeemedAreGone'
  BY <1>1, <1>2 DEF CodeInv, CodeTypes, CodesAreCounted, RedeemedAreGone, Redeemed
<1>5. CASE OverLimit(kept)
  <2>1. job'[s] = Idle
    BY <1>1, <1>5, Finished DEF CodeInv
  <2>2. Guesses' \subseteq Guesses
    BY <1>3, <2>1, StayGuesses, IdleIs DEF Guess
  <2>3. FailuresAreCounted'
    BY <1>1, <1>2, <2>2, GuessesFewer DEF CodeInv
  <2> QED BY <1>3, <1>4, <2>3 DEF CodeInv
<1>6. CASE ~OverLimit(kept)
  <2>1. ledger'.count < MaxFailures
    <3>1. kept.count < MaxFailures \/ Lapsed(kept)
      BY <1>2, <1>6, PairingAssumption DEF OverLimit
    <3>2. Lapsed(kept) => kept.count = 0
      BY <1>2 DEF Lapsed, NoFailures
    <3> QED BY <1>1, <3>1, <3>2, PairingAssumption
  <2>2. Guesses' \subseteq Slots
    BY DEF Guesses
  <2>3. /\ Cardinality(Guesses') \in Nat /\ Cardinality(Slots) \in Nat
        /\ Cardinality(Guesses') <= Cardinality(Slots)
    BY <2>2, FewGuesses
  <2>4. ledger'.count \in Nat
    BY <1>1, <1>2
  <2>5. FailuresAreCounted'
    BY <2>1, <2>3, <2>4, PairingAssumption DEF FailuresAreCounted
  <2> QED BY <1>3, <1>4, <2>5 DEF CodeInv
<1> QED BY <1>5, <1>6

LEMMA CodesRedeemed ==
  ASSUME CodeInv, NEW s \in Slots, Redeem(s)
  PROVE  CodeInv'
<1> DEFINE c == job[s].arg
<1>1. /\ job[s].op = "pair" /\ job[s].pc = "redeem"
      /\ codes' = [x \in Pruned \ {c} |-> codes[x]]
      /\ UNCHANGED <<issued, ledger, clock>>
  BY DEF Redeem, At, Restricted, Remaining
<1>2. \/ Alive(c) /\ Step(s, "forgive") /\ redeemed' = Append(redeemed, <<c, clock>>)
      \/ Step(s, "record") /\ redeemed' = redeemed
  BY DEF Redeem
<1>3. Jobs' /\ Stay(s)
  BY <1>1, <1>2, PairSteps DEF CodeInv
<1>4. Guesses' \subseteq Guesses
  BY <1>1, <1>3, StayGuesses DEF Guess
<1>5. FailuresAreCounted'
  BY <1>1, <1>4, GuessesFewer DEF CodeInv, CodeTypes
<1>6. DOMAIN codes' = Pruned \ {c} /\ Pruned \subseteq DOMAIN codes /\ DOMAIN codes \subseteq 1 .. Len(issued)
  BY <1>1 DEF Pruned, CodeInv, CodesAreCounted
<1>7. CodesAreCounted'
  BY <1>1, <1>6 DEF CodeInv, CodesAreCounted
<1>8. CASE redeemed' = redeemed
  BY <1>1, <1>3, <1>5, <1>6, <1>7, <1>8
     DEF CodeInv, CodeTypes, RedeemedAreGone, Redeemed
<1>9. CASE Alive(c) /\ redeemed' = Append(redeemed, <<c, clock>>)
  <2>1. c \in 1 .. Len(issued) /\ c \in DOMAIN codes /\ issued[c] \in Nat /\ clock \in Nat
        /\ clock <= issued[c] + TTL
    <3>1. c \in DOMAIN codes /\ codes[c] >= clock
      BY <1>9 DEF Alive
    <3>2. c \in 1 .. Len(issued) /\ codes[c] = issued[c] + TTL
      BY <1>6, <3>1 DEF CodeInv, CodesAreCounted
    <3>3. issued[c] \in Nat /\ clock \in Nat
      BY <3>2 DEF CodeInv, CodeTypes
    <3> QED BY <3>1, <3>2, <3>3, PairingAssumption
  <2>2. <<c, clock>> \in Nat \X Nat
    BY <2>1
  <2>3. redeemed \in Seq(Nat \X Nat)
    BY DEF CodeInv, CodeTypes
  <2>4. /\ redeemed' \in Seq(Nat \X Nat) /\ DOMAIN redeemed' = 1 .. Len(redeemed) + 1
        /\ DOMAIN redeemed = 1 .. Len(redeemed) /\ Len(redeemed) \in Nat
        /\ \A i \in DOMAIN redeemed : redeemed'[i] = redeemed[i]
        /\ redeemed'[Len(redeemed) + 1] = <<c, clock>>
    BY <1>9, <2>2, <2>3
  <2>5. \A i \in DOMAIN redeemed : redeemed[i][1] # c
    BY <2>1 DEF CodeInv, RedeemedAreGone, Redeemed
  <2>6. ASSUME NEW i \in DOMAIN redeemed' PROVE Redeemed(i)'
    <3>1. CASE i \in DOMAIN redeemed
      <4>1. Redeemed(i)
        BY <3>1 DEF CodeInv, RedeemedAreGone
      <4>2. redeemed'[i] = redeemed[i]
        BY <2>4, <3>1
      <4>3. /\ redeemed'[i][1] \in 1 .. Len(issued') /\ redeemed'[i][1] \notin DOMAIN codes'
            /\ redeemed'[i][2] <= issued'[redeemed'[i][1]] + TTL
        BY <1>1, <1>6, <4>1, <4>2 DEF Redeemed
      <4>4. ASSUME NEW j \in DOMAIN redeemed', redeemed'[i][1] = redeemed'[j][1] PROVE i = j
        <5>1. CASE j \in DOMAIN redeemed
          BY <2>4, <4>1, <4>2, <4>4, <5>1 DEF Redeemed
        <5>2. CASE j = Len(redeemed) + 1
          BY <2>4, <2>5, <3>1, <4>2, <4>4, <5>2
        <5> QED BY <2>4, <5>1, <5>2
      <4> QED BY <4>3, <4>4 DEF Redeemed
    <3>2. CASE i = Len(redeemed) + 1
      <4>1. redeemed'[i][1] = c /\ redeemed'[i][2] = clock
        BY <2>4, <3>2
      <4>2. \A j \in DOMAIN redeemed' : redeemed'[i][1] = redeemed'[j][1] => i = j
        BY <2>4, <2>5, <3>2, <4>1, SMTT(30)
      <4> QED BY <1>1, <1>6, <2>1, <4>1, <4>2 DEF Redeemed
    <3> QED BY <2>4, <3>1, <3>2
  <2>7. RedeemedAreGone' /\ CodeTypes'
    BY <1>1, <2>4, <2>6 DEF RedeemedAreGone, CodeInv, CodeTypes
  <2> QED BY <1>3, <1>5, <1>7, <2>7 DEF CodeInv
<1> QED BY <1>2, <1>8, <1>9

LEMMA CodesFailed ==
  ASSUME CodeInv, NEW s \in Slots, PairFails(s)
  PROVE  CodeInv'
<1>1. /\ job[s].op = "pair" /\ job[s].pc = "record" /\ ledger' = Recorded(ledger) /\ Done(s)
      /\ UNCHANGED <<codes, issued, clock, redeemed>>
  BY DEF PairFails, At
<1>2. Jobs' /\ Stay(s) /\ job'[s] = Idle
  BY <1>1, Finished DEF CodeInv
<1>3. /\ ledger \in [count : Nat, first : Nat] /\ clock \in Nat
      /\ ledger' \in [count : Nat, first : Nat] /\ ledger'.count <= ledger.count + 1
  <2>1. ledger \in [count : Nat, first : Nat] /\ clock \in Nat
    BY DEF CodeInv, CodeTypes
  <2>2. CASE Lapsed(ledger)
    BY <1>1, <2>1, <2>2 DEF Recorded
  <2>3. CASE ~Lapsed(ledger)
    <3>1. ledger' = [ledger EXCEPT !.count = ledger.count + 1]
      BY <1>1, <2>3 DEF Recorded
    <3> QED BY <2>1, <3>1
  <2> QED BY <2>1, <2>2, <2>3
<1>4. CodeTypes' /\ CodesAreCounted' /\ RedeemedAreGone'
  BY <1>1, <1>3 DEF CodeInv, CodeTypes, CodesAreCounted, RedeemedAreGone, Redeemed
<1>5. FailuresAreCounted'
  <2>1. Guesses' \subseteq Guesses \ {s} /\ s \in Guesses
    BY <1>1, <1>2, IdleIs DEF Stay, Others, Guesses, Guess
  <2>2. Guesses \subseteq Slots
    BY DEF Guesses
  <2>3. /\ Cardinality(Guesses \ {s}) = Cardinality(Guesses) - 1
        /\ Cardinality(Guesses) \in Nat /\ Cardinality(Slots) \in Nat
    BY <2>1, <2>2, FewGuesses
  <2>4. Cardinality(Guesses') <= Cardinality(Guesses \ {s}) /\ Cardinality(Guesses') \in Nat
    BY <2>1, <2>2, FewGuesses
  <2>5. ledger.count \in Nat /\ ledger'.count \in Nat
    BY <1>3
  <2> QED BY <1>3, <2>3, <2>4, <2>5, PairingAssumption DEF CodeInv, FailuresAreCounted
<1> QED BY <1>2, <1>4, <1>5 DEF CodeInv

LEMMA CodesForgiven ==
  ASSUME CodeInv, NEW s \in Slots, PairSucceeds(s)
  PROVE  CodeInv'
<1>1. Jobs' /\ Stay(s) /\ (job'[s].pc = "origin" \/ job'[s] = Idle)
  BY AcceptedPair DEF CodeInv
<1>2. ledger' = NoFailures /\ UNCHANGED <<codes, issued, clock, redeemed>>
  BY DEF PairSucceeds
<1>3. Guesses' \subseteq Guesses
  BY <1>1, StayGuesses, IdleIs DEF Guess
<1>4. CodeTypes' /\ CodesAreCounted' /\ RedeemedAreGone'
  BY <1>2 DEF CodeInv, CodeTypes, CodesAreCounted, RedeemedAreGone, Redeemed, NoFailures
<1>5. ledger.count \in Nat /\ ledger'.count = 0
  BY <1>2 DEF CodeInv, CodeTypes, NoFailures
<1>6. FailuresAreCounted'
  BY <1>3, <1>5, GuessesFewer DEF CodeInv
<1> QED BY <1>1, <1>4, <1>6 DEF CodeInv

LEMMA CodesPaired ==
  ASSUME CodeInv, NEW s \in Slots, PairingStep(s)
  PROVE  CodeInv'
<1>1. CASE PairArrives(s)
  <2>1. Jobs' /\ Stay(s) /\ job'[s].pc = "check"
    BY <1>1, NewPair DEF CodeInv, Fresh
  <2>2. Guesses' \subseteq Guesses
    BY <2>1, StayGuesses DEF Guess
  <2>3. UNCHANGED pairingVars
    BY <1>1 DEF PairArrives
  <2> QED BY <2>1, <2>2, <2>3, CodesUntouched
<1> QED BY <1>1, CodesIssued, CodesChecked, CodesRedeemed, CodesFailed, CodesForgiven
        DEF PairingStep

LEMMA CodesCrashed ==
  ASSUME CodeInv, Crash
  PROVE  CodeInv'
<1>1. /\ job' = [s \in Slots |-> Idle] /\ codes' = << >> /\ ledger' = NoFailures
      /\ UNCHANGED <<issued, clock, redeemed>>
  BY DEF Crash
<1>2. Jobs' /\ FailuresAreCounted'
  <2>1. (job = [s \in Slots |-> Idle] /\ ledger = NoFailures => Jobs /\ FailuresAreCounted)'
    BY JobsInit, NoGuess, PTL
  <2> QED BY <1>1, <2>1
<1>3. CodeTypes' /\ CodesAreCounted'
  BY <1>1 DEF CodeInv, CodeTypes, CodesAreCounted, NoFailures
<1>4. RedeemedAreGone'
  BY <1>1 DEF CodeInv, RedeemedAreGone, Redeemed
<1> QED BY <1>2, <1>3, <1>4 DEF CodeInv

LEMMA CodesTicked ==
  ASSUME CodeInv, Tick
  PROVE  CodeInv'
<1>1. clock' = clock + 1 /\ UNCHANGED <<job, codes, issued, ledger, redeemed>>
  BY DEF Tick
<1>2. Jobs'
  BY <1>1 DEF CodeInv, Jobs, Placed
<1>3. Guesses' \subseteq Guesses
  BY <1>1 DEF Guesses, Guess
<1>4. CodeTypes' /\ CodesAreCounted' /\ RedeemedAreGone'
  BY <1>1 DEF CodeInv, CodeTypes, CodesAreCounted, RedeemedAreGone, Redeemed
<1>5. FailuresAreCounted'
  BY <1>1, <1>3, GuessesFewer DEF CodeInv, CodeTypes
<1> QED BY <1>2, <1>4, <1>5 DEF CodeInv

LEMMA CodesNext ==
  ASSUME CodeInv, [Next]_vars
  PROVE  CodeInv'
<1>1. ASSUME NEW s \in Slots, SettingsStep(s) \/ SignInStep(s) PROVE CodeInv'
  <2>1. UNCHANGED pairingVars
    BY <1>1 DEF SettingsStep, SignInStep
  <2>2. Jobs' /\ Guesses' \subseteq Guesses
    BY <1>1, NoNewGuess DEF CodeInv
  <2> QED BY <2>1, <2>2, CodesUntouched
<1>2. ASSUME UNCHANGED job, UNCHANGED pairingVars PROVE CodeInv'
  <2>1. Jobs' /\ Guesses' \subseteq Guesses
    BY <1>2 DEF CodeInv, Jobs, Placed, Guesses, Guess
  <2> QED BY <1>2, <2>1, CodesUntouched
<1>3. CASE Boot
  BY <1>2, <1>3 DEF Boot
<1>4. CASE Expire /\ UNCHANGED pairingVars
  BY <1>2, <1>4 DEF Expire
<1>5. CASE UNCHANGED vars
  BY <1>2, <1>5 DEF vars
<1> QED BY <1>1, <1>3, <1>4, <1>5, CodesPaired, CodesCrashed, CodesTicked DEF Next

\* A pairing code pairs one extension and within its lifetime, and however many guesses of
\* one source overlap, each request under way adds at most one failure beyond the limit
\* (pairing.rs, redeem_from: the ledger's lock is released before the code is looked up).
THEOREM CodesOnce == Spec => []CodesAreOneTime
<1>1. CodeInv => CodesAreOneTime
  <2>1. ASSUME CodeInv PROVE CodesAreOneTime
    <3>1. Guesses \subseteq Slots
      BY DEF Guesses
    <3>2. Cardinality(Guesses) \in Nat /\ Cardinality(Slots) \in Nat
      BY <3>1, FewGuesses
    <3>3. ledger.count \in Nat
      BY <2>1 DEF CodeInv, CodeTypes
    <3>4. ledger.count <= MaxFailures + Cardinality(Slots) - 1
      BY <2>1, <3>2, <3>3, PairingAssumption DEF CodeInv, FailuresAreCounted
    <3> QED BY <2>1, <3>4 DEF CodeInv, RedeemedAreGone, Redeemed, CodesAreOneTime
  <2> QED BY <2>1
<1> QED BY <1>1, CodesInit, CodesNext, PTL DEF Spec

-----------------------------------------------------------------------------
(* The configuration: what a patch that was checked makes of a sound one. *)

Sound(c) ==
  /\ Builds(c) /\ LimitsFit([limits |-> c.limits])
  /\ c = [provider |-> c.provider, limits |-> c.limits, origin |-> c.origin]

Alike(c, d) == c.provider = d.provider /\ c.limits = d.limits

Ranged(limits) == \A f \in DOMAIN limits \cap DOMAIN LimitRange : limits[f] \in LimitRange[f]

LEMMA FitIsRanged ==
  /\ \A L : LimitsFit([limits |-> L]) <=> Ranged(L)
  /\ \A body : LimitsFit(body) /\ Has(body, "limits") => Ranged(body.limits)
<1>1. ASSUME NEW L PROVE DOMAIN [limits |-> L] = {"limits"} /\ [limits |-> L].limits = L
  OBVIOUS
<1> QED BY <1>1 DEF LimitsFit, Ranged, Has

Triple(p, l, o) == [provider |-> p, limits |-> l, origin |-> o]

LEMMA TripleIs ==
  ASSUME NEW p, NEW l, NEW o
  PROVE  Triple(p, l, o).provider = p /\ Triple(p, l, o).limits = l /\ Triple(p, l, o).origin = o
BY DEF Triple

LEMMA SoundIs ==
  ASSUME NEW c
  PROVE  Sound(c) <=> /\ c = Triple(c.provider, c.limits, c.origin)
                      /\ c.provider.kind \in Kinds /\ Ranged(c.limits)
BY FitIsRanged DEF Sound, Triple, Builds

LEMMA OriginIsSound ==
  ASSUME NEW c, Sound(c), NEW o
  PROVE  Sound([c EXCEPT !.origin = o]) /\ Alike([c EXCEPT !.origin = o], c)
<1>1. PICK p, l, q : c = Triple(p, l, q) /\ p.kind \in Kinds /\ Ranged(l)
  BY SoundIs
<1>2. [c EXCEPT !.origin = o] = Triple(p, l, o)
  BY <1>1 DEF Triple
<1>3. Sound(Triple(p, l, o))
  BY <1>1, TripleIs, SoundIs
<1>4. Alike(Triple(p, l, o), c)
  BY <1>1, TripleIs DEF Alike
<1> QED BY <1>2, <1>3, <1>4

LEMMA AlikeButOrigin ==
  ASSUME NEW c, NEW d, Sound(c), Sound(d), Alike(c, d)
  PROVE  [c EXCEPT !.origin = ""] = [d EXCEPT !.origin = ""]
<1>1. PICK p, l, o : c = Triple(p, l, o)
  BY SoundIs
<1>2. PICK q, m, r : d = Triple(q, m, r)
  BY SoundIs
<1>3. p = q /\ l = m
  BY <1>1, <1>2, TripleIs DEF Alike
<1>4. PICK e : e = ""
  OBVIOUS
<1>5. [c EXCEPT !.origin = e] = Triple(p, l, e)
  BY <1>1 DEF Triple
<1>6. [d EXCEPT !.origin = e] = Triple(q, m, e)
  BY <1>2 DEF Triple
<1> QED BY <1>3, <1>4, <1>5, <1>6

LEMMA CandidateIsSound ==
  ASSUME NEW c, Sound(c), NEW body, LimitsFit(body),
         Has(body, "provider") => Builds(Candidate(c, body))
  PROVE  Sound(Candidate(c, body))
<1> DEFINE d == ApplyProviderPatch(c, body)
<1>1. PICK p, l, o : c = Triple(p, l, o) /\ p.kind \in Kinds /\ Ranged(l)
  BY SoundIs
<1>2. PICK q : d = Triple(q, l, o) /\ (~Has(body, "provider") => q = p)
  <2>1. CASE ~Has(body, "provider")
    BY <1>1, <2>1 DEF ApplyProviderPatch
  <2>2. CASE Has(body, "provider")
    <3>1. PICK q : d = [c EXCEPT !.provider = q]
      BY <2>2 DEF ApplyProviderPatch
    <3> HIDE DEF d
    <3>2. d = Triple(q, l, o)
      BY <1>1, <3>1 DEF Triple
    <3> QED BY <2>2, <3>2
  <2> QED BY <2>1, <2>2
<1>3. PICK m : /\ Candidate(c, body) = Triple(q, m, o) /\ Ranged(m)
  <2>1. CASE ~Has(body, "limits")
    BY <1>1, <1>2, <2>1 DEF Candidate, ApplyLimitsPatch
  <2>2. CASE Has(body, "limits")
    <3> DEFINE m == [f \in DOMAIN d.limits |->
                       IF f \in DOMAIN body.limits THEN body.limits[f] ELSE d.limits[f]]
    <3>1. Candidate(c, body) = [d EXCEPT !.limits = m]
      BY <2>2 DEF Candidate, ApplyLimitsPatch
    <3>2. d.limits = l
      BY <1>2, TripleIs
    <3>3. Ranged(body.limits)
      BY <2>2, FitIsRanged
    <3>4. Ranged(m)
      BY <1>1, <3>2, <3>3 DEF Ranged
    <3> HIDE DEF m, d
    <3>5. Candidate(c, body) = Triple(q, m, o)
      BY <1>2, <3>1 DEF Triple
    <3> QED BY <3>4, <3>5
  <2> QED BY <2>1, <2>2
<1>4. q.kind \in Kinds
  BY <1>1, <1>2, <1>3, TripleIs DEF Builds
<1>5. Sound(Triple(q, m, o))
  BY <1>3, <1>4, TripleIs, SoundIs
<1> QED BY <1>3, <1>5

-----------------------------------------------------------------------------
(* The configuration: one request at a time is at work on the file.  The lock orders the *)
(* posts; that pairings keep out is what SavesApart says of a state. *)

OnFile(t) == job[t].handle \in {"tmp", "file"}

Outside(t) == ~Saver(t) => ~OnFile(t) /\ configLock # t

Inside(t) ==
  Saver(t) =>
    /\ job[t].op = "post" <=> configLock = t
    /\ IF job[t].pc = "write" THEN job[t].handle = "tmp" ELSE ~OnFile(t)
    /\ Sound(job[t].cand)
    /\ job[t].op = "pair" => Alike(job[t].cand, config)
    /\ job[t].pc = "rename" => tmp = File("ok", job[t].cand)
    /\ job[t].pc = "commit" => file = File("ok", job[t].cand)

KeptIsSound ==
  /\ Loads(file) /\ Sound(Load(file)) /\ Sound(config)
  /\ up /\ (\A t \in Slots : job[t].pc # "commit") => Alike(Load(file), config)

DownIsIdle == ~up => configLock = Free /\ \A t \in Slots : job[t].op = "none"

ConfigInv ==
  /\ Jobs /\ configLock \in Slots \cup {Free}
  /\ SavesApart
  /\ \A t \in Slots : Outside(t) /\ Inside(t)
  /\ KeptIsSound /\ DownIsIdle

LEMMA OneSaver ==
  ASSUME ConfigInv, NEW s \in Slots, NEW t \in Slots, Saver(s), Saver(t)
  PROVE  s = t
<1>1. CASE job[s].op = "pair" \/ job[t].op = "pair"
  BY <1>1 DEF ConfigInv, SavesApart
<1>2. CASE job[s].op = "post" /\ job[t].op = "post"
  BY <1>2 DEF ConfigInv, Inside
<1> QED BY <1>1, <1>2 DEF Saver

LEMMA SaverPlaces ==
  Jobs => \A t \in Slots : job[t].pc \in {"open", "write", "rename", "commit"} => Saver(t)
BY DEF Jobs, Placed, Belongs, Saver, Persists

(* What a step leaves of a job it is not about: all but a handle, which it does not put on *)
(* the files of the configuration. *)
Bystands(t) ==
  /\ Same(job[t], job'[t]) /\ job'[t].pc = job[t].pc
  /\ OnFile(t)' => OnFile(t)

LEMMA Bystander ==
  ASSUME ConfigInv, NEW t \in Slots, ~Saver(t), Bystands(t), configLock' # t
  PROVE  ~Saver(t)' /\ Outside(t)' /\ Inside(t)'
BY DEF ConfigInv, Outside, Inside, Saver, Bystands, Same

(* A step of the one request at work on the file, or of one that begins to be. *)
LEMMA SaverSteps ==
  ASSUME ConfigInv, NEW s \in Slots, Jobs',
         \A t \in Slots \ {s} : ~Saver(t) /\ Bystands(t),
         configLock' \in {configLock, Free, s},
         (Outside(s) /\ Inside(s))', SavesApart', KeptIsSound', up'
  PROVE  ConfigInv'
<1>1. ASSUME NEW t \in Slots \ {s} PROVE (Outside(t) /\ Inside(t))'
  <2>1. configLock # t /\ Free # t
    BY <1>1, SettingsAssumption DEF ConfigInv, Outside
  <2> QED BY <1>1, <2>1, Bystander
<1>2. configLock' \in Slots \cup {Free}
  BY DEF ConfigInv
<1> QED BY <1>1, <1>2 DEF ConfigInv, DownIsIdle

LEMMA StayBystands ==
  ASSUME NEW s \in Slots, Stay(s)
  PROVE  \A t \in Slots \ {s} : Bystands(t)
BY DEF Stay, Others, Bystands, Same, OnFile

LEMMA DriftBystands ==
  ASSUME NEW s \in Slots, Drift(s, RenamedHandles)
  PROVE  \A t \in Slots \ {s} : Bystands(t)
BY DEF Drift, RenamedHandles, MovedTo, Bystands, OnFile

(* Requests that neither save the configuration nor begin to. *)
LEMMA Unconcerned ==
  ASSUME ConfigInv, Jobs', SavesApart', UNCHANGED <<config, configLock, file, tmp, up>>,
         up \/ UNCHANGED job,
         \A t \in Slots : \/ Bystands(t) /\ (job[t].handle = "tmp" => job'[t].handle = "tmp")
                          \/ ~Writes(job[t]) /\ ~Writes(job'[t]) /\ ~OnFile(t)'
  PROVE  ConfigInv'
<1>1. ASSUME NEW t \in Slots
      PROVE  /\ (Outside(t) /\ Inside(t))'
             /\ job[t].pc = "commit" <=> job'[t].pc = "commit"
  <2>1. Outside(t) /\ Inside(t)
    BY DEF ConfigInv
  <2>2. CASE Bystands(t) /\ (job[t].handle = "tmp" => job'[t].handle = "tmp")
    BY <2>1, <2>2 DEF Outside, Inside, Saver, Bystands, Same, OnFile
  <2>3. CASE ~Writes(job[t]) /\ ~Writes(job'[t]) /\ ~OnFile(t)'
    <3>1. ~Saver(t) /\ ~Saver(t)'
      BY <2>3 DEF Saver, Writes
    <3>2. job[t].pc # "commit" /\ job'[t].pc # "commit"
      BY <2>3 DEF ConfigInv, Jobs, Placed, Belongs, Writes
    <3> QED BY <2>1, <2>3, <3>1, <3>2 DEF Outside, Inside
  <2> QED BY <2>2, <2>3
<1>3. KeptIsSound'
  BY <1>1 DEF ConfigInv, KeptIsSound
<1>4. DownIsIdle'
  BY DEF ConfigInv, DownIsIdle
<1> QED BY <1>1, <1>3, <1>4 DEF ConfigInv

(* Nobody else is at work on the file while s is. *)
LEMMA OthersWait ==
  ASSUME ConfigInv, NEW s \in Slots, Saver(s)
  PROVE  \A t \in Slots \ {s} : ~Saver(t) /\ job[t].pc \notin {"open", "write", "rename", "commit"}
BY OneSaver, SaverPlaces DEF ConfigInv

LEMMA ConfigOpened ==
  ASSUME ConfigInv, SavesApart', NEW s \in Slots, NEW op \in {"post", "pair"}, Open(s, op)
  PROVE  ConfigInv'
<1>1. /\ Jobs' /\ Stay(s) /\ Same(job[s], job'[s]) /\ job[s].op = op /\ job[s].pc = "open"
      /\ job'[s].pc = "write" /\ job'[s].handle = "tmp" /\ file' = file
  BY OpenedFile DEF ConfigInv
<1>2. UNCHANGED <<config, configLock, up>> /\ up
  BY DEF Open, At
<1>3. Saver(s) /\ Inside(s) /\ Saver(s)'
  BY <1>1 DEF ConfigInv, Saver, Same, Persists
<1>4. \A t \in Slots \ {s} : ~Saver(t) /\ Bystands(t)
  BY <1>1, <1>3, OthersWait, StayBystands
<1>5. (Outside(s) /\ Inside(s))'
  BY <1>1, <1>2, <1>3 DEF Outside, Inside, Same
<1>7. KeptIsSound'
  BY <1>1, <1>2, <1>4 DEF ConfigInv, KeptIsSound, Bystands
<1> QED BY <1>1, <1>2, <1>4, <1>5, <1>7, SaverSteps

LEMMA ConfigWritten ==
  ASSUME ConfigInv, SavesApart', NEW s \in Slots, NEW op \in {"post", "pair"}, Write(s, op)
  PROVE  ConfigInv'
<1>1. /\ Jobs' /\ Stay(s) /\ Same(job[s], job'[s]) /\ job[s].op = op /\ job[s].pc = "write"
      /\ job'[s].pc = "rename" /\ job'[s].handle = "none"
  BY WrittenFile DEF ConfigInv
<1>2. Saver(s) /\ Inside(s) /\ Saver(s)'
  BY <1>1 DEF ConfigInv, Saver, Same, Persists
<1>3. job[s].handle = "tmp"
  BY <1>1, <1>2 DEF Inside
<1>4. /\ UNCHANGED <<config, configLock, up>> /\ up
      /\ tmp' = File("ok", job[s].cand) /\ file' = file
  BY <1>3 DEF Write, At
<1>5. \A t \in Slots \ {s} : ~Saver(t) /\ Bystands(t)
  BY <1>1, <1>2, OthersWait, StayBystands
<1>6. (Outside(s) /\ Inside(s))'
  BY <1>1, <1>2, <1>4 DEF Outside, Inside, Same, OnFile
<1>8. KeptIsSound'
  BY <1>1, <1>4, <1>5 DEF ConfigInv, KeptIsSound, Bystands
<1> QED BY <1>1, <1>4, <1>5, <1>6, <1>8, SaverSteps

LEMMA WholeFile ==
  ASSUME NEW c, Sound(c)
  PROVE  Loads(File("ok", c)) /\ Load(File("ok", c)) = c
BY DEF Loads, Load, File

LEMMA ConfigRenamed ==
  ASSUME ConfigInv, SavesApart', NEW s \in Slots, PostRenames(s) \/ PairRenames(s)
  PROVE  ConfigInv'
<1>1. /\ job[s].pc = "rename" /\ job[s].op \in {"post", "pair"} /\ Jobs'
      /\ Drift(s, RenamedHandles) /\ file' = tmp
  BY RenamedPost, RenamedPair DEF ConfigInv
<1>2. UNCHANGED <<config, configLock, up>> /\ up
  BY DEF PostRenames, PairRenames, Rename, At
<1>3. Saver(s) /\ Inside(s)
  BY <1>1 DEF ConfigInv, Saver
<1>4. tmp = File("ok", job[s].cand) /\ Sound(job[s].cand) /\ ~OnFile(s)
      /\ (job[s].op = "pair" => Alike(job[s].cand, config))
  BY <1>1, <1>3 DEF Inside
<1>5. Loads(file') /\ Load(file') = job[s].cand
  BY <1>1, <1>4, WholeFile
<1>6. \A t \in Slots \ {s} : ~Saver(t) /\ Bystands(t)
  BY <1>1, <1>3, OthersWait, DriftBystands
<1>7. CASE PostRenames(s)
  <2>1. /\ job[s].op = "post" /\ Same(job[s], job'[s]) /\ job'[s].pc = "commit"
        /\ job'[s].handle = MovedTo(job[s].handle)
    BY <1>7, RenamedPost DEF ConfigInv
  <2>2. ~OnFile(s)'
    BY <1>4, <2>1 DEF OnFile, MovedTo
  <2>3. (Outside(s) /\ Inside(s))'
    BY <1>1, <1>2, <1>3, <1>4, <2>1, <2>2 DEF Outside, Inside, Same, Saver
  <2>5. KeptIsSound'
    BY <1>2, <1>4, <1>5, <2>1 DEF ConfigInv, KeptIsSound
  <2> QED BY <1>1, <1>2, <1>6, <2>3, <2>5, SaverSteps
<1>8. CASE PairRenames(s)
  <2>1. job[s].op = "pair" /\ Fresh(job'[s], "none", "idle")
    BY <1>8, RenamedPair DEF ConfigInv
  <2>2. configLock # s
    BY <1>3, <2>1 DEF Inside
  <2>3. (Outside(s) /\ Inside(s))'
    BY <1>2, <2>1, <2>2 DEF Outside, Inside, Saver, OnFile, Fresh
  <2>5. KeptIsSound'
    BY <1>2, <1>4, <1>5, <2>1 DEF ConfigInv, KeptIsSound
  <2> QED BY <1>1, <1>2, <1>6, <2>3, <2>5, SaverSteps
<1> QED BY <1>7, <1>8

LEMMA ConfigNotSaved ==
  ASSUME ConfigInv, SavesApart', NEW s \in Slots, PostPersistFails(s) \/ PairPersistFails(s)
  PROVE  ConfigInv'
<1>1. /\ job[s].pc \in {"open", "write", "rename"} /\ job[s].op \in {"post", "pair"}
      /\ Done(s) /\ UNCHANGED <<config, file, up>> /\ up
      /\ configLock' = IF job[s].op = "post" THEN Free ELSE configLock
  BY DEF PostPersistFails, PairPersistFails, At
<1>2. Jobs' /\ Stay(s) /\ Fresh(job'[s], "none", "idle")
  BY <1>1, Finished, IdleIs DEF ConfigInv, Fresh
<1>3. Saver(s) /\ Inside(s)
  BY <1>1 DEF ConfigInv, Saver
<1>4. \A t \in Slots \ {s} : ~Saver(t) /\ Bystands(t)
  BY <1>2, <1>3, OthersWait, StayBystands
<1>5. configLock' # s
  BY <1>1, <1>3, SettingsAssumption DEF Inside
<1>6. (Outside(s) /\ Inside(s))'
  BY <1>2, <1>5 DEF Outside, Inside, Saver, OnFile, Fresh
<1>8. KeptIsSound'
  BY <1>1, <1>2, <1>4 DEF ConfigInv, KeptIsSound, Bystands, Fresh
<1> QED BY <1>1, <1>2, <1>4, <1>6, <1>8, SaverSteps

(* A step of a request that is not at work on the file, before or after. *)
LEMMA ElsewhereOnFile ==
  ASSUME ConfigInv, NEW s \in Slots, Jobs', Stay(s), ~Saver(s), ~Saver(s)', ~OnFile(s)',
         UNCHANGED <<config, configLock, file, tmp, up>>, up, SavesApart'
  PROVE  ConfigInv'
<1>1. (Outside(s) /\ Inside(s))'
  BY DEF ConfigInv, Outside, Inside
<1>2. ASSUME NEW t \in Slots \ {s} PROVE (Outside(t) /\ Inside(t))'
  BY <1>2 DEF ConfigInv, Outside, Inside, Saver, OnFile, Stay, Others
<1>3. job[s].pc # "commit" /\ job'[s].pc # "commit"
  <2>1. (Jobs => \A t \in Slots :
                    job[t].pc \in {"open", "write", "rename", "commit"} => Saver(t))'
    BY SaverPlaces, PTL
  <2> QED BY <2>1, SaverPlaces DEF ConfigInv
<1>4. KeptIsSound'
  BY <1>3 DEF ConfigInv, KeptIsSound, Stay, Others
<1> QED BY <1>1, <1>2, <1>4 DEF ConfigInv, DownIsIdle

LEMMA ConfigPosted ==
  ASSUME ConfigInv, SavesApart', NEW s \in Slots, PostArrives(s)
  PROVE  ConfigInv'
<1>1. /\ Jobs' /\ Stay(s) /\ job[s].op = "none" /\ up /\ Fresh(job'[s], "post", "lock")
  BY NewPost DEF ConfigInv
<1>2. UNCHANGED <<config, configLock, file, tmp, up>>
  BY DEF PostArrives, settingsVars
<1>3. ~Saver(s) /\ ~Saver(s)' /\ ~OnFile(s)'
  BY <1>1 DEF Saver, OnFile, Fresh
<1> QED BY <1>1, <1>2, <1>3, ElsewhereOnFile

LEMMA ConfigChecked ==
  ASSUME ConfigInv, SavesApart', NEW s \in Slots, PostChecks(s)
  PROVE  ConfigInv'
<1> DEFINE body == job[s].arg
           cand == Candidate(config, body)
<1>1. /\ Jobs' /\ Stay(s) /\ job[s].op = "post" /\ job[s].pc = "lock" /\ up
      /\ configLock = Free
      /\ \/ /\ LimitsFit(body) /\ (Has(body, "provider") => Builds(cand))
            /\ Fresh(job'[s], "post", "open") /\ job'[s].cand = cand
            /\ configLock' = s
         \/ job'[s] = Idle /\ UNCHANGED configLock
  BY CheckedPost DEF ConfigInv
<1>2. UNCHANGED <<config, file, tmp, up>>
  BY DEF PostChecks
<1>3. ~Saver(s) /\ ~OnFile(s) /\ Sound(config)
  BY <1>1 DEF ConfigInv, Outside, Saver, KeptIsSound
<1> HIDE DEF cand, body
<1>4. CASE Fresh(job'[s], "post", "open") /\ job'[s].cand = cand /\ configLock' = s
           /\ LimitsFit(body) /\ (Has(body, "provider") => Builds(cand))
  <2>1. Sound(cand)
    BY <1>3, <1>4, CandidateIsSound DEF cand
  <2>2. (Outside(s) /\ Inside(s))' /\ Saver(s)'
    BY <1>4, <2>1 DEF Outside, Inside, Saver, OnFile, Fresh
  <2>3. \A t \in Slots \ {s} : ~Saver(t) /\ Bystands(t)
    <3>1. \A t \in Slots \ {s} : job[t].op = "post" => ~Saver(t)
      BY <1>1, SettingsAssumption DEF ConfigInv, Inside
    <3>2. \A t \in Slots \ {s} : job[t].op = "pair" => ~Saver(t)
      BY <1>1, <2>2 DEF SavesApart, Saver, Stay, Others
    <3> QED BY <1>1, <3>1, <3>2, StayBystands DEF Saver
  <2>4. KeptIsSound'
    BY <1>1, <1>2, <1>4, <2>3 DEF ConfigInv, KeptIsSound, Bystands, Fresh
  <2> QED BY <1>1, <1>2, <1>4, <2>2, <2>3, <2>4, SaverSteps
<1>5. CASE job'[s] = Idle /\ UNCHANGED configLock
  <2>1. ~Saver(s)' /\ ~OnFile(s)'
    BY <1>5, IdleIs DEF Saver, OnFile
  <2> QED BY <1>1, <1>2, <1>3, <1>5, <2>1, ElsewhereOnFile
<1> QED BY <1>1, <1>4, <1>5

LEMMA ConfigCommitted ==
  ASSUME ConfigInv, SavesApart', NEW s \in Slots, PostCommits(s)
  PROVE  ConfigInv'
<1>1. /\ job[s].op = "post" /\ job[s].pc = "commit" /\ up /\ UNCHANGED <<file, tmp, up>>
      /\ config' = job[s].cand /\ configLock' = Free
      /\ Step(s, "swap") \/ Done(s)
  BY DEF PostCommits, At
<1>2. /\ Jobs' /\ Stay(s) /\ job'[s].pc \in {"swap", "idle"} /\ job'[s].op \in {"post", "none"}
      /\ job'[s].handle \in {job[s].handle, "none"}
  <2>1. Belongs(job[s].op, "swap") /\ "swap" \in Stages
    BY <1>1 DEF Belongs, Stages
  <2>2. CASE Step(s, "swap")
    BY <1>1, <2>1, <2>2, Stepped DEF ConfigInv, Same
  <2>3. CASE Done(s)
    BY <1>1, <2>3, Finished, IdleIs DEF ConfigInv
  <2> QED BY <1>1, <2>2, <2>3
<1>3. Saver(s) /\ Inside(s)
  BY <1>1 DEF ConfigInv, Saver
<1>4. Sound(job[s].cand) /\ file = File("ok", job[s].cand) /\ ~OnFile(s)
  BY <1>1, <1>3 DEF Inside
<1>5. Loads(file') /\ Load(file') = job[s].cand
  BY <1>1, <1>4, WholeFile
<1>6. \A t \in Slots \ {s} : ~Saver(t) /\ Bystands(t)
  BY <1>2, <1>3, OthersWait, StayBystands
<1>7. ~OnFile(s)' /\ ~Saver(s)'
  BY <1>2, <1>4 DEF OnFile, Saver
<1>8. (Outside(s) /\ Inside(s))'
  BY <1>1, <1>7, SettingsAssumption DEF Outside, Inside
<1>10. KeptIsSound'
  BY <1>1, <1>4, <1>5 DEF KeptIsSound, Alike
<1> QED BY <1>1, <1>2, <1>6, <1>8, <1>10, SaverSteps

LEMMA ConfigSwapped ==
  ASSUME ConfigInv, SavesApart', NEW s \in Slots, PostSwaps(s)
  PROVE  ConfigInv'
<1>1. /\ job[s].op = "post" /\ job[s].pc = "swap" /\ up /\ Done(s)
      /\ UNCHANGED <<config, configLock, file, tmp, up>>
  BY DEF PostSwaps, At
<1>2. Jobs' /\ Stay(s) /\ Fresh(job'[s], "none", "idle")
  BY <1>1, Finished, IdleIs DEF ConfigInv, Fresh
<1>3. ~Saver(s) /\ ~Saver(s)' /\ ~OnFile(s)'
  BY <1>1, <1>2 DEF Saver, OnFile, Fresh
<1> QED BY <1>1, <1>2, <1>3, ElsewhereOnFile

LEMMA ConfigOrigin ==
  ASSUME ConfigInv, SavesApart', NEW s \in Slots, PairSetsOrigin(s)
  PROVE  ConfigInv'
<1>1. /\ Jobs' /\ Stay(s) /\ job[s].op = "pair" /\ job[s].pc = "origin" /\ configLock = Free
      /\ config' = [config EXCEPT !.origin = "extension"]
      /\ job'[s].op = "pair" /\ job'[s].pc = "open" /\ job'[s].cand = config'
      /\ job'[s].handle = job[s].handle
  BY OriginSet DEF ConfigInv
<1>2. UNCHANGED <<configLock, file, tmp, up>> /\ up
  BY DEF PairSetsOrigin, At
<1>3. PICK c : c = config'
  OBVIOUS
<1>4. PICK e : e = "extension"
  OBVIOUS
<1>5. c = [config EXCEPT !.origin = e]
  BY <1>1, <1>3, <1>4
<1>6. Sound(c) /\ Alike(c, config)
  BY <1>5, OriginIsSound DEF ConfigInv, KeptIsSound
<1>7. ~Saver(s) /\ ~OnFile(s) /\ Saver(s)'
  BY <1>1 DEF ConfigInv, Outside, Saver
<1>8. \A t \in Slots \ {s} : ~Saver(t) /\ Bystands(t)
  BY <1>1, <1>7, StayBystands DEF SavesApart, Saver, Stay, Others
<1>9. job'[s].cand = c /\ config' = c /\ job'[s].op = "pair" /\ job'[s].pc = "open"
      /\ configLock' = Free /\ ~OnFile(s)'
  BY <1>1, <1>2, <1>3, <1>7 DEF OnFile
<1>10. (Outside(s) /\ Inside(s))'
  BY <1>6, <1>7, <1>9, SettingsAssumption DEF Outside, Inside, Alike
<1>12. KeptIsSound'
  BY <1>1, <1>2, <1>6, <1>8, <1>9 DEF ConfigInv, KeptIsSound, Bystands, Alike
<1>13. Jobs' /\ up' /\ configLock' \in {configLock, Free, s}
  BY <1>1, <1>2
<1> QED BY <1>8, <1>10, <1>12, <1>13, SaverSteps

LEMMA PairingSavesNothing ==
  ASSUME Jobs, NEW s \in Slots, PairingStep(s)
  PROVE  ~Saver(s)' /\ job'[s].handle \in {job[s].handle, "none"}
<1>1. CASE Issue(s) \/ PairArrives(s)
  BY <1>1, Issued, NewPair, IdleIs DEF Fresh, Saver
<1>2. CASE PairSucceeds(s)
  BY <1>2, AcceptedPair, IdleIs DEF Saver
<1>3. CASE PairChecks(s) \/ Redeem(s) \/ PairFails(s)
  <2>1. job[s].op = "pair" /\ (Done(s) \/ \E p \in {"redeem", "record", "forgive"} : Step(s, p))
    BY <1>3 DEF PairChecks, Redeem, PairFails, At
  <2>2. CASE Done(s)
    BY <2>2, Finished, IdleIs DEF Saver
  <2>3. CASE \E p \in {"redeem", "record", "forgive"} : Step(s, p)
    BY <2>1, <2>3, PairSteps DEF Same, Saver
  <2> QED BY <2>1, <2>2, <2>3
<1> QED BY <1>1, <1>2, <1>3 DEF PairingStep

LEMMA ConfigPaired ==
  ASSUME ConfigInv, SavesApart', NEW s \in Slots, PairingStep(s)
  PROVE  ConfigInv'
<1>1. Jobs' /\ Stay(s) /\ Codes(job[s]) /\ Codes(job'[s])
  BY PairingElsewhere DEF ConfigInv
<1>2. UNCHANGED <<config, configLock, file, tmp, up>>
  BY DEF PairingStep, Issue, PairArrives, PairChecks, Redeem, PairFails, PairSucceeds, settingsVars
<1>3. up /\ ~Saver(s)
  <2>1. CASE Issue(s) \/ PairArrives(s)
    BY <2>1, Issued, NewPair DEF ConfigInv, Saver
  <2>2. CASE PairChecks(s) \/ Redeem(s) \/ PairFails(s) \/ PairSucceeds(s)
    BY <2>2 DEF PairChecks, Redeem, PairFails, PairSucceeds, At, Saver
  <2> QED BY <2>1, <2>2 DEF PairingStep
<1>4. ~Saver(s)' /\ job'[s].handle \in {job[s].handle, "none"}
  BY PairingSavesNothing DEF ConfigInv
<1>5. ~OnFile(s)'
  BY <1>3, <1>4 DEF ConfigInv, Outside, OnFile
<1> QED BY <1>1, <1>2, <1>3, <1>4, <1>5, ElsewhereOnFile

LEMMA SignInIsUp ==
  ASSUME Jobs, NEW s \in Slots, SignInStep(s)
  PROVE  up
<1>1. CASE TurnArrives(s) \/ LoginArrives(s)
  BY <1>1, NewTurn, NewLogin
<1>2. CASE ValidateArrives(s) \/ ModelsArrives(s)
  BY <1>2, NewEphemeral DEF ValidateArrives, ModelsArrives
<1> QED BY <1>1, <1>2 DEF SignInStep, Enter, LoadToken, Refresh, RefreshFails, SignOut, Truncate,
           SaveRefreshed, SaveFails, Callback, CallbackFails, Exchange, ExchangeFails, SaveSignIn,
           SignInNotSaved, ClearPending, At, AtAccess

LEMMA ConfigSignedIn ==
  ASSUME ConfigInv, SavesApart', NEW s \in Slots, SignInStep(s)
  PROVE  ConfigInv'
<1>1. Elsewhere(s)
  BY SignInElsewhere DEF ConfigInv
<1>2. UNCHANGED <<config, configLock, file, tmp, up>>
  BY DEF SignInStep, TurnArrives, ValidateArrives, ModelsArrives, Ephemeral, Enter, LoadToken,
         Refresh, RefreshFails, SignOut, Truncate, SaveRefreshed, SaveFails, LoginArrives,
         Callback, CallbackFails, Exchange, ExchangeFails, SaveSignIn, SignInNotSaved,
         ClearPending, settingsVars
<1>3. up
  BY SignInIsUp DEF ConfigInv
<1>4. ~OnFile(s)'
  BY <1>1 DEF Elsewhere, ConfigInv, Outside, Saver, Writes, OnFile
<1>5. ASSUME NEW t \in Slots \ {s}
      PROVE  Bystands(t) /\ (job[t].handle = "tmp" => job'[t].handle = "tmp")
  <2>1. /\ Same(job[t], job'[t]) /\ job'[t].pc = job[t].pc
        /\ \/ job'[t].handle = job[t].handle
           \/ job[t].handle = "auth" /\ job'[t].handle = "gone"
    BY <1>1 DEF Elsewhere, OnlyTokenHandles
  <2>2. Bystands(t)
    BY <2>1 DEF Bystands, OnFile
  <2> QED BY <2>1, <2>2
<1> QED BY <1>1, <1>2, <1>3, <1>4, <1>5, Unconcerned DEF Elsewhere

LEMMA ConfigCrashed ==
  ASSUME ConfigInv, SavesApart', Crash
  PROVE  ConfigInv'
<1>1. /\ job' = [s \in Slots |-> Idle] /\ up' = FALSE /\ configLock' = Free
      /\ UNCHANGED <<config, file>>
  BY DEF Crash
<1>2. Jobs'
  <2>1. (job = [s \in Slots |-> Idle] => Jobs)'
    BY JobsInit, PTL
  <2> QED BY <1>1, <2>1
<1>3. \A t \in Slots : Fresh(job'[t], "none", "idle")
  BY <1>1, IdleIs DEF Fresh
<1>4. \A t \in Slots : ~Saver(t)' /\ ~OnFile(t)' /\ Free # t
  BY <1>3, SettingsAssumption DEF Saver, OnFile, Fresh
<1>5. \A t \in Slots : (Outside(t) /\ Inside(t))'
  BY <1>1, <1>4 DEF Outside, Inside
<1>7. KeptIsSound' /\ DownIsIdle'
  BY <1>1, <1>3 DEF ConfigInv, KeptIsSound, DownIsIdle, Fresh
<1> QED BY <1>1, <1>2, <1>5, <1>7 DEF ConfigInv

LEMMA ConfigBooted ==
  ASSUME ConfigInv, SavesApart', Boot
  PROVE  ConfigInv'
<1>1. ~up /\ config' = Load(file) /\ UNCHANGED <<job, configLock, file, tmp>> /\ up' = TRUE
  BY DEF Boot
<1>2. configLock = Free /\ \A t \in Slots : job[t].op = "none"
  BY <1>1 DEF ConfigInv, DownIsIdle
<1>3. Jobs'
  BY <1>1 DEF ConfigInv, Jobs, Placed
<1>4. \A t \in Slots : (Outside(t) /\ Inside(t))'
  BY <1>1, <1>2 DEF ConfigInv, Outside, Inside, Saver, OnFile
<1>5. KeptIsSound' /\ DownIsIdle'
  BY <1>1 DEF ConfigInv, KeptIsSound, DownIsIdle, Alike
<1> QED BY <1>1, <1>3, <1>4, <1>5 DEF ConfigInv

LEMMA ConfigStarts == ASSUME Init PROVE ConfigInv
<1>1. /\ job = [s \in Slots |-> Idle] /\ configLock = Free /\ file \in Files
      /\ config = Load(file) /\ up = TRUE
  BY DEF Init, SettingsInit
<1>2. Jobs /\ \A t \in Slots : Fresh(job[t], "none", "idle") /\ Free # t
  BY <1>1, JobsInit, IdleIs, SettingsAssumption DEF Fresh
<1>3. \A t \in Slots : ~Saver(t) /\ ~OnFile(t)
  BY <1>2 DEF Saver, OnFile, Fresh
<1>4. Loads(file) /\ Sound(Load(file))
  BY <1>1, FilesAssumption DEF Sound
<1> QED BY <1>1, <1>2, <1>3, <1>4 DEF ConfigInv, SavesApart, Outside, Inside,
           KeptIsSound, DownIsIdle, Alike

LEMMA ConfigNext ==
  ASSUME ConfigInv, SavesApart', [Next]_vars
  PROVE  ConfigInv'
<1>1. ASSUME UNCHANGED <<job, config, configLock, file, tmp, up>> PROVE ConfigInv'
  BY <1>1 DEF ConfigInv, Jobs, Placed, SavesApart, Outside, Inside, Saver, OnFile,
              KeptIsSound, DownIsIdle
<1>2. ASSUME NEW s \in Slots, SettingsStep(s) PROVE ConfigInv'
  <2>1. CASE PostOpens(s) \/ PairOpens(s) \/ PostWrites(s) \/ PairWrites(s)
    BY <2>1, ConfigOpened, ConfigWritten DEF PostOpens, PairOpens, PostWrites, PairWrites
  <2> QED BY <1>2, <2>1, ConfigPosted, ConfigChecked, ConfigRenamed, ConfigNotSaved,
             ConfigCommitted, ConfigSwapped, ConfigOrigin DEF SettingsStep
<1>3. CASE Tick \/ Expire
  BY <1>1, <1>3 DEF Tick, Expire, settingsVars
<1>4. CASE UNCHANGED vars
  BY <1>1, <1>4 DEF vars, settingsVars
<1> QED BY <1>2, <1>3, <1>4, ConfigPaired, ConfigSignedIn, ConfigCrashed, ConfigBooted DEF Next

\* As long as no pairing saves beside another request, review.toml is at every moment a whole
\* file that builds a provider, with its limits in range, and what is in memory once no post is
\* under way, wherever saving fails or the daemon dies (routes.rs, post_config and
\* persist_config_atomic).  The hypothesis is about the run, not the code: the code lets a
\* pairing save beside a post, and then only EveryFileIsAccepted is left.
THEOREM AcceptedIsKept == Spec => AcceptedIfApart
<1>1. ConfigInv => AcceptedSurvives
  <2>1. ASSUME ConfigInv PROVE AcceptedSurvives
    <3>1. Loads(file) /\ Sound(Load(file)) /\ Sound(config)
      BY <2>1 DEF ConfigInv, KeptIsSound
    <3>2. ASSUME up, configLock = Free
          PROVE  [Load(file) EXCEPT !.origin = ""] = [config EXCEPT !.origin = ""]
      <4>1. ASSUME NEW t \in Slots, job[t].pc = "commit" PROVE FALSE
        <5>1. Saver(t) /\ Inside(t)
          BY <2>1, <4>1, SaverPlaces DEF ConfigInv
        <5>2. job[t].op = "post"
          BY <4>1, <5>1 DEF Saver
        <5> QED BY <3>2, <5>1, <5>2, SettingsAssumption DEF Inside
      <4>2. Alike(Load(file), config)
        BY <2>1, <3>2, <4>1 DEF ConfigInv, KeptIsSound
      <4> QED BY <3>1, <4>2, AlikeButOrigin
    <3> QED BY <3>1, <3>2 DEF Sound, AcceptedSurvives
  <2> QED BY <2>1
<1> QED BY <1>1, ConfigStarts, ConfigNext, PTL DEF Spec, AcceptedIfApart

-----------------------------------------------------------------------------
(* The configuration, whoever saves beside whom: what is in the files, half written or not,  *)
(* came from a candidate that was checked, or is no file that parses.                        *)

Fine(f) == Loads(f) => Sound(Load(f))

FileInv ==
  /\ Jobs /\ Sound(config)
  /\ Fine(file) /\ (tmp # NoFile => Fine(tmp))
  /\ \A t \in Slots : Saver(t) => Sound(job[t].cand)

LEMMA WrittenIsFine ==
  /\ Fine(Torn)
  /\ \A c : Sound(c) => Fine(File("ok", c))
<1>1. ~Loads(Torn)
  BY DEF Torn, Loads, File
<1> QED BY <1>1, WholeFile DEF Fine

(* A step of one request, which leaves the candidates of the others alone. *)
LEMMA FileSteps ==
  ASSUME FileInv, NEW s \in Slots, Jobs', \A t \in Slots \ {s} : Bystands(t),
         Saver(s)' => Sound(job'[s].cand),
         Sound(config'), Fine(file'), tmp' # NoFile => Fine(tmp')
  PROVE  FileInv'
<1>1. ASSUME NEW t \in Slots \ {s} PROVE Saver(t)' => Sound(job'[t].cand)
  BY <1>1 DEF FileInv, Bystands, Same, Saver
<1> QED BY <1>1 DEF FileInv

LEMMA FilePosted ==
  ASSUME FileInv, NEW s \in Slots, PostArrives(s) \/ PostChecks(s)
  PROVE  FileInv'
<1>1. UNCHANGED <<config, file, tmp>>
  BY DEF PostArrives, PostChecks, settingsVars
<1>2. CASE PostArrives(s)
  <2>1. Jobs' /\ Stay(s) /\ ~Saver(s)'
    BY <1>2, NewPost DEF FileInv, Fresh, Saver
  <2> QED BY <1>1, <2>1, StayBystands, FileSteps DEF FileInv
<1>3. CASE PostChecks(s)
  <2> DEFINE body == job[s].arg
             cand == Candidate(config, body)
  <2>1. /\ Jobs' /\ Stay(s)
        /\ \/ /\ LimitsFit(body) /\ (Has(body, "provider") => Builds(cand))
              /\ job'[s].cand = cand
           \/ job'[s] = Idle
    BY <1>3, CheckedPost DEF FileInv
  <2> HIDE DEF body
  <2>2. Sound(config)
    BY DEF FileInv
  <2>3. Saver(s)' => Sound(job'[s].cand)
    <3>1. ~(Idle.op \in {"post", "pair"})
      BY IdleIs
    <3> QED BY <2>1, <2>2, <3>1, CandidateIsSound DEF Saver
  <2> HIDE DEF cand
  <2> QED BY <1>1, <2>1, <2>3, StayBystands, FileSteps DEF FileInv
<1> QED BY <1>2, <1>3

LEMMA FileWritten ==
  ASSUME FileInv, NEW s \in Slots, NEW op \in {"post", "pair"}, Open(s, op) \/ Write(s, op)
  PROVE  FileInv'
<1>1. Jobs' /\ Stay(s) /\ Same(job[s], job'[s]) /\ job[s].op = op /\ job[s].pc \in {"open", "write"}
  BY OpenedFile, WrittenFile DEF FileInv
<1>2. Sound(job[s].cand)
  BY <1>1 DEF FileInv, Saver
<1>3. config' = config
  BY DEF Open, Write
<1>4. Fine(file') /\ (tmp' # NoFile => Fine(tmp'))
  <2>1. CASE Open(s, op)
    BY <2>1, OpenedFile, WrittenIsFine DEF FileInv
  <2>2. CASE Write(s, op)
    <3>1. PICK w : w = File("ok", job[s].cand) /\ Fine(w)
      BY <1>2, WrittenIsFine
    <3>2. file' \in {file, w} /\ tmp' \in {tmp, w}
      BY <2>2, <3>1 DEF Write
    <3> QED BY <3>1, <3>2 DEF FileInv
  <2> QED BY <2>1, <2>2
<1> QED BY <1>1, <1>2, <1>3, <1>4, StayBystands, FileSteps DEF FileInv, Same

LEMMA FileRenamed ==
  ASSUME FileInv, NEW s \in Slots, PostRenames(s) \/ PairRenames(s)
  PROVE  FileInv'
<1>1. Jobs' /\ Drift(s, RenamedHandles) /\ Saver(s) /\ file' = tmp
  BY RenamedPost, RenamedPair DEF FileInv, Saver
<1>2. config' = config /\ tmp # NoFile /\ tmp' = NoFile
  BY DEF PostRenames, PairRenames, Rename, Target
<1>3. Saver(s)' => Sound(job'[s].cand)
  <2>1. CASE PostRenames(s)
    BY <1>1, <2>1, RenamedPost DEF FileInv, Same
  <2>2. CASE PairRenames(s)
    BY <2>2, RenamedPair DEF FileInv, Fresh, Saver
  <2> QED BY <2>1, <2>2
<1> QED BY <1>1, <1>2, <1>3, DriftBystands, FileSteps DEF FileInv

LEMMA FileCommitted ==
  ASSUME FileInv, NEW s \in Slots,
         PostPersistFails(s) \/ PairPersistFails(s) \/ PostCommits(s) \/ PostSwaps(s)
  PROVE  FileInv'
<1>1. /\ (Step(s, "swap") /\ job[s].op = "post") \/ Done(s)
      /\ UNCHANGED <<file, tmp>>
      /\ \/ config' = config
         \/ config' = job[s].cand /\ job[s].op = "post" /\ job[s].pc = "commit"
  BY DEF PostPersistFails, PairPersistFails, PostCommits, PostSwaps, At
<1>2. Jobs' /\ Stay(s) /\ ~Saver(s)'
  <2>1. CASE Step(s, "swap") /\ job[s].op = "post"
    <3>1. Belongs(job[s].op, "swap") /\ "swap" \in Stages
      BY <2>1 DEF Belongs, Stages
    <3> QED BY <2>1, <3>1, Stepped DEF FileInv, Same, Saver
  <2>2. CASE Done(s)
    BY <2>2, Finished, IdleIs DEF FileInv, Saver
  <2> QED BY <1>1, <2>1, <2>2
<1>3. Sound(config')
  BY <1>1 DEF FileInv, Saver
<1> QED BY <1>1, <1>2, <1>3, StayBystands, FileSteps DEF FileInv

LEMMA FileOrigin ==
  ASSUME FileInv, NEW s \in Slots, PairSetsOrigin(s)
  PROVE  FileInv'
<1>1. Jobs' /\ Stay(s) /\ config' = [config EXCEPT !.origin = "extension"]
      /\ job'[s].cand = config'
  BY OriginSet DEF FileInv
<1>2. PICK e : e = "extension"
  OBVIOUS
<1>3. Sound(config')
  BY <1>1, <1>2, OriginIsSound DEF FileInv
<1>4. UNCHANGED <<file, tmp>>
  BY DEF PairSetsOrigin
<1> QED BY <1>1, <1>3, <1>4, StayBystands, FileSteps DEF FileInv

LEMMA FilePaired ==
  ASSUME FileInv, NEW s \in Slots, PairingStep(s)
  PROVE  FileInv'
<1>1. Jobs' /\ Stay(s) /\ ~Saver(s)'
  BY PairingElsewhere, PairingSavesNothing DEF FileInv
<1>2. UNCHANGED <<config, file, tmp>>
  BY DEF PairingStep, Issue, PairArrives, PairChecks, Redeem, PairFails, PairSucceeds, settingsVars
<1> QED BY <1>1, <1>2, StayBystands, FileSteps DEF FileInv

LEMMA FileSignedIn ==
  ASSUME FileInv, NEW s \in Slots, SignInStep(s)
  PROVE  FileInv'
<1>1. Elsewhere(s)
  BY SignInElsewhere DEF FileInv
<1>2. UNCHANGED <<config, file, tmp>>
  BY DEF SignInStep, TurnArrives, ValidateArrives, ModelsArrives, Ephemeral, Enter, LoadToken,
         Refresh, RefreshFails, SignOut, Truncate, SaveRefreshed, SaveFails, LoginArrives,
         Callback, CallbackFails, Exchange, ExchangeFails, SaveSignIn, SignInNotSaved,
         ClearPending, settingsVars
<1>3. Jobs' /\ ~Saver(s)' /\ \A t \in Slots \ {s} : Bystands(t)
  BY <1>1 DEF Elsewhere, OnlyTokenHandles, Bystands, OnFile, Writes, Saver
<1> QED BY <1>2, <1>3, FileSteps DEF FileInv

LEMMA FileCrashed ==
  ASSUME FileInv, Crash \/ Boot
  PROVE  FileInv'
<1>1. CASE Crash
  <2>1. job' = [s \in Slots |-> Idle] /\ UNCHANGED <<config, file, tmp>>
    BY <1>1 DEF Crash
  <2>2. (job = [s \in Slots |-> Idle] => Jobs)'
    BY JobsInit, PTL
  <2>3. \A t \in Slots : ~Saver(t)'
    BY <2>1, IdleIs DEF Saver
  <2> QED BY <2>1, <2>2, <2>3 DEF FileInv
<1>2. CASE Boot
  <2>1. Loads(file) /\ config' = Load(file) /\ UNCHANGED <<job, file, tmp>>
    BY <1>2 DEF Boot
  <2> QED BY <2>1 DEF FileInv, Jobs, Placed, Fine, Saver
<1> QED BY <1>1, <1>2

LEMMA FileStarts == ASSUME Init PROVE FileInv
<1>1. /\ job = [s \in Slots |-> Idle] /\ file \in Files /\ config = Load(file) /\ tmp = NoFile
  BY DEF Init, SettingsInit
<1>2. Jobs /\ \A t \in Slots : ~Saver(t)
  BY <1>1, JobsInit, IdleIs DEF Saver
<1> QED BY <1>1, <1>2, FilesAssumption DEF FileInv, Fine, Sound

LEMMA FileNext ==
  ASSUME FileInv, [Next]_vars
  PROVE  FileInv'
<1>1. ASSUME UNCHANGED <<job, config, file, tmp>> PROVE FileInv'
  BY <1>1 DEF FileInv, Jobs, Placed, Saver
<1>2. ASSUME NEW s \in Slots, SettingsStep(s) PROVE FileInv'
  <2>1. CASE PostOpens(s) \/ PairOpens(s) \/ PostWrites(s) \/ PairWrites(s)
    BY <2>1, FileWritten DEF PostOpens, PairOpens, PostWrites, PairWrites
  <2> QED BY <1>2, <2>1, FilePosted, FileRenamed, FileCommitted, FileOrigin DEF SettingsStep
<1>3. CASE Tick \/ Expire
  BY <1>1, <1>3 DEF Tick, Expire, settingsVars
<1>4. CASE UNCHANGED vars
  BY <1>1, <1>4 DEF vars, settingsVars
<1> QED BY <1>2, <1>3, <1>4, FilePaired, FileSignedIn, FileCrashed DEF Next

\* Whatever pairings and posts do to each other's temporary file, and wherever saving fails or
\* the daemon dies, the configuration in memory and a review.toml that parses build a provider
\* and have their limits in range (routes.rs, post_config and pair).
THEOREM FilesAreAccepted == Spec => []EveryFileIsAccepted
<1>1. FileInv => EveryFileIsAccepted
  BY DEF FileInv, Fine, Sound, EveryFileIsAccepted
<1> QED BY <1>1, FileStarts, FileNext, PTL DEF Spec

-----------------------------------------------------------------------------
(* The sign-in: with one provider instance, no fault and no crash, one request at a time is *)
(* past the instance's mutex, it alone spends the token in memory, and what is being saved *)
(* is live and nowhere else. *)

Calm == faults = 0 /\ crashes = 0 /\ built = 1

Access(t)   == job[t].op \in AccessOps
SavesToken(t) == job[t].pc \in {"truncate", "save"}
Rotating    == \E t \in Slots : Access(t) /\ SavesToken(t)

OneInstance ==
  /\ up /\ provider.inst = 1
  /\ DOMAIN held = Instances /\ DOMAIN mutex = Instances /\ mutex[1] \in Slots \cup {Free}

TokensAreGranted ==
  /\ grants \in Nat /\ grants <= MaxGrants /\ live \subseteq 1 .. grants
  /\ held[1] \in 0 .. grants /\ auth \in (0 .. grants) \cup {Cut}

Uses(t) ==
  /\ Access(t) => job[t].inst = 1
  /\ job[t].op = "post" => job[t].inst = 0 /\ job[t].pc # "swap"
  /\ Access(t) /\ job[t].pc # "lock" <=> mutex[1] = t
  /\ job[t].pc # "forget"
  /\ job[t].pc = "refresh" => job[t].arg = held[1] /\ held[1] # NoToken

Saves(t) ==
  SavesToken(t) =>
    /\ job[t].arg \in live /\ job[t].arg # held[1] /\ job[t].arg # auth
    /\ job[t].pc = "save" => job[t].handle = "auth"
    /\ \A u \in Slots : SavesToken(u) /\ job[u].arg = job[t].arg => u = t

TokensAreLive ==
  /\ auth = Cut => \E t \in Slots : job[t].pc = "save"
  /\ ~Rotating => held[1] \in live \cup {NoToken} /\ auth \in live \cup {NoToken, Cut}

Peace ==
  /\ OneInstance /\ TokensAreGranted /\ TokensAreLive
  /\ \A t \in Slots : Uses(t) /\ Saves(t)

Counted == faults \in Nat /\ crashes \in Nat /\ built \in Nat \ {0}

SignInInv == Jobs /\ Counted /\ (Calm => Peace)

LEMMA OneIsAnInstance == 1 \in Instances /\ Cut \in Nat /\ Cut = MaxGrants + 1 /\ MaxGrants \in Nat
BY SignInAssumption DEF Instances, Cut

LEMMA SignInPlaces ==
  ASSUME Jobs, NEW t \in Slots
  PROVE  /\ job[t].pc \in {"load", "refresh", "forget", "truncate", "save"} => Signing(job[t])
         /\ Signing(job[t]) <=> Access(t) \/ job[t].op = "login"
         /\ job[t].op = "login" => job[t].pc \notin {"lock", "load", "refresh", "forget"}
         /\ job[t].op = "none" => job[t].pc = "idle" /\ ~Access(t)
         /\ Access(t) => job[t].pc \notin {"idle", "swap"} /\ job[t].op # "post"
BY DEF Jobs, Placed, Belongs, Signing, Access, AccessOps, Persists

LEMMA PeaceInit == ASSUME Init PROVE SignInInv
<1>1. job = [s \in Slots |-> Idle]
  BY DEF Init, SettingsInit
<1>2. Jobs /\ \A t \in Slots : Fresh(job[t], "none", "idle") /\ Free # t
  BY <1>1, JobsInit, IdleIs, SettingsAssumption DEF Fresh
<1>3. Counted
  BY DEF Init, SettingsInit, SignInInit, Counted
<1>4. \A t \in Slots : ~Access(t) /\ ~SavesToken(t) /\ job[t].op # "post"
      /\ job[t].pc \notin {"forget", "refresh"}
  BY <1>2 DEF Access, AccessOps, SavesToken, Fresh
<1>5. /\ up /\ provider.inst = 1 /\ held = [i \in Instances |-> NoToken]
      /\ mutex = [i \in Instances |-> Free] /\ grants = 1 /\ live = {1} /\ auth \in {NoToken, 1}
  BY DEF Init, SettingsInit, SignInInit, ProviderOf
<1>6. held[1] = NoToken /\ mutex[1] = Free
  BY <1>5, OneIsAnInstance
<1>7. OneInstance /\ TokensAreGranted /\ TokensAreLive
  BY <1>5, <1>6, OneIsAnInstance, SignInAssumption
     DEF OneInstance, TokensAreGranted, TokensAreLive, NoToken
<1>8. \A t \in Slots : Uses(t) /\ Saves(t)
  BY <1>2, <1>4, <1>6 DEF Uses, Saves
<1> QED BY <1>2, <1>3, <1>7, <1>8 DEF SignInInv, Peace

(* Steps that leave the sign-in alone. *)
LEMMA PeaceKept ==
  ASSUME Jobs, Jobs', Peace, UNCHANGED <<signInVars, up>>, provider'.inst = 1,
         \A t \in Slots : Signing(job[t]) \/ Signing(job'[t]) => Kept(t),
         \A t \in Slots : job'[t].op = "post" => job'[t].inst = 0 /\ job'[t].pc # "swap"
  PROVE  Peace'
<1>1. UNCHANGED <<auth, held, mutex, grants, live>>
  BY DEF signInVars
<1>2. OneInstance' /\ TokensAreGranted'
  BY <1>1 DEF Peace, OneInstance, TokensAreGranted
<1>3. ASSUME NEW t \in Slots
      PROVE  /\ Access(t)' <=> Access(t)
             /\ SavesToken(t)' <=> SavesToken(t)
             /\ job'[t].pc = "save" <=> job[t].pc = "save"
             /\ job'[t].pc = "refresh" <=> job[t].pc = "refresh"
             /\ job'[t].pc = "forget" <=> job[t].pc = "forget"
             /\ Signing(job[t]) => Kept(t)
  <2>1. /\ Access(t) => Signing(job[t])
        /\ job[t].pc \in {"refresh", "forget", "truncate", "save"} => Signing(job[t])
    BY SignInPlaces
  <2>2. /\ Access(t)' => Signing(job'[t])
        /\ job'[t].pc \in {"refresh", "forget", "truncate", "save"} => Signing(job'[t])
    BY DEF Jobs, Placed, Belongs, Signing, Access, Persists
  <2> QED BY <2>1, <2>2 DEF Kept, Same, Access, SavesToken
<1>4. \A t \in Slots : SavesToken(t) => Kept(t)
  BY <1>3, SignInPlaces DEF SavesToken
<1>5. TokensAreLive'
  BY <1>1, <1>3 DEF Peace, TokensAreLive, Rotating
<1>6. ASSUME NEW t \in Slots PROVE Uses(t)'
  BY <1>1, <1>3, SignInPlaces DEF Peace, Uses, Kept, Same
<1>7. ASSUME NEW t \in Slots PROVE Saves(t)'
  <2>1. Saves(t) /\ (SavesToken(t)' => SavesToken(t) /\ Kept(t))
    BY <1>3, <1>4 DEF Peace
  <2>2. \A u \in Slots : SavesToken(u)' => SavesToken(u) /\ job'[u].arg = job[u].arg
    BY <1>3, <1>4 DEF Kept
  <2> QED BY <1>1, <2>1, <2>2 DEF Saves, Kept, SavesToken
<1> QED BY <1>2, <1>5, <1>6, <1>7 DEF Peace

LEMMA PeaceOf ==
  ASSUME Peace, NEW s \in Slots, Stay(s),
         OneInstance', TokensAreGranted', TokensAreLive', Uses(s)',
         SavesToken(s)' => /\ job'[s].arg \in live' /\ job'[s].arg # held'[1]
                           /\ job'[s].arg # auth'
                           /\ job'[s].pc = "save" => job'[s].handle = "auth",
         \A t \in Slots \ {s} :
           /\ mutex'[1] = t <=> mutex[1] = t
           /\ job[t].pc = "refresh" => held'[1] = held[1]
           /\ SavesToken(t) => /\ job[t].arg \in live' /\ job[t].arg # held'[1]
                               /\ job[t].arg # auth'
                               /\ SavesToken(s)' => job'[s].arg # job[t].arg
  PROVE  Peace'
<1>1. ASSUME NEW t \in Slots \ {s} PROVE job'[t] = job[t]
  BY <1>1 DEF Stay, Others
<1>2. ASSUME NEW t \in Slots PROVE Uses(t)'
  <2>1. CASE t = s
    BY <2>1
  <2>2. CASE t # s
    BY <1>1, <2>2 DEF Peace, Uses, Access
  <2> QED BY <2>1, <2>2
<1>3. ASSUME NEW t \in Slots PROVE Saves(t)'
  <2>1. \A u \in Slots \ {s} : SavesToken(u)' <=> SavesToken(u)
    BY <1>1 DEF SavesToken
  <2>2. CASE t = s
    BY <1>1, <2>1, <2>2 DEF Saves
  <2>3. CASE t # s
    BY <1>1, <2>1, <2>3 DEF Peace, Saves
  <2> QED BY <2>2, <2>3
<1> QED BY <1>2, <1>3 DEF Peace

(* A step of a job that saves no token, neither before nor after, and leaves the tokens alone. *)
LEMMA PeaceQuiet ==
  ASSUME Peace, NEW s \in Slots, Stay(s), Uses(s)', ~SavesToken(s), ~SavesToken(s)',
         UNCHANGED <<auth, held, mutex, grants, live, up, provider>>
  PROVE  Peace'
<1>1. OneInstance' /\ TokensAreGranted'
  BY DEF Peace, OneInstance, TokensAreGranted
<1>2. Rotating' <=> Rotating
  BY DEF Rotating, Access, SavesToken, Stay, Others
<1>3. TokensAreLive'
  BY <1>2 DEF Peace, TokensAreLive, Stay, Others, SavesToken
<1>4. ASSUME NEW t \in Slots, SavesToken(t)
      PROVE  job[t].arg \in live /\ job[t].arg # held[1] /\ job[t].arg # auth
  BY <1>4 DEF Peace, Saves
<1> QED BY <1>1, <1>3, <1>4, PeaceOf

LEMMA OneAtATime ==
  ASSUME Peace, NEW s \in Slots, Access(s), job[s].pc # "lock"
  PROVE  /\ mutex[1] = s /\ job[s].inst = 1
         /\ \A t \in Slots : Access(t) /\ job[t].pc # "lock" => t = s
BY DEF Peace, Uses

LEMMA PeaceArrives ==
  ASSUME Jobs, Counted, Peace, NEW s \in Slots,
         \/ TurnArrives(s) \/ LoginArrives(s)
         \/ (ValidateArrives(s) \/ ModelsArrives(s)) /\ built' = built
  PROVE  Peace'
<1>1. /\ Stay(s) /\ job[s].op = "none"
      /\ \/ Fresh(job'[s], "turn", "lock") /\ job'[s].inst = provider.inst
         \/ Fresh(job'[s], "login", "callback")
         \/ job'[s] = Idle
  <2>1. CASE TurnArrives(s)
    BY <2>1, NewTurn
  <2>2. CASE LoginArrives(s)
    BY <2>2, NewLogin
  <2>3. CASE (ValidateArrives(s) \/ ModelsArrives(s)) /\ built' = built
    <3>1. PICK op \in {"validate", "models"} : Ephemeral(s, op)
      BY <2>3 DEF ValidateArrives, ModelsArrives
    <3>2. built # built + 1
      BY DEF Counted
    <3> QED BY <2>3, <3>1, <3>2, NewEphemeral
  <2> QED BY <2>1, <2>2, <2>3
<1>2. UNCHANGED <<auth, held, mutex, grants, live, up, provider>>
  BY DEF TurnArrives, LoginArrives, ValidateArrives, ModelsArrives, Ephemeral, signInVars,
         settingsVars
<1>3. mutex[1] # s /\ ~SavesToken(s) /\ provider.inst = 1
  BY <1>1, SignInPlaces DEF Peace, Uses, SavesToken, OneInstance
<1>4. Uses(s)' /\ ~SavesToken(s)'
  BY <1>1, <1>2, <1>3, IdleIs DEF Uses, SavesToken, Access, AccessOps, Fresh
<1> QED BY <1>1, <1>2, <1>3, <1>4, PeaceQuiet

LEMMA PeaceLogin ==
  ASSUME Jobs, Peace, NEW s \in Slots, Callback(s) \/ CallbackFails(s) \/ ClearPending(s)
  PROVE  Peace'
<1>1. /\ job[s].op = "login" /\ job[s].pc \in {"callback", "clear"}
      /\ Step(s, "exchange") \/ Step(s, "clear") \/ Done(s)
      /\ UNCHANGED <<auth, held, mutex, grants, live, up, provider>>
  BY DEF Callback, CallbackFails, ClearPending, At, signInVars, settingsVars
<1>2. \A p \in {"exchange", "clear"} : Belongs(job[s].op, p) /\ p \in Stages
  BY <1>1 DEF Belongs, Stages
<1>3. /\ Stay(s)
      /\ \/ Same(job[s], job'[s]) /\ job'[s].pc \in {"exchange", "clear"}
         \/ job'[s] = Idle
  BY <1>1, <1>2, Stepped, Finished
<1>4. ~Access(s) /\ ~Access(s)' /\ ~SavesToken(s) /\ ~SavesToken(s)'
  BY <1>1, <1>3, IdleIs DEF Access, AccessOps, SavesToken, Same
<1>5. mutex[1] # s
  BY <1>4 DEF Peace, Uses
<1>6. Uses(s)'
  BY <1>1, <1>3, <1>4, <1>5, IdleIs DEF Uses, Same
<1> QED BY <1>1, <1>3, <1>4, <1>6, PeaceQuiet

LEMMA PeaceEntered ==
  ASSUME Jobs, Peace, NEW s \in Slots, Enter(s)
  PROVE  Peace'
<1>1. /\ Access(s) /\ job[s].pc = "lock" /\ job[s].inst = 1
      /\ mutex[1] = Free /\ mutex' = [mutex EXCEPT ![1] = s] /\ Step(s, "load")
      /\ UNCHANGED <<auth, held, grants, live, up, provider>>
  BY DEF Enter, MayEnter, AtAccess, Access, Peace, Uses, settingsVars
<1>2. Belongs(job[s].op, "load") /\ "load" \in Stages
  BY <1>1 DEF Access, Belongs, Stages
<1>3. Stay(s) /\ Same(job[s], job'[s]) /\ job'[s].pc = "load"
  BY <1>1, <1>2, Stepped
<1>4. mutex'[1] = s /\ DOMAIN mutex' = Instances
  BY <1>1, OneIsAnInstance DEF Peace, OneInstance
<1>5. OneInstance' /\ TokensAreGranted'
  BY <1>1, <1>4 DEF Peace, OneInstance, TokensAreGranted
<1>6. ~SavesToken(s) /\ ~SavesToken(s)' /\ Access(s)'
  BY <1>1, <1>3 DEF SavesToken, Access, Same
<1>7. Uses(s)'
  BY <1>1, <1>3, <1>4, <1>6, SignInPlaces DEF Uses, Same
<1>8. Rotating' <=> Rotating
  BY <1>3, <1>6 DEF Rotating, Access, SavesToken, Stay, Others
<1>9. TokensAreLive'
  BY <1>1, <1>3, <1>6, <1>8 DEF Peace, TokensAreLive, Stay, Others, SavesToken
<1>10. ASSUME NEW t \in Slots, SavesToken(t)
       PROVE  job[t].arg \in live' /\ job[t].arg # held'[1] /\ job[t].arg # auth'
  BY <1>1, <1>10 DEF Peace, Saves
<1>11. \A t \in Slots \ {s} : mutex'[1] = t <=> mutex[1] = t
  BY <1>1, <1>4, SettingsAssumption
<1> QED BY <1>1, <1>3, <1>5, <1>6, <1>7, <1>9, <1>10, <1>11, PeaceOf

(* What is live while the one request inside has not spent the token. *)
LEMMA LiveInside ==
  ASSUME Jobs, Peace, NEW s \in Slots, Access(s), job[s].pc \in {"load", "refresh"}
  PROVE  ~Rotating /\ held[1] \in live \cup {NoToken} /\ auth \in live \cup {NoToken, Cut}
<1>1. ASSUME NEW t \in Slots, Access(t), SavesToken(t) PROVE FALSE
  <2>1. t = s
    BY <1>1, OneAtATime DEF SavesToken
  <2> QED BY <1>1, <2>1 DEF SavesToken
<1>2. ~Rotating
  BY <1>1 DEF Rotating
<1> QED BY <1>2 DEF Peace, TokensAreLive

(* A request that leaves the mutex. *)
LEMMA Left ==
  ASSUME Jobs, Peace, NEW s \in Slots, Access(s), job[s].pc # "lock", Leave(s)
  PROVE  /\ Jobs' /\ Stay(s) /\ job'[s] = Idle /\ mutex'[1] = Free /\ DOMAIN mutex' = Instances
         /\ \A t \in Slots \ {s} : mutex'[1] = t <=> mutex[1] = t
         /\ ~SavesToken(s)' /\ ~Access(s)' /\ Uses(s)'
<1>1. mutex[1] = s /\ job[s].inst = 1
  BY OneAtATime
<1>2. mutex' = [mutex EXCEPT ![1] = Free] /\ Done(s)
  BY <1>1 DEF Leave
<1>3. mutex'[1] = Free /\ DOMAIN mutex' = Instances
  BY <1>2, OneIsAnInstance DEF Peace, OneInstance
<1>4. Jobs' /\ Stay(s) /\ job'[s] = Idle
  BY <1>2, Finished
<1>5. \A t \in Slots : Free # t
  BY SettingsAssumption
<1>6. ~SavesToken(s)' /\ ~Access(s)'
  BY <1>4, IdleIs DEF SavesToken, Access, AccessOps
<1>7. Uses(s)'
  BY <1>3, <1>4, <1>5, <1>6, IdleIs DEF Uses
<1> QED BY <1>1, <1>3, <1>4, <1>5, <1>6, <1>7

LEMMA PeaceLoaded ==
  ASSUME Jobs, Peace, NEW s \in Slots, LoadToken(s)
  PROVE  Peace'
<1> DEFINE i == job[s].inst
           t == IF held[i] = NoToken THEN auth ELSE held[i]
<1>1. Access(s) /\ job[s].pc = "load" /\ job[s].inst = 1 /\ mutex[1] = s
  <2>1. Access(s) /\ job[s].pc = "load"
    BY DEF LoadToken, AtAccess, Access
  <2> QED BY <2>1, OneAtATime
<1>2. UNCHANGED <<auth, grants, live, up, provider>>
  BY DEF LoadToken, settingsVars
<1>3. ~Rotating /\ held[1] \in live \cup {NoToken} /\ auth \in live \cup {NoToken, Cut}
  BY <1>1, LiveInside
<1>4. PICK k : k = IF held[1] = NoToken THEN auth ELSE held[1]
  OBVIOUS
<1>5. \/ /\ k \in {NoToken, Cut} /\ Leave(s) /\ held' = held
      \/ /\ k \notin {NoToken, Cut} /\ held' = [held EXCEPT ![1] = k]
         /\ \/ job' = WithPcArg(job, s, "refresh", k) /\ mutex' = mutex
            \/ Leave(s)
  BY <1>1, <1>4 DEF LoadToken, WithPcArg
<1>6. \/ held'[1] = held[1]
      \/ held'[1] = auth /\ auth \in live
  <2>1. CASE held' = held
    BY <2>1
  <2>2. CASE k \notin {NoToken, Cut} /\ held' = [held EXCEPT ![1] = k]
    <3>1. held'[1] = k
      BY <2>2, OneIsAnInstance DEF Peace, OneInstance
    <3> QED BY <1>3, <1>4, <2>2, <3>1
  <2> QED BY <1>5, <2>1, <2>2
<1>7. DOMAIN held' = Instances
  BY <1>5 DEF Peace, OneInstance
<1>8. TokensAreGranted'
  BY <1>2, <1>6 DEF Peace, TokensAreGranted
<1>9. ASSUME NEW u \in Slots, SavesToken(u)
      PROVE  job[u].arg \in live' /\ job[u].arg # held'[1] /\ job[u].arg # auth'
  BY <1>2, <1>6, <1>9 DEF Peace, Saves
<1>10. ~SavesToken(s)
  BY <1>1 DEF SavesToken
<1>11. ASSUME Stay(s), ~SavesToken(s)' PROVE TokensAreLive'
  <2>1. ~Rotating'
    BY <1>3, <1>11 DEF Rotating, Access, SavesToken, Stay, Others
  <2> QED BY <1>1, <1>2, <1>3, <1>6, <1>11 DEF Peace, TokensAreLive, Stay, Others
<1>12. \A u \in Slots \ {s} : job[u].pc # "refresh"
  BY <1>1, OneAtATime, SignInPlaces
<1> HIDE DEF t, i
<1>13. CASE Leave(s)
  <2>1. /\ Stay(s) /\ job'[s] = Idle /\ mutex'[1] = Free /\ DOMAIN mutex' = Instances
        /\ \A u \in Slots \ {s} : mutex'[1] = u <=> mutex[1] = u
        /\ ~SavesToken(s)' /\ Uses(s)'
    BY <1>1, <1>13, Left
  <2>2. OneInstance'
    BY <1>2, <1>7, <2>1 DEF Peace, OneInstance
  <2> QED BY <1>8, <1>9, <1>11, <1>12, <2>1, <2>2, PeaceOf
<1>14. CASE /\ job' = WithPcArg(job, s, "refresh", k) /\ mutex' = mutex
            /\ k \notin {NoToken, Cut} /\ held' = [held EXCEPT ![1] = k]
  <2>1. Belongs(job[s].op, "refresh") /\ "refresh" \in Stages
    BY <1>1 DEF Access, Belongs, Stages
  <2>2. Stay(s) /\ Same(job[s], job'[s]) /\ job'[s].pc = "refresh" /\ job'[s].arg = k
    BY <1>14, <2>1, SteppedWithArg
  <2>3. held'[1] = k
    BY <1>14, OneIsAnInstance DEF Peace, OneInstance
  <2>4. ~SavesToken(s)' /\ Access(s)' /\ job'[s].op # "post"
    BY <1>1, <2>2, SignInPlaces DEF SavesToken, Access, Same
  <2>5. Uses(s)'
    BY <1>1, <1>14, <2>2, <2>3, <2>4 DEF Uses, Same
  <2>6. OneInstance'
    BY <1>2, <1>7, <1>14 DEF Peace, OneInstance
  <2> QED BY <1>8, <1>9, <1>11, <1>12, <1>14, <2>2, <2>4, <2>5, <2>6, PeaceOf
<1> QED BY <1>5, <1>13, <1>14

(* A fresh token: nobody has it yet. *)
LEMMA NewToken ==
  ASSUME Peace, grants < MaxGrants
  PROVE  /\ grants + 1 \in Nat /\ grants + 1 <= MaxGrants /\ grants + 1 # held[1]
         /\ grants + 1 # auth
         /\ \A t \in Slots : SavesToken(t) => job[t].arg # grants + 1
         /\ live \cup {grants + 1} \subseteq 1 .. (grants + 1)
         /\ held[1] \in 0 .. (grants + 1) /\ auth \in 0 .. (grants + 1) \cup {Cut}
<1>1. TokensAreGranted
  BY DEF Peace
<1>2. \A t \in Slots : SavesToken(t) => job[t].arg \in 1 .. grants
  BY <1>1 DEF Peace, Saves, TokensAreGranted
<1>3. grants \in Nat /\ MaxGrants \in Nat /\ Cut = MaxGrants + 1 /\ grants + 1 \in Nat
      /\ grants + 1 <= MaxGrants
  BY <1>1, OneIsAnInstance DEF TokensAreGranted
<1>4. PICK h, a : h = held[1] /\ a = auth
  OBVIOUS
<1>5. h \in 0 .. grants /\ a \in (0 .. grants) \cup {Cut}
  BY <1>1, <1>4 DEF TokensAreGranted
<1>6. /\ h # grants + 1 /\ h \in 0 .. (grants + 1)
      /\ a # grants + 1 /\ a \in 0 .. (grants + 1) \cup {Cut}
  BY <1>3, <1>5
<1>7. \A k \in 1 .. grants : k # grants + 1 /\ k \in 1 .. (grants + 1)
  BY <1>3
<1>8. live \cup {grants + 1} \subseteq 1 .. (grants + 1)
  <2>1. grants + 1 \in 1 .. (grants + 1)
    BY <1>3
  <2> QED BY <1>1, <1>7, <2>1 DEF TokensAreGranted
<1> QED BY <1>2, <1>3, <1>4, <1>6, <1>7, <1>8

LEMMA PeaceRefreshed ==
  ASSUME Jobs, Counted, Peace, NEW s \in Slots, Refresh(s), faults' = faults
  PROVE  Peace'
<1>1. /\ Access(s) /\ job[s].pc = "refresh" /\ job[s].arg \in live /\ grants < MaxGrants
      /\ grants' = grants + 1 /\ live' \in Granted(job[s].arg, grants')
      /\ job' = WithPcArg(job, s, "truncate", grants')
      /\ UNCHANGED <<auth, held, mutex, up, provider>>
  BY DEF Refresh, AtAccess, Access, Fault, Counted, WithPcArg, settingsVars
<1>2. mutex[1] = s /\ job[s].inst = 1
  BY <1>1, OneAtATime
<1>3. PICK g : g = grants + 1
  OBVIOUS
<1>4. /\ g \in Nat /\ g <= MaxGrants /\ g # held[1] /\ g # auth
      /\ \A t \in Slots : SavesToken(t) => job[t].arg # g
      /\ live \cup {g} \subseteq 1 .. g
      /\ held[1] \in 0 .. g /\ auth \in 0 .. g \cup {Cut}
  BY <1>1, <1>3, NewToken
<1>5. grants' = g /\ job[s].arg = held[1]
  BY <1>1, <1>3 DEF Peace, Uses
<1>6. g \in live' /\ live' \subseteq live \cup {g} /\ live \ {held[1]} \subseteq live'
  BY <1>1, <1>5 DEF Granted
<1>7. Belongs(job[s].op, "truncate") /\ "truncate" \in Stages
  BY <1>1 DEF Access, Belongs, Stages
<1>8. Stay(s) /\ Same(job[s], job'[s]) /\ job'[s].pc = "truncate" /\ job'[s].arg = g
  BY <1>1, <1>5, <1>7, SteppedWithArg
<1>9. OneInstance' /\ TokensAreGranted'
  BY <1>1, <1>4, <1>5, <1>6 DEF Peace, OneInstance, TokensAreGranted
<1>10. Access(s)' /\ SavesToken(s)' /\ job'[s].op # "post"
  BY <1>1, <1>8, SignInPlaces DEF SavesToken, Access, Same
<1>11. Uses(s)'
  BY <1>1, <1>2, <1>8, <1>10 DEF Uses, Same
<1>12. TokensAreLive'
  <2>1. Rotating'
    BY <1>10 DEF Rotating
  <2>2. auth = Cut => \E t \in Slots : job'[t].pc = "save"
    BY <1>1, <1>8 DEF Peace, TokensAreLive, Stay, Others
  <2> QED BY <1>1, <2>1, <2>2 DEF TokensAreLive
<1>13. ASSUME NEW t \in Slots, SavesToken(t)
       PROVE  /\ job[t].arg \in live' /\ job[t].arg # held'[1] /\ job[t].arg # auth'
              /\ job'[s].arg # job[t].arg
  BY <1>1, <1>4, <1>6, <1>8, <1>13 DEF Peace, Saves
<1> QED BY <1>1, <1>4, <1>6, <1>8, <1>9, <1>10, <1>11, <1>12, <1>13, PeaceOf

LEMMA PeaceExchanged ==
  ASSUME Jobs, Peace, NEW s \in Slots, Exchange(s)
  PROVE  Peace'
<1>1. /\ job[s].op = "login" /\ job[s].pc = "exchange" /\ grants < MaxGrants
      /\ grants' = grants + 1 /\ live' = live \cup {grants'}
      /\ job' = WithPcArg(job, s, "truncate", grants')
      /\ UNCHANGED <<auth, held, mutex, up, provider>>
  BY DEF Exchange, At, WithPcArg, settingsVars
<1>2. PICK g : g = grants + 1
  OBVIOUS
<1>3. /\ g \in Nat /\ g <= MaxGrants /\ g # held[1] /\ g # auth
      /\ \A t \in Slots : SavesToken(t) => job[t].arg # g
      /\ live \cup {g} \subseteq 1 .. g
      /\ held[1] \in 0 .. g /\ auth \in 0 .. g \cup {Cut}
  BY <1>1, <1>2, NewToken
<1>4. grants' = g /\ live' = live \cup {g}
  BY <1>1, <1>2
<1>5. Belongs(job[s].op, "truncate") /\ "truncate" \in Stages
  BY <1>1 DEF Belongs, Stages
<1>6. Stay(s) /\ Same(job[s], job'[s]) /\ job'[s].pc = "truncate" /\ job'[s].arg = g
  BY <1>1, <1>4, <1>5, SteppedWithArg
<1>7. OneInstance' /\ TokensAreGranted'
  BY <1>1, <1>3, <1>4 DEF Peace, OneInstance, TokensAreGranted
<1>8. ~Access(s) /\ ~Access(s)' /\ SavesToken(s)' /\ job'[s].op # "post"
  BY <1>1, <1>6 DEF SavesToken, Access, AccessOps, Same
<1>9. Uses(s)'
  BY <1>1, <1>6, <1>8 DEF Peace, Uses
<1>10. TokensAreLive'
  <2>1. Rotating' <=> Rotating
    BY <1>6, <1>8 DEF Rotating, Access, SavesToken, Stay, Others
  <2>2. auth = Cut => \E t \in Slots : job'[t].pc = "save"
    BY <1>1, <1>6 DEF Peace, TokensAreLive, Stay, Others
  <2> QED BY <1>1, <1>4, <2>1, <2>2 DEF Peace, TokensAreLive
<1>11. ASSUME NEW t \in Slots, SavesToken(t)
       PROVE  /\ job[t].arg \in live' /\ job[t].arg # held'[1] /\ job[t].arg # auth'
              /\ job'[s].arg # job[t].arg
  BY <1>1, <1>3, <1>4, <1>6, <1>11 DEF Peace, Saves
<1> QED BY <1>1, <1>3, <1>4, <1>6, <1>7, <1>8, <1>9, <1>10, <1>11, PeaceOf

LEMMA PeaceTruncated ==
  ASSUME Jobs, Peace, NEW s \in Slots, Truncate(s)
  PROVE  Peace'
<1>1. /\ job[s].pc = "truncate" /\ auth' = Cut /\ job' = WithPcHandle(job, s, "save", "auth")
      /\ UNCHANGED <<held, mutex, grants, live, up, provider>>
  BY DEF Truncate, WithPcHandle, settingsVars
<1>2. Belongs(job[s].op, "save") /\ "save" \in Stages /\ "auth" \in Handles
  BY <1>1 DEF Jobs, Placed, Belongs, Stages, Handles, Persists
<1>3. /\ Stay(s) /\ Same(job[s], job'[s]) /\ job'[s].pc = "save" /\ job'[s].handle = "auth"
      /\ job'[s].arg = job[s].arg
  BY <1>1, <1>2, SteppedWithHandle
<1>4. OneInstance' /\ TokensAreGranted'
  BY <1>1 DEF Peace, OneInstance, TokensAreGranted
<1>5. SavesToken(s) /\ SavesToken(s)' /\ (Access(s)' <=> Access(s)) /\ job[s].op # "post"
  BY <1>1, <1>3, SignInPlaces DEF SavesToken, Access, Same, Signing
<1>6. Uses(s)'
  BY <1>1, <1>3, <1>5 DEF Peace, Uses, Same
<1>7. TokensAreLive'
  <2>1. Rotating' <=> Rotating
    BY <1>3, <1>5 DEF Rotating, Access, SavesToken, Stay, Others
  <2> QED BY <1>1, <1>3, <2>1 DEF Peace, TokensAreLive
<1>8. ASSUME NEW t \in Slots, SavesToken(t)
      PROVE  job[t].arg \in live' /\ job[t].arg # held'[1] /\ job[t].arg # auth'
  <2>1. job[t].arg \in live /\ job[t].arg # held[1] /\ live \subseteq 1 .. grants
        /\ grants <= MaxGrants /\ grants \in Nat
    BY <1>8 DEF Peace, Saves, TokensAreGranted
  <2> QED BY <1>1, <2>1, OneIsAnInstance
<1>9. \A t \in Slots \ {s} : SavesToken(t) => job[t].arg # job[s].arg
  BY <1>5 DEF Peace, Saves
<1> QED BY <1>1, <1>3, <1>4, <1>5, <1>6, <1>7, <1>8, <1>9, PeaceOf

(* What a save puts in the file. *)
LEMMA SavedIs ==
  ASSUME Peace, NEW s \in Slots, job[s].pc = "save"
  PROVE  /\ SavesToken(s) /\ Saved(s) = job[s].arg /\ job[s].arg \in live
         /\ job[s].arg \in 1 .. grants /\ job[s].arg # Cut /\ job[s].arg # NoToken
         /\ \A t \in Slots \ {s} : SavesToken(t) => job[t].arg # job[s].arg
<1>1. SavesToken(s) /\ Saves(s) /\ \A t \in Slots : Saves(t)
  BY DEF Peace, SavesToken
<1>2. /\ job[s].arg \in live /\ job[s].handle = "auth"
      /\ \A t \in Slots \ {s} : SavesToken(t) => job[t].arg # job[s].arg
  BY <1>1 DEF Saves
<1>3. live \subseteq 1 .. grants /\ grants <= MaxGrants /\ grants \in Nat
  BY DEF Peace, TokensAreGranted
<1>4. PICK a : a = job[s].arg
  OBVIOUS
<1>5. a \in 1 .. grants /\ a # Cut /\ a # NoToken
  <2>1. a \in 1 .. grants
    BY <1>2, <1>3, <1>4
  <2>2. MaxGrants \in Nat /\ Cut = MaxGrants + 1
    BY OneIsAnInstance
  <2>3. a \in Nat /\ 1 <= a /\ a <= MaxGrants
    BY <1>3, <2>1, <2>2
  <2> QED BY <2>1, <2>2, <2>3 DEF NoToken
<1> QED BY <1>1, <1>2, <1>4, <1>5 DEF Saved

LEMMA PeaceSaved ==
  ASSUME Jobs, Peace, NEW s \in Slots, SaveRefreshed(s)
  PROVE  Peace'
<1>1. Access(s) /\ job[s].pc = "save" /\ mutex[1] = s /\ job[s].inst = 1
  <2>1. Access(s) /\ job[s].pc = "save"
    BY DEF SaveRefreshed, AtAccess, Access
  <2> QED BY <2>1, OneAtATime
<1>2. PICK a : a = job[s].arg
  OBVIOUS
<1>3. /\ SavesToken(s) /\ a \in live /\ a \in 1 .. grants /\ a # Cut /\ a # NoToken
      /\ \A t \in Slots \ {s} : SavesToken(t) => job[t].arg # a
      /\ Saved(s) = a
  BY <1>1, <1>2, SavedIs
<1>4. /\ auth' = a /\ held' = [held EXCEPT ![1] = a] /\ Leave(s)
      /\ UNCHANGED <<grants, live, up, provider>>
  BY <1>1, <1>2, <1>3 DEF SaveRefreshed, settingsVars
<1>5. held'[1] = a /\ DOMAIN held' = Instances
  BY <1>4, OneIsAnInstance DEF Peace, OneInstance
<1>6. /\ Stay(s) /\ job'[s] = Idle /\ mutex'[1] = Free /\ DOMAIN mutex' = Instances
      /\ \A u \in Slots \ {s} : mutex'[1] = u <=> mutex[1] = u
      /\ ~SavesToken(s)' /\ Uses(s)'
  BY <1>1, <1>4, Left
<1>7. OneInstance'
  BY <1>4, <1>5, <1>6 DEF Peace, OneInstance
<1>8. TokensAreGranted'
  BY <1>3, <1>4, <1>5 DEF Peace, TokensAreGranted
<1>9. TokensAreLive'
  BY <1>3, <1>4, <1>5 DEF TokensAreLive
<1>10. \A u \in Slots \ {s} : job[u].pc # "refresh"
  BY <1>1, OneAtATime, SignInPlaces
<1>11. ASSUME NEW t \in Slots \ {s}, SavesToken(t)
       PROVE  job[t].arg \in live' /\ job[t].arg # held'[1] /\ job[t].arg # auth'
  BY <1>3, <1>4, <1>5, <1>11 DEF Peace, Saves
<1> QED BY <1>6, <1>7, <1>8, <1>9, <1>10, <1>11, PeaceOf

LEMMA PeaceSignedIn ==
  ASSUME Jobs, Peace, NEW s \in Slots, SaveSignIn(s)
  PROVE  Peace'
<1>1. job[s].op = "login" /\ job[s].pc = "save"
  BY DEF SaveSignIn, At
<1>2. PICK a : a = job[s].arg
  OBVIOUS
<1>3. /\ SavesToken(s) /\ a \in live /\ a \in 1 .. grants /\ a # Cut /\ a # NoToken
      /\ \A t \in Slots \ {s} : SavesToken(t) => job[t].arg # a
      /\ Saved(s) = a
  BY <1>1, <1>2, SavedIs
<1>4. auth' = a /\ Step(s, "clear") /\ UNCHANGED <<held, mutex, grants, live, up, provider>>
  BY <1>3 DEF SaveSignIn, settingsVars
<1>5. Belongs(job[s].op, "clear") /\ "clear" \in Stages
  BY <1>1 DEF Belongs, Stages
<1>6. Stay(s) /\ Same(job[s], job'[s]) /\ job'[s].pc = "clear"
  BY <1>4, <1>5, Stepped
<1>7. OneInstance' /\ TokensAreGranted'
  BY <1>3, <1>4 DEF Peace, OneInstance, TokensAreGranted
<1>8. ~Access(s) /\ ~Access(s)' /\ ~SavesToken(s)' /\ job'[s].op # "post"
  BY <1>1, <1>6 DEF SavesToken, Access, AccessOps, Same
<1>9. Uses(s)'
  BY <1>4, <1>6, <1>8 DEF Peace, Uses
<1>10. TokensAreLive'
  <2>1. Rotating' <=> Rotating
    BY <1>6, <1>8 DEF Rotating, Access, SavesToken, Stay, Others
  <2> QED BY <1>3, <1>4, <2>1 DEF Peace, TokensAreLive
<1>11. ASSUME NEW t \in Slots \ {s}, SavesToken(t)
       PROVE  job[t].arg \in live' /\ job[t].arg # held'[1] /\ job[t].arg # auth'
  BY <1>3, <1>4, <1>11 DEF Peace, Saves
<1> QED BY <1>4, <1>6, <1>7, <1>8, <1>9, <1>10, <1>11, PeaceOf

LEMMA CountedNext ==
  ASSUME Counted, Next
  PROVE  Counted' /\ (Calm' => Calm /\ UNCHANGED <<faults, crashes, built>>)
<1>1. faults' \in {faults, faults + 1} /\ crashes' \in {crashes, crashes + 1}
      /\ built' \in {built, built + 1}
  <2>1. ASSUME NEW s \in Slots, SettingsStep(s)
        PROVE  UNCHANGED <<faults, crashes>> /\ built' \in {built, built + 1}
    <3>1. UNCHANGED <<faults, crashes>>
      BY <2>1 DEF SettingsStep, signInVars, settingsVars, PostArrives, PostChecks, PostOpens,
                  PostWrites, PostRenames, PostPersistFails, PostCommits, PostSwaps,
                  PairSetsOrigin, PairOpens, PairWrites, PairRenames, PairPersistFails, Open,
                  Write, Rename
    <3>2. CASE PostChecks(s)
      BY <3>1, <3>2 DEF PostChecks
    <3>3. ASSUME ~PostChecks(s) PROVE built' = built
      BY <2>1, <3>3 DEF SettingsStep, settingsVars, PostArrives, PostOpens,
                  PostWrites, PostRenames, PostPersistFails, PostCommits, PostSwaps,
                  PairSetsOrigin, PairOpens, PairWrites, PairRenames, PairPersistFails, Open,
                  Write, Rename
    <3> QED BY <3>1, <3>2, <3>3
  <2>2. ASSUME NEW s \in Slots, PairingStep(s) PROVE UNCHANGED <<faults, crashes, built>>
    BY <2>2 DEF PairingStep, signInVars, settingsVars, Issue, PairArrives, PairChecks, Redeem,
                PairFails, PairSucceeds
  <2>3. ASSUME NEW s \in Slots, SignInStep(s)
        PROVE  faults' \in {faults, faults + 1} /\ crashes' = crashes
               /\ built' \in {built, built + 1}
    <3>1. CASE ValidateArrives(s) \/ ModelsArrives(s)
      BY <3>1 DEF ValidateArrives, ModelsArrives, Ephemeral, signInVars
    <3>2. ASSUME ~(ValidateArrives(s) \/ ModelsArrives(s)) PROVE UNCHANGED <<crashes, built>>
      BY <2>3, <3>2 DEF SignInStep, settingsVars, TurnArrives, Enter, LoadToken, Refresh,
           RefreshFails, SignOut, Truncate, SaveRefreshed, SaveFails, LoginArrives, Callback,
           CallbackFails, Exchange, ExchangeFails, SaveSignIn, SignInNotSaved, ClearPending
    <3>3. ASSUME ~(ValidateArrives(s) \/ ModelsArrives(s)) PROVE faults' \in {faults, faults + 1}
      BY <2>3, <3>3 DEF SignInStep, signInVars, TurnArrives, Enter, LoadToken, Refresh,
           RefreshFails, SignOut, Truncate, SaveRefreshed, SaveFails, LoginArrives, Callback,
           CallbackFails, Exchange, ExchangeFails, SaveSignIn, SignInNotSaved, ClearPending, Fault
    <3> QED BY <3>1, <3>2, <3>3
  <2>4. CASE Tick /\ UNCHANGED signInVars
    BY <2>4 DEF Tick, signInVars, settingsVars
  <2>5. CASE Expire \/ Crash \/ Boot
    BY <2>5 DEF Expire, Crash, Boot, signInVars, settingsVars
  <2> QED BY <2>1, <2>2, <2>3, <2>4, <2>5 DEF Next
<1> QED BY <1>1 DEF Counted, Calm

LEMMA PeaceStep ==
  ASSUME Jobs, Counted, Peace, Calm', UNCHANGED <<faults, crashes, built>>,
         NEW s \in Slots, SignInStep(s)
  PROVE  Peace'
<1>1. ~Fault
  BY DEF Fault, Counted
<1>2. CASE RefreshFails(s)
  <2>1. Access(s) /\ job[s].pc = "refresh" /\ job[s].arg \notin live
    BY <1>1, <1>2 DEF RefreshFails, AtAccess, Access
  <2>2. job[s].arg = held[1] /\ held[1] # NoToken
    BY <2>1 DEF Peace, Uses
  <2>3. held[1] \in live \cup {NoToken}
    BY <2>1, LiveInside
  <2> QED BY <2>1, <2>2, <2>3
<1>3. CASE SignOut(s)
  BY <1>3 DEF SignOut, AtAccess, Peace, Uses
<1>4. CASE SaveFails(s) \/ ExchangeFails(s) \/ SignInNotSaved(s)
  BY <1>1, <1>4 DEF SaveFails, ExchangeFails, SignInNotSaved
<1> QED BY <1>2, <1>3, <1>4, PeaceArrives, PeaceEntered, PeaceLoaded, PeaceRefreshed,
           PeaceTruncated, PeaceSaved, PeaceLogin, PeaceExchanged, PeaceSignedIn DEF SignInStep

(* With one instance, a post builds none and swaps none in. *)
LEMMA PostsBuildNone ==
  ASSUME Jobs, Counted, Peace, UNCHANGED <<built, provider>>,
         NEW s \in Slots, SettingsStep(s), ~PostSwaps(s)
  PROVE  \A t \in Slots : job'[t].op = "post" => job'[t].inst = 0 /\ job'[t].pc # "swap"
<1> DEFINE Builds0(f, t) == f[t].op = "post" => f[t].inst = 0 /\ f[t].pc # "swap"
<1>1. \A t \in Slots : Builds0(job, t)
  BY DEF Peace, Uses
<1>2. ASSUME Stay(s), Builds0(job', s) PROVE \A t \in Slots : Builds0(job', t)
  BY <1>1, <1>2 DEF Stay, Others
<1>3. ASSUME Drift(s, RenamedHandles), Builds0(job', s) PROVE \A t \in Slots : Builds0(job', t)
  BY <1>1, <1>3 DEF Drift, Same
<1>4. built # built + 1
  BY DEF Counted
<1>5. Builds0(job', s) /\ (Stay(s) \/ Drift(s, RenamedHandles))
  <2>1. CASE PostArrives(s)
    BY <2>1, NewPost DEF Fresh
  <2>2. CASE PostChecks(s)
    BY <1>4, <2>2, CheckedPost, IdleIs DEF Fresh
  <2>3. CASE PostOpens(s) \/ PairOpens(s)
    <3>1. PICK op \in {"post", "pair"} : Open(s, op)
      BY <2>3 DEF PostOpens, PairOpens
    <3> QED BY <1>1, <3>1, OpenedFile DEF Same
  <2>4. CASE PostWrites(s) \/ PairWrites(s)
    <3>1. PICK op \in {"post", "pair"} : Write(s, op)
      BY <2>4 DEF PostWrites, PairWrites
    <3> QED BY <1>1, <3>1, WrittenFile DEF Same
  <2>5. CASE PostRenames(s)
    BY <1>1, <2>5, RenamedPost DEF Same
  <2>6. CASE PairRenames(s)
    BY <2>6, RenamedPair DEF Fresh
  <2>7. CASE PostPersistFails(s) \/ PairPersistFails(s)
    BY <2>7, Finished, IdleIs DEF PostPersistFails, PairPersistFails
  <2>8. CASE PostCommits(s)
    <3>1. job[s].inst = 0
      BY <1>1, <2>8 DEF PostCommits, At
    <3>2. Done(s)
      BY <2>8, <3>1 DEF PostCommits
    <3> QED BY <3>2, Finished, IdleIs
  <2>9. CASE PairSetsOrigin(s)
    BY <2>9, OriginSet
  <2> QED BY <2>1, <2>2, <2>3, <2>4, <2>5, <2>6, <2>7, <2>8, <2>9 DEF SettingsStep
<1> QED BY <1>2, <1>3, <1>5

LEMMA SignInNext ==
  ASSUME SignInInv, [Next]_vars
  PROVE  SignInInv'
<1>1. ASSUME UNCHANGED vars PROVE SignInInv'
  BY <1>1 DEF vars, settingsVars, pairingVars, signInVars, SignInInv, Jobs, Placed, Counted, Calm,
              Peace, OneInstance, TokensAreGranted, TokensAreLive, Rotating, Uses, Saves, Access,
              SavesToken
<1>2. ASSUME Next PROVE SignInInv'
  <2>1. Counted' /\ (Calm' => Calm /\ UNCHANGED <<faults, crashes, built>>)
    BY <1>2, CountedNext DEF SignInInv
  <2>2. SUFFICES Jobs' /\ (Calm' => Peace')
    BY <2>1 DEF SignInInv
  <2>3. Jobs /\ Counted /\ (Calm' => Peace)
    BY <2>1 DEF SignInInv
  <2>4. CASE \E s \in Slots : SettingsStep(s)
    <3>1. PICK s \in Slots : SettingsStep(s)
      BY <2>4
    <3>2. Jobs' /\ LeavesOthers
      BY <2>3, <3>1, SettingsLeaveOthers
    <3>3. ASSUME Calm' PROVE Peace'
      <4>1. Peace /\ UNCHANGED <<faults, crashes, built>>
        BY <2>1, <2>3, <3>3
      <4>2. ~PostSwaps(s)
        BY <4>1 DEF PostSwaps, At, Peace, Uses
      <4>3. UNCHANGED <<provider, up, signInVars>>
        BY <3>1, <4>2 DEF SettingsStep, PostArrives, PostChecks, PostOpens, PostWrites,
             PostRenames, PostPersistFails, PostCommits, PairSetsOrigin, PairOpens, PairWrites,
             PairRenames, PairPersistFails, Open, Write, Rename, settingsVars
      <4>4. \A t \in Slots : job'[t].op = "post" => job'[t].inst = 0 /\ job'[t].pc # "swap"
        BY <2>3, <3>1, <4>1, <4>2, <4>3, PostsBuildNone
      <4>5. provider'.inst = 1
        BY <4>1, <4>3 DEF Peace, OneInstance
      <4>6. \A t \in Slots : Signing(job[t]) \/ Signing(job'[t]) => Kept(t)
        BY <3>2 DEF LeavesOthers
      <4> QED BY <2>3, <3>2, <4>1, <4>3, <4>4, <4>5, <4>6, PeaceKept
    <3> QED BY <3>2, <3>3
  <2>5. CASE \E s \in Slots : PairingStep(s)
    <3>1. PICK s \in Slots : PairingStep(s)
      BY <2>5
    <3>2. Jobs' /\ Stay(s) /\ Codes(job[s]) /\ Codes(job'[s])
      BY <2>3, <3>1, PairingElsewhere
    <3>3. UNCHANGED <<provider, up, signInVars>>
      BY <3>1 DEF PairingStep, Issue, PairArrives, PairChecks, Redeem, PairFails, PairSucceeds,
                  settingsVars
    <3>4. ASSUME Peace PROVE Peace'
      <4>1. \A t \in Slots : Signing(job[t]) \/ Signing(job'[t]) => Kept(t)
        BY <3>2 DEF Stay, Others, Kept, Same, Codes, Signing, AccessOps
      <4>2. \A t \in Slots : job'[t].op = "post" => job'[t].inst = 0 /\ job'[t].pc # "swap"
        BY <3>2, <3>4 DEF Stay, Others, Codes, Peace, Uses
      <4>3. provider'.inst = 1
        BY <3>3, <3>4 DEF Peace, OneInstance
      <4> QED BY <2>3, <3>2, <3>3, <3>4, <4>1, <4>2, <4>3, PeaceKept
    <3> QED BY <2>3, <3>2, <3>4
  <2>6. CASE \E s \in Slots : SignInStep(s)
    <3>1. PICK s \in Slots : SignInStep(s)
      BY <2>6
    <3>2. Jobs'
      BY <2>3, <3>1, SignInElsewhere DEF Elsewhere
    <3> QED BY <2>1, <2>3, <3>1, <3>2, PeaceStep
  <2>7. CASE (Tick /\ UNCHANGED signInVars) \/ Expire
    <3>1. UNCHANGED <<job, up, provider, auth, held, mutex, grants, live>>
      BY <2>7 DEF Tick, Expire, signInVars, settingsVars
    <3> QED BY <2>3, <3>1 DEF Jobs, Placed, Peace, OneInstance, TokensAreGranted, TokensAreLive,
               Rotating, Uses, Saves, Access, SavesToken
  <2>8. CASE Crash
    <3>1. job' = [s \in Slots |-> Idle] /\ crashes' = crashes + 1
      BY <2>8 DEF Crash
    <3>2. (job = [s \in Slots |-> Idle] => Jobs)'
      BY JobsInit, PTL
    <3>3. ~Calm'
      BY <2>3, <3>1 DEF Calm, Counted
    <3> QED BY <3>1, <3>2, <3>3
  <2>9. CASE Boot
    <3>1. ~up /\ job' = job
      BY <2>9 DEF Boot
    <3>2. ~Calm'
      BY <2>3, <3>1 DEF Peace, OneInstance
    <3> QED BY <2>3, <3>1, <3>2 DEF Jobs, Placed
  <2> QED BY <1>2, <2>4, <2>5, <2>6, <2>7, <2>8, <2>9 DEF Next
<1> QED BY <1>1, <1>2

\* With one provider instance, no lost answer and no crash, however turns and sign-ins
\* interleave, no turn ends in a sign-out, and what is in the token's file once nobody writes
\* it is a token the service still accepts (chatgpt.rs, access and its mutex).
THEOREM SignInIsKept == Spec => []TurnsKeepSignIn
<1>1. SignInInv => TurnsKeepSignIn
  <2>1. ASSUME SignInInv, Calm
        PROVE  /\ \A s \in Slots : job[s].pc # "forget"
               /\ (\A s \in Slots : job[s].pc \notin {"truncate", "save"}) =>
                    auth \in live \cup {NoToken}
    <3>1. Peace
      BY <2>1 DEF SignInInv
    <3>2. \A s \in Slots : job[s].pc # "forget"
      BY <3>1 DEF Peace, Uses
    <3>3. ASSUME \A s \in Slots : job[s].pc \notin {"truncate", "save"}
          PROVE  auth \in live \cup {NoToken}
      <4>1. ~Rotating
        BY <3>3 DEF Rotating, SavesToken
      <4> QED BY <3>1, <3>3, <4>1 DEF Peace, TokensAreLive
    <3> QED BY <3>2, <3>3
  <2> QED BY <2>1 DEF TurnsKeepSignIn, Calm
<1> QED BY <1>1, PeaceInit, SignInNext, PTL DEF Spec

-----------------------------------------------------------------------------
(* The page that shows and changes the configuration, a state machine of its *)
(* own beside the daemon's.                                                  *)
CONSTANTS Shown, Configs, Catalogue, Env, MaxClicks, MaxLost
VARIABLES form, options, known, ceiling, polling, arrived, signIn, clicks, lost
Page == INSTANCE ConfigPage WITH MaxFaults <- MaxLost, faults <- lost

Asked == {requests[k] : k \in DOMAIN requests}

(* The requests under way, the fields and the configuration keep their shape. *)
RequestShape(r) == r = [what |-> r.what, arg |-> r.arg, st |-> r.st, ans |-> r.ans]
FormShape(f) == DOMAIN f = {"kind", "model", "endpoint", "api_key", "max_tokens", "limits"}
ConfigShape(c) ==
  /\ c = [provider |-> c.provider, limits |-> c.limits, origin |-> c.origin]
  /\ DOMAIN c.provider = DOMAIN DefaultProvider /\ DOMAIN c.limits = DOMAIN DefaultLimits

PageShape ==
  /\ \E S : requests \in Seq(S)
  /\ \A r \in Asked : RequestShape(r)
  /\ FormShape(form) /\ ConfigShape(stored)

(* Whatever holds an endpoint holds the kind it is of. *)
OwnPatch(p) == {"kind", "endpoint"} \subseteq DOMAIN p /\ p.kind \in Kinds /\ OwnEndpoint(p)
OwnRequest(r) ==
  /\ r.what = "models" => OwnPatch(r.arg)
  /\ r.what = "save" => OwnPatch(r.arg.provider)
  /\ r.what = "config" /\ r.st = "answered" => OwnPatch(r.ans.provider)

OwnInv ==
  PageShape /\ OwnPatch(form) /\ OwnPatch(stored.provider) /\ \A r \in Asked : OwnRequest(r)

(* What is filled in is in its range, if the reviewer has not typed it. *)
CapFits(f, n) == n \in LimitRange[f] \/ (f = "max_tool_result_chars" /\ n = Typed)
Filled(limits) == \A f \in DOMAIN limits \cap DOMAIN LimitRange : CapFits(f, limits[f])
InRange(limits) == \A f \in DOMAIN LimitRange : f \in DOMAIN limits /\ limits[f] \in LimitRange[f]

(* The largest window the derived caps of which are in range. *)
LargestWindow == 8791210
Windows == {n \in Nat : n <= LargestWindow}

FitRequest(r) ==
  /\ r.what = "save" =>
       /\ "limits" \in DOMAIN r.arg /\ Filled(r.arg.limits)
       /\ r.st = "refused" => ~Page!LimitsFit(r.arg)
  /\ r.what = "config" /\ r.st = "answered" => InRange(r.ans.limits)
  /\ r.what = "models" /\ r.st = "answered" => \A i \in DOMAIN r.ans : r.ans[i].context \in Windows
  /\ r.what \in {"suggest", "derive"} => r.arg.context \in Windows
  /\ r.what \in {"suggest", "derive"} /\ r.st = "answered" => Filled(r.ans.limits)

FitInv ==
  /\ Filled(form.limits) /\ InRange(stored.limits)
  /\ \A m \in known : m.context \in Windows
  /\ \A r \in Asked : FitRequest(r)

-----------------------------------------------------------------------------
(* What a step may change. *)

Settled(r, n) ==
  /\ r.st = "sent" /\ n.what = r.what /\ n.arg = r.arg /\ RequestShape(n)
  /\ \/ n.st = "lost"
     \/ /\ n.ans = Page!Answer(r).val
        /\ n.st = IF Page!Answer(r).ok THEN "answered" ELSE "refused"

NewRequest(n) ==
  \/ n \in {Page!Request("status", 0), Page!Request("login", 0)}
  \/ n = Page!Request("models", Page!ProviderPatch(form))
  \/ n = Page!Request("save", [provider |-> Page!SavedPatch(form), limits |-> form.limits])
  \/ \E what \in {"suggest", "derive"} : \E q :
       /\ q.context \in {32768} \cup {m.context : m \in known}
       /\ n = Page!Request(what, q)
  \/ \E r \in Asked : Settled(r, n)

StoredMoves ==
  \/ stored' = stored
  \/ \E r \in Asked :
       r.what = "save" /\ Page!LimitsFit(r.arg) /\ stored' = Page!Candidate(stored, r.arg)

EndpointMoves ==
  \/ form'.kind = form.kind /\ form'.endpoint \in {form.endpoint, form.kind}
  \/ form'.kind \in Shown /\ form'.endpoint = ""
  \/ \E r \in Asked :
       /\ r.what = "config" /\ r.st = "answered"
       /\ form'.kind = r.ans.provider.kind /\ form'.endpoint = r.ans.provider.endpoint

CapsMove ==
  \/ form'.limits = form.limits
  \/ form'.limits = Page!FillLimits([max_tool_result_chars |-> Typed], form.limits)
  \/ \E r \in Asked :
       /\ r.what \in {"suggest", "derive"} /\ r.st = "answered"
       /\ form'.limits = Page!FillLimits(r.ans.limits, form.limits)
  \/ \E r \in Asked :
       /\ r.what = "config" /\ r.st = "answered"
       /\ form'.limits = [key \in Page!LIMIT_KEYS |-> r.ans.limits[key]]

KnownMoves ==
  \/ known' \in {known, {}}
  \/ \E r \in Asked : r.what = "models" /\ r.st = "answered" /\ known' = Page!ToSet(r.ans)

Listed(f) == \E S : f \in Seq(S)

FormMoves == FormShape(form') /\ EndpointMoves /\ CapsMove
ListMoves == Listed(requests') /\ \A n \in Asked' : n \in Asked \/ NewRequest(n)

Moves == ListMoves /\ StoredMoves /\ FormMoves /\ KnownMoves

LEMMA ListGrows ==
  ASSUME Listed(requests), NEW n, requests' = Append(requests, n)
  PROVE  Listed(requests') /\ Asked' = Asked \cup {n}
<1>1. PICK S : requests \in Seq(S)
  BY DEF Listed
<1>2. requests \in Seq(S \cup {n}) /\ requests' \in Seq(S \cup {n})
  BY <1>1
<1>3. Asked' = Asked \cup {n}
  BY <1>2 DEF Asked
<1> QED BY <1>2, <1>3 DEF Listed

LEMMA ListWithout ==
  ASSUME Listed(requests), NEW k \in DOMAIN requests, NEW f, f = Page!RemoveAt(requests, k)
  PROVE  Listed(f) /\ {f[j] : j \in DOMAIN f} \subseteq Asked
<1>1. PICK S : requests \in Seq(S)
  BY DEF Listed
<1> DEFINE a == SubSeq(requests, 1, k - 1)
           b == SubSeq(requests, k + 1, Len(requests))
<1>2. Len(requests) \in Nat /\ k \in 1 .. Len(requests)
  BY <1>1
<1>3. a \in Seq(S) /\ \A j \in DOMAIN a : j \in DOMAIN requests /\ a[j] = requests[j]
  BY <1>1, <1>2
<1>4. b \in Seq(S) /\ \A j \in DOMAIN b : k + j \in DOMAIN requests /\ b[j] = requests[k + j]
  BY <1>1, <1>2
<1>5. f = a \o b
  BY DEF Page!RemoveAt
<1> HIDE DEF a, b
<1>6. f \in Seq(S) /\ \A j \in DOMAIN f : \/ \E i \in DOMAIN a : f[j] = a[i]
                                        \/ \E i \in DOMAIN b : f[j] = b[i]
  <2>1. /\ a \in Seq(S) /\ b \in Seq(S) /\ f \in Seq(S)
        /\ Len(a) \in Nat /\ Len(b) \in Nat /\ Len(f) = Len(a) + Len(b)
        /\ DOMAIN a = 1 .. Len(a) /\ DOMAIN b = 1 .. Len(b) /\ DOMAIN f = 1 .. Len(f)
    BY <1>3, <1>4, <1>5
  <2>2. ASSUME NEW j \in DOMAIN f
        PROVE  \/ j \in DOMAIN a /\ f[j] = a[j]
               \/ j - Len(a) \in DOMAIN b /\ f[j] = b[j - Len(a)]
    BY <1>5, <2>1, <2>2
  <2> QED BY <2>1, <2>2
<1>7. \A j \in DOMAIN f : f[j] \in Asked
  BY <1>3, <1>4, <1>6 DEF Asked
<1> QED BY <1>6, <1>7 DEF Listed

LEMMA ListSettles ==
  ASSUME Listed(requests), NEW k \in DOMAIN requests, NEW n, requests' = [requests EXCEPT ![k] = n]
  PROVE  Listed(requests') /\ Asked' \subseteq Asked \cup {n}
<1>1. PICK S : requests \in Seq(S)
  BY DEF Listed
<1>2. requests \in Seq(S \cup {n}) /\ requests' \in Seq(S \cup {n})
  BY <1>1
<1>3. Asked' \subseteq Asked \cup {n}
  BY <1>2 DEF Asked
<1> QED BY <1>2, <1>3 DEF Listed

(* The form after its model was looked up in a list. *)
LEMMA ClampedIs ==
  ASSUME NEW f, NEW models, FormShape(f), Page!Clamped(f, models)
  PROVE  /\ FormShape(form') /\ form'.kind = f.kind /\ form'.endpoint = f.endpoint
         /\ form'.limits = f.limits
BY DEF Page!Clamped, FormShape

LEMMA ContextIs ==
  ASSUME NEW f, Page!DeriveQuery(f).context # 0
  PROVE  Page!DeriveQuery(f).context \in {m.context : m \in known}
<1>1. Page!Of(f, known, "context") # 0
  BY DEF Page!DeriveQuery
<1>2. \E m \in known : Page!Of(f, known, "context") = m.context
  <2> DEFINE same == {m \in known : m.id = f.model}
  <2>1. same # {} /\ Page!Of(f, known, "context") = (CHOOSE m \in same : TRUE)["context"]
    BY <1>1 DEF Page!Of
  <2>2. (CHOOSE m \in same : TRUE) \in same
    BY <2>1
  <2> QED BY <2>1, <2>2
<1> QED BY <1>2 DEF Page!DeriveQuery

LEMMA ReviewerMoves ==
  ASSUME PageShape, Page!Reviewer
  PROVE  Moves
<1> USE DEF Page!Click, Page!Ask, Page!daemon, Page!fields, Page!counters
<1>0. Listed(requests) /\ FormShape(form)
  BY DEF PageShape, Listed
<1> DEFINE Filling == FormMoves /\ KnownMoves
<1>1. UNCHANGED requests => ListMoves
  BY <1>0 DEF ListMoves, Asked
<1>2. ASSUME NEW n, requests' = Append(requests, n), NewRequest(n) PROVE ListMoves
  BY <1>0, <1>2, ListGrows DEF ListMoves
<1>3. UNCHANGED <<form, known>> => Filling
  BY <1>0 DEF FormMoves, EndpointMoves, CapsMove, KnownMoves
<1>4. ASSUME NEW kind \in Shown, Page!Switch(kind) PROVE Moves
  <2>1. FormMoves /\ KnownMoves /\ StoredMoves
    BY <1>0, <1>4 DEF Page!Switch, FormMoves, FormShape, EndpointMoves, CapsMove,
               KnownMoves, StoredMoves
  <2>2. ListMoves
    BY <1>1, <1>2, <1>4 DEF Page!Switch, NewRequest
  <2> QED BY <2>1, <2>2 DEF Moves
<1>5. CASE Page!TypesEndpoint \/ Page!TypesKey \/ Page!TypesCap
  <2>1. FormMoves /\ KnownMoves /\ StoredMoves /\ UNCHANGED requests
    BY <1>0, <1>5 DEF Page!TypesEndpoint, Page!TypesKey, Page!TypesCap, Page!Types, FormMoves,
                      FormShape, EndpointMoves, CapsMove,
               KnownMoves, StoredMoves
  <2> QED BY <1>1, <2>1 DEF Moves
<1>6. CASE Page!FetchModels
  <2>1. FormMoves /\ KnownMoves /\ StoredMoves
    BY <1>0, <1>6 DEF Page!FetchModels, FormMoves, EndpointMoves, CapsMove,
               KnownMoves, StoredMoves
  <2>2. ListMoves
    BY <1>2, <1>6 DEF Page!FetchModels, NewRequest
  <2> QED BY <2>1, <2>2 DEF Moves
<1>7. CASE Page!Derive
  <2>1. Filling /\ StoredMoves
    BY <1>3, <1>7 DEF Page!Derive, StoredMoves
  <2>2. Page!DeriveQuery(form).context # 0
    BY <1>7 DEF Page!Derive
  <2>3. ListMoves
    BY <1>2, <1>7, <2>2, ContextIs DEF Page!Derive, NewRequest
  <2> QED BY <2>1, <2>3 DEF Moves
<1>8. CASE Page!Save
  <2>1. Filling /\ StoredMoves
    BY <1>3, <1>8 DEF Page!Save, StoredMoves
  <2>2. ListMoves
    BY <1>2, <1>8 DEF Page!Save, NewRequest
  <2> QED BY <2>1, <2>2 DEF Moves
<1>9. CASE Page!Login
  <2>1. Filling /\ StoredMoves
    BY <1>3, <1>9 DEF Page!Login, StoredMoves
  <2>2. ListMoves
    BY <1>2, <1>9 DEF Page!Login, NewRequest
  <2> QED BY <2>1, <2>2 DEF Moves
<1>10. ASSUME NEW m \in options, Page!Pick(m) PROVE Moves
  <2> DEFINE f == [form EXCEPT !.model = m.id]
             q == Page!DeriveQuery(f)
             asked == [q EXCEPT !.context = IF @ = 0 THEN 32768 ELSE @]
  <2>1. FormMoves /\ KnownMoves /\ StoredMoves
    BY <1>0, <1>10 DEF Page!Pick, FormMoves, FormShape, EndpointMoves, CapsMove,
               KnownMoves, StoredMoves
  <2>2. asked.context \in {32768} \cup {x.context : x \in known}
    BY ContextIs DEF Page!DeriveQuery
  <2>3. UNCHANGED requests \/ requests' = Append(requests, Page!Request("suggest", asked))
    BY <1>10 DEF Page!Pick
  <2> HIDE DEF asked
  <2>4. ListMoves
    BY <1>1, <1>2, <2>2, <2>3 DEF NewRequest
  <2> QED BY <2>1, <2>4 DEF Moves
<1>11. ASSUME NEW m \in options, Page!TypesModel(m.id) PROVE Moves
  <2> DEFINE f == [form EXCEPT !.model = m.id]
  <2>1. /\ FormShape(f) /\ f.kind = form.kind /\ f.endpoint = form.endpoint
        /\ f.limits = form.limits
    BY <1>0 DEF FormShape
  <2>2. Page!Clamped(f, known) /\ UNCHANGED <<known, stored, requests>>
    BY <1>11 DEF Page!TypesModel
  <2> HIDE DEF f
  <2>3. FormMoves
    BY <2>1, <2>2, ClampedIs DEF FormMoves, EndpointMoves, CapsMove
  <2>4. KnownMoves /\ StoredMoves
    BY <2>2 DEF KnownMoves, StoredMoves
  <2> QED BY <1>1, <2>2, <2>3, <2>4 DEF Moves
<1> QED BY <1>4, <1>5, <1>6, <1>7, <1>8, <1>9, <1>10, <1>11 DEF Page!Reviewer

LEMMA DaemonMoves ==
  ASSUME PageShape, NEW k \in DOMAIN requests, Page!Serve(k) \/ Page!Fails(k)
  PROVE  Moves
<1> USE DEF Page!daemon, Page!fields, Page!counters
<1> DEFINE r == requests[k]
<1>0. Listed(requests) /\ FormShape(form) /\ r \in Asked /\ RequestShape(r)
  BY DEF PageShape, Listed, Asked
<1>1. UNCHANGED <<form, known>> => FormMoves /\ KnownMoves
  BY <1>0 DEF FormMoves, EndpointMoves, CapsMove, KnownMoves
<1>2. ASSUME NEW n, requests' = [requests EXCEPT ![k] = n], NewRequest(n) PROVE ListMoves
  BY <1>0, <1>2, ListSettles DEF ListMoves
<1>3. CASE Page!Serve(k)
  <2> DEFINE ans == Page!Answer(r)
             st == IF ans.ok THEN "answered" ELSE "refused"
             n == [r EXCEPT !.st = st, !.ans = ans.val]
  <2>1. r.st = "sent" /\ UNCHANGED <<form, known>>
    BY <1>3 DEF Page!Serve
  <2>2. requests' = [requests EXCEPT ![k] = n]
    BY <1>0, <1>3 DEF Page!Serve
  <2> HIDE DEF st, n, ans
  <2>3. Settled(r, n)
    <3>1. n = [r EXCEPT !.st = st, !.ans = ans.val]
      BY DEF n
    <3>2. n.what = r.what /\ n.arg = r.arg /\ RequestShape(n) /\ n.ans = ans.val /\ n.st = st
      BY <1>0, <3>1 DEF RequestShape
    <3> QED BY <2>1, <3>2 DEF Settled, ans, st
  <2> USE DEF ans
  <2>4. ListMoves
    <3>1. NewRequest(n)
      BY <1>0, <2>3 DEF NewRequest
    <3> QED BY <1>2, <2>2, <3>1
  <2>5. StoredMoves
    <3>1. CASE r.what = "save" /\ ans.ok
      <4>1. ans.ok = Page!LimitsFit(r.arg)
        BY <3>1 DEF Page!Answer
      <4> QED BY <1>0, <1>3, <3>1, <4>1 DEF Page!Serve, StoredMoves
    <3>2. CASE ~(r.what = "save" /\ ans.ok)
      BY <1>3, <3>2 DEF Page!Serve, StoredMoves
    <3> QED BY <3>1, <3>2
  <2> QED BY <1>1, <2>1, <2>4, <2>5 DEF Moves
<1>4. CASE Page!Fails(k)
  <2> DEFINE n == [r EXCEPT !.st = "lost"]
  <2>1. r.st = "sent" /\ UNCHANGED <<form, known, stored>> /\ requests' = [requests EXCEPT ![k] = n]
    BY <1>0, <1>4 DEF Page!Fails
  <2>2. Settled(r, n)
    BY <1>0, <2>1 DEF Settled, RequestShape
  <2> HIDE DEF n
  <2>3. ListMoves
    <3>1. NewRequest(n)
      BY <1>0, <2>2 DEF NewRequest
    <3> QED BY <1>2, <2>1, <3>1
  <2> QED BY <1>1, <2>1, <2>3 DEF Moves, StoredMoves
<1> QED BY <1>3, <1>4

LEMMA AnswersMove ==
  ASSUME PageShape, NEW k \in DOMAIN requests, Page!Shows(k)
  PROVE  Moves
<1> USE DEF Page!daemon, Page!fields, Page!counters
<1> DEFINE r == requests[k]
           rest == Page!RemoveAt(requests, k)
<1>0. Listed(requests) /\ FormShape(form) /\ r \in Asked
  BY DEF PageShape, Listed, Asked
<1>1. UNCHANGED <<form, known>> => FormMoves /\ KnownMoves
  BY <1>0 DEF FormMoves, EndpointMoves, CapsMove, KnownMoves
<1>2. Listed(rest) /\ {rest[j] : j \in DOMAIN rest} \subseteq Asked
  BY <1>0, ListWithout
<1> HIDE DEF rest
<1>3. requests' = rest => ListMoves
  BY <1>2 DEF ListMoves, Asked
<1>4. CASE \/ Page!ShowsCapabilities(k) \/ Page!ShowsLogin(k) \/ Page!ShowsStatus(k)
          \/ Page!ShowsFailure(k)
  <2>1. UNCHANGED <<form, known, stored>> /\ requests' = rest
    BY <1>4 DEF Page!ShowsCapabilities, Page!ShowsLogin, Page!ShowsStatus, Page!ShowsFailure,
                Page!Answered, rest
  <2> QED BY <1>1, <1>3, <2>1 DEF Moves, StoredMoves
<1>5. CASE Page!ShowsSaved(k)
  <2>1. FormMoves /\ KnownMoves /\ StoredMoves /\ requests' = rest
    BY <1>0, <1>5 DEF Page!ShowsSaved, Page!Answered, rest, FormMoves, FormShape, EndpointMoves,
                      CapsMove, KnownMoves, StoredMoves
  <2> QED BY <1>3, <2>1 DEF Moves
<1>6. CASE Page!ShowsModels(k)
  <2>1. FormMoves /\ requests' = rest /\ UNCHANGED stored
    BY <1>0, <1>6, ClampedIs DEF Page!ShowsModels, Page!Answered, rest, FormMoves, EndpointMoves,
                           CapsMove
  <2>2. KnownMoves
    BY <1>0, <1>6 DEF Page!ShowsModels, Page!Answered, KnownMoves
  <2> QED BY <1>3, <2>1, <2>2 DEF Moves, StoredMoves
<1>7. CASE Page!ShowsDerived(k)
  <2> DEFINE f == [form EXCEPT !.max_tokens = r.ans.max_tokens,
                     !.limits = IF r.what = "derive" THEN Page!FillLimits(r.ans.limits, @) ELSE @]
  <2>1. /\ FormShape(f) /\ f.kind = form.kind /\ f.endpoint = form.endpoint
        /\ f.limits = IF r.what = "derive" THEN Page!FillLimits(r.ans.limits, form.limits)
                      ELSE form.limits
    BY <1>0 DEF FormShape
  <2>2. /\ Page!Clamped(f, known) /\ requests' = rest /\ UNCHANGED <<stored, known>>
        /\ r.what \in {"suggest", "derive"} /\ r.st = "answered"
    BY <1>7 DEF Page!ShowsDerived, Page!Answered, rest
  <2> HIDE DEF f
  <2>3. FormMoves
    BY <1>0, <2>1, <2>2, ClampedIs DEF FormMoves, EndpointMoves, CapsMove
  <2> QED BY <1>3, <2>2, <2>3 DEF Moves, StoredMoves, KnownMoves
<1>8. CASE Page!ShowsConfig(k)
  <2>1. FormMoves /\ KnownMoves /\ StoredMoves
    BY <1>0, <1>8 DEF Page!ShowsConfig, FormMoves, FormShape, EndpointMoves, CapsMove,
               KnownMoves, StoredMoves
  <2>2. requests' = rest \o << >> \/ requests' = rest \o <<Page!Request("status", 0)>>
    BY <1>8 DEF Page!ShowsConfig, rest
  <2>3. ListMoves
    <3>1. PICK S : rest \in Seq(S)
      BY <1>2 DEF Listed
    <3>2. CASE requests' = rest \o << >>
      BY <1>3, <3>1, <3>2
    <3>3. CASE requests' = rest \o <<Page!Request("status", 0)>>
      <4> DEFINE n == Page!Request("status", 0)
      <4> HIDE DEF n
      <4>1. rest \in Seq(S \cup {n}) /\ requests' = rest \o <<n>>
        BY <3>1, <3>3 DEF n
      <4>2. /\ requests' \in Seq(S \cup {n})
            /\ \A j \in DOMAIN requests' :
                 requests'[j] = n \/ (j \in DOMAIN rest /\ requests'[j] = rest[j])
        BY <4>1
      <4>3. NewRequest(n)
        BY DEF NewRequest, n
      <4> QED BY <1>2, <4>2, <4>3 DEF ListMoves, Listed, Asked
    <3> QED BY <2>2, <3>2, <3>3
  <2> QED BY <2>1, <2>3 DEF Moves
<1> QED BY <1>4, <1>5, <1>6, <1>7, <1>8 DEF Page!Shows

LEMMA PageMoves ==
  ASSUME PageShape, [Page!Next]_(Page!vars)
  PROVE  Moves
<1> USE DEF Page!daemon, Page!fields, Page!counters
<1>0. Listed(requests) /\ FormShape(form)
  BY DEF PageShape, Listed
<1>1. UNCHANGED <<form, known>> => FormMoves /\ KnownMoves
  BY <1>0 DEF FormMoves, EndpointMoves, CapsMove, KnownMoves
<1>2. UNCHANGED requests => ListMoves
  BY <1>0 DEF ListMoves, Asked
<1>3. CASE Page!Poll
  <2>1. /\ requests' = Append(requests, Page!Request("status", 0))
        /\ UNCHANGED <<form, known, stored>>
        /\ NewRequest(Page!Request("status", 0))
    BY <1>3 DEF Page!Poll, Page!Ask, NewRequest
  <2>2. ListMoves
    BY <1>0, <2>1, ListGrows DEF ListMoves
  <2> QED BY <1>1, <2>1, <2>2 DEF Moves, StoredMoves
<1>4. CASE Page!SignInSettles \/ UNCHANGED Page!vars
  <2>1. UNCHANGED <<form, known, stored, requests>>
    BY <1>4 DEF Page!SignInSettles, Page!vars
  <2> QED BY <1>1, <1>2, <2>1 DEF Moves, StoredMoves
<1> QED BY <1>3, <1>4, ReviewerMoves, DaemonMoves, AnswersMove DEF Page!Next, Page!Progress

-----------------------------------------------------------------------------
(* Endpoints. *)

LEMMA KindsAre ==
  /\ Kinds = {"mock", "anthropic", "openai_compat", "chatgpt"} /\ Page!Kinds = Kinds
  /\ DOMAIN DefaultProvider = {"kind", "api_key", "model", "max_tokens", "endpoint"}
  /\ Page!DefaultProvider = DefaultProvider
  /\ DOMAIN DefaultLimits = DOMAIN LimitRange /\ Page!LimitRange = LimitRange
  /\ Page!DefaultLimits = DefaultLimits
<1>1. Kinds = {"mock", "anthropic", "openai_compat", "chatgpt"}
  BY SMT DEF Kinds, ProviderCapabilities
<1>2. Page!Kinds = {"mock", "anthropic", "openai_compat", "chatgpt"}
  BY SMT DEF Page!Kinds, Page!ProviderCapabilities
<1>3. /\ DOMAIN DefaultProvider = {"kind", "api_key", "model", "max_tokens", "endpoint"}
      /\ Page!DefaultProvider = DefaultProvider
  BY DEF DefaultProvider, Page!DefaultProvider
<1> DEFINE names == {"max_tool_turns", "max_history_messages", "session_idle_evict_days",
                     "max_tool_result_chars", "max_turn_tool_chars", "replay_full_turns",
                     "replay_max_full_turns", "replay_result_chars", "replay_turn_chars"}
<1>4. DOMAIN DefaultLimits = names
  BY SMT DEF DefaultLimits
<1>5. DOMAIN LimitRange = names
  BY SMT DEF LimitRange
<1>6. Page!DefaultLimits = DefaultLimits
  BY SMT DEF DefaultLimits, Page!DefaultLimits
<1>7. Page!LimitRange = LimitRange
  <2>1. \A lo, hi : Page!Within(lo, hi) = Within(lo, hi)
    BY DEF Within, Page!Within
  <2> QED BY <2>1, SMT DEF LimitRange, Page!LimitRange
<1> QED BY <1>1, <1>2, <1>3, <1>4, <1>5, <1>6, <1>7

LEMMA PatchedIs ==
  ASSUME NEW c, ConfigShape(c), OwnPatch(c.provider),
         NEW body, Page!Has(body, "provider") => OwnPatch(body.provider),
         NEW d, d = Page!ApplyProviderPatch(c, body)
  PROVE  /\ ConfigShape(d) /\ OwnPatch(d.provider) /\ d.limits = c.limits
         /\ Page!Has(body, "provider") => d.provider.kind = body.provider.kind
<1>1. CASE ~Page!Has(body, "provider")
  BY <1>1 DEF Page!ApplyProviderPatch
<1>2. CASE Page!Has(body, "provider")
  <2>1. PICK p : /\ d = [c EXCEPT !.provider = p] /\ DOMAIN p = DOMAIN c.provider
                 /\ \A f \in DOMAIN c.provider :
                      f # "max_tokens" /\ f \in DOMAIN body.provider => p[f] = body.provider[f]
    BY <1>2 DEF Page!ApplyProviderPatch
  <2>2. d.provider = p /\ d.limits = c.limits /\ ConfigShape(d)
    BY <2>1 DEF ConfigShape
  <2>3. p["kind"] = body.provider["kind"] /\ p["endpoint"] = body.provider["endpoint"]
    BY <1>2, <2>1, KindsAre DEF OwnPatch, ConfigShape
  <2>4. OwnPatch(p) /\ p.kind = body.provider.kind
    BY <1>2, <2>1, <2>3, KindsAre DEF OwnPatch, ConfigShape, OwnEndpoint
  <2> QED BY <2>2, <2>4
<1> QED BY <1>1, <1>2

LEMMA CandidateIs ==
  ASSUME NEW c, ConfigShape(c), OwnPatch(c.provider),
         NEW body, Page!Has(body, "provider") => OwnPatch(body.provider),
         NEW d, d = Page!Candidate(c, body)
  PROVE  /\ ConfigShape(d) /\ OwnPatch(d.provider)
         /\ \A f \in DOMAIN c.limits :
              d.limits[f] = IF Page!Has(body, "limits") /\ f \in DOMAIN body.limits
                            THEN body.limits[f] ELSE c.limits[f]
<1>1. PICK e : e = Page!ApplyProviderPatch(c, body)
  OBVIOUS
<1>2. ConfigShape(e) /\ OwnPatch(e.provider) /\ e.limits = c.limits
  BY <1>1, PatchedIs
<1>3. d = Page!ApplyLimitsPatch(e, body)
  BY <1>1 DEF Page!Candidate
<1>4. CASE ~Page!Has(body, "limits")
  BY <1>2, <1>3, <1>4 DEF Page!ApplyLimitsPatch
<1>5. CASE Page!Has(body, "limits")
  <2>1. PICK l : /\ d = [e EXCEPT !.limits = l] /\ DOMAIN l = DOMAIN e.limits
                 /\ \A f \in DOMAIN e.limits :
                      l[f] = IF f \in DOMAIN body.limits THEN body.limits[f] ELSE e.limits[f]
    BY <1>3, <1>5 DEF Page!ApplyLimitsPatch
  <2>2. d.limits = l /\ d.provider = e.provider /\ ConfigShape(d)
    BY <1>2, <2>1 DEF ConfigShape
  <2> QED BY <1>2, <1>5, <2>1, <2>2
<1> QED BY <1>4, <1>5

LEMMA RequestIs ==
  ASSUME NEW what, NEW arg, NEW n, n = Page!Request(what, arg)
  PROVE  RequestShape(n) /\ n.what = what /\ n.arg = arg /\ n.st = "sent"
BY DEF Page!Request, RequestShape

LEMMA TwoAre ==
  ASSUME NEW a, NEW b, NEW f, f = <<a, b>>
  PROVE  f \in Seq({a, b}) /\ {f[k] : k \in DOMAIN f} = {a, b}
<1>1. f \in Seq({a, b}) /\ DOMAIN f = {1, 2} /\ f[1] = a /\ f[2] = b
  OBVIOUS
<1> QED BY <1>1

LEMMA PageInit ==
  ASSUME Page!ConfigsAssumption
  PROVE  Page!Init => OwnInv /\ FitInv
<1> SUFFICES ASSUME Page!Init PROVE OwnInv /\ FitInv
  OBVIOUS
<1>1. /\ Listed(requests)
      /\ Asked = {Page!Request("capabilities", 0), Page!Request("config", 0)}
  <2>1. PICK a, b : a = Page!Request("capabilities", 0) /\ b = Page!Request("config", 0)
    OBVIOUS
  <2>2. requests = <<a, b>>
    BY <2>1 DEF Page!Init
  <2>3. requests \in Seq({a, b}) /\ {requests[k] : k \in DOMAIN requests} = {a, b}
    BY <2>2, TwoAre
  <2> QED BY <2>1, <2>3 DEF Listed, Asked
<1>2. \A r \in Asked : RequestShape(r) /\ r.what \in {"capabilities", "config"} /\ r.st = "sent"
  <2> SUFFICES ASSUME NEW r \in Asked
               PROVE  RequestShape(r) /\ r.what \in {"capabilities", "config"} /\ r.st = "sent"
    OBVIOUS
  <2>1. r = Page!Request("capabilities", 0) \/ r = Page!Request("config", 0)
    BY <1>1
  <2> QED BY <2>1, RequestIs
<1> USE DEF Page!Init
<1>3. FormShape(form) /\ OwnPatch(form) /\ form.limits = << >>
  BY KindsAre DEF Page!Blank, FormShape, OwnPatch, OwnEndpoint
<1>4. /\ ConfigShape(stored) /\ stored.provider.kind \in Page!Kinds /\ OwnEndpoint(stored.provider)
      /\ Page!LimitsFit([limits |-> stored.limits])
  <2>1. ConfigShape(stored) /\ stored.provider.kind \in Page!Kinds /\ Page!OwnEndpoint(stored.provider)
    BY KindsAre DEF ConfigShape, Page!Builds
  <2> QED BY <2>1 DEF OwnEndpoint, Page!OwnEndpoint
<1>5. PageShape /\ OwnPatch(stored.provider)
  BY <1>1, <1>2, <1>3, <1>4, KindsAre DEF PageShape, OwnPatch, Listed, ConfigShape
<1>6. \A r \in Asked : OwnRequest(r) /\ FitRequest(r)
  BY <1>2 DEF OwnRequest, FitRequest
<1>7. Filled(form.limits)
  <2>1. << >> \in Seq({}) /\ Len(<< >>) = 0
    OBVIOUS
  <2>2. DOMAIN << >> = 1 .. 0
    BY <2>1
  <2> QED BY <1>3, <2>2 DEF Filled
<1>8. InRange(stored.limits)
  BY <1>4, KindsAre DEF InRange, ConfigShape, Page!LimitsFit, Page!Has
<1> QED BY <1>3, <1>5, <1>6, <1>7, <1>8 DEF OwnInv, FitInv

LEMMA PatchIs ==
  ASSUME OwnInv
  PROVE  OwnPatch(Page!ProviderPatch(form)) /\ OwnPatch(Page!SavedPatch(form))
<1> DEFINE p == Page!ProviderPatch(form)
           s == Page!SavedPatch(form)
<1>1. /\ {"kind", "endpoint"} \subseteq DOMAIN p /\ p["kind"] = form["kind"]
      /\ p["endpoint"] = form["endpoint"]
  BY DEF Page!ProviderPatch
<1>2. /\ {"kind", "endpoint"} \subseteq DOMAIN s /\ s["kind"] = form["kind"]
      /\ s["endpoint"] = form["endpoint"]
  BY <1>1 DEF Page!SavedPatch
<1> QED BY <1>1, <1>2 DEF OwnInv, OwnPatch, OwnEndpoint

LEMMA OwnAnswers ==
  ASSUME OwnInv, NEW r \in Asked, NEW n, Settled(r, n)
  PROVE  RequestShape(n) /\ OwnRequest(n)
<1>1. RequestShape(n) /\ n.what = r.what /\ n.arg = r.arg /\ OwnRequest(r)
  BY DEF Settled, OwnInv
<1>2. ASSUME n.what = "config", n.st = "answered" PROVE OwnPatch(n.ans.provider)
  <2>1. n.ans = Page!GetConfig(stored)
    BY <1>1, <1>2 DEF Settled, Page!Answer
  <2>2. ConfigShape(stored) /\ OwnPatch(stored.provider)
    BY DEF OwnInv, PageShape
  <2> DEFINE p == [f \in DOMAIN stored.provider \ {"api_key"} |-> stored.provider[f]]
  <2>3. n.ans.provider = p
    BY <2>1 DEF Page!GetConfig
  <2>4. {"kind", "endpoint"} \subseteq DOMAIN p
    BY <2>2, KindsAre DEF ConfigShape
  <2>5. p["kind"] = stored.provider["kind"] /\ p["endpoint"] = stored.provider["endpoint"]
    BY <2>4
  <2> HIDE DEF p
  <2> QED BY <2>2, <2>3, <2>4, <2>5 DEF OwnPatch, OwnEndpoint
<1> QED BY <1>1, <1>2 DEF OwnRequest

LEMMA OwnNew ==
  ASSUME OwnInv, NEW n, NewRequest(n)
  PROVE  RequestShape(n) /\ OwnRequest(n)
<1>1. CASE n \in {Page!Request("status", 0), Page!Request("login", 0)}
  BY <1>1, RequestIs DEF OwnRequest
<1>2. CASE n = Page!Request("models", Page!ProviderPatch(form))
  BY <1>2, RequestIs, PatchIs DEF OwnRequest
<1>3. CASE n = Page!Request("save", [provider |-> Page!SavedPatch(form), limits |-> form.limits])
  <2>1. n.arg.provider = Page!SavedPatch(form) /\ n.what = "save" /\ RequestShape(n)
    BY <1>3, RequestIs
  <2> QED BY <2>1, PatchIs DEF OwnRequest
<1>4. ASSUME NEW what \in {"suggest", "derive"}, NEW q, n = Page!Request(what, q)
      PROVE  RequestShape(n) /\ OwnRequest(n)
  BY <1>4, RequestIs DEF OwnRequest
<1> QED BY <1>1, <1>2, <1>3, <1>4, OwnAnswers DEF NewRequest

LEMMA OwnStep ==
  ASSUME Page!ConfigPageAssumption, OwnInv, [Page!Next]_(Page!vars)
  PROVE  OwnInv'
<1>1. Moves
  BY PageMoves DEF OwnInv
<1>2. \A n \in Asked' : RequestShape(n) /\ OwnRequest(n)
  BY <1>1, OwnNew DEF Moves, ListMoves, OwnInv, PageShape
<1>3. ConfigShape(stored') /\ OwnPatch(stored'.provider)
  <2>1. CASE stored' = stored
    BY <2>1 DEF OwnInv, PageShape
  <2>2. ASSUME NEW r \in Asked, r.what = "save", stored' = Page!Candidate(stored, r.arg)
        PROVE  ConfigShape(stored') /\ OwnPatch(stored'.provider)
    BY <2>2, CandidateIs DEF OwnInv, PageShape, OwnRequest
  <2> QED BY <1>1, <2>1, <2>2 DEF Moves, StoredMoves
<1>4. FormShape(form') /\ OwnPatch(form')
  <2>1. FormShape(form') /\ {"kind", "endpoint"} \subseteq DOMAIN form'
    BY <1>1 DEF Moves, FormMoves, FormShape
  <2>2. Shown \subseteq Kinds
    BY KindsAre DEF Page!ConfigPageAssumption
  <2>3. form'.kind \in Kinds /\ form'.endpoint \in {"", form'.kind}
    BY <1>1, <2>2 DEF Moves, FormMoves, EndpointMoves, OwnInv, OwnPatch, OwnEndpoint, OwnRequest
  <2> QED BY <2>1, <2>3 DEF OwnPatch, OwnEndpoint
<1>5. PageShape'
  BY <1>1, <1>2, <1>3, <1>4 DEF PageShape, Moves, ListMoves, Listed
<1> QED BY <1>2, <1>3, <1>4, <1>5 DEF OwnInv

LEMMA OwnEndpoints ==
  ASSUME OwnInv
  PROVE  EndpointOfKind
<1>1. \A k \in DOMAIN requests : OwnRequest(requests[k])
  BY DEF OwnInv, Asked
<1>2. (\A body \in Sent("models") : OwnEndpoint(body)) /\ (\A body \in Sent("save") : OwnEndpoint(body.provider))
  BY <1>1 DEF Sent, OwnRequest, OwnPatch
<1> QED BY <1>2 DEF EndpointOfKind, OwnInv, OwnPatch

(* In whatever order answers and clicks come, the page never asks one provider for its models, nor
   saves it, with the endpoint of another: every request carries the kind and the endpoint that
   were in the form together, an answer replaces both or neither, and a switch of the kind clears
   the endpoint (routes.rs:1258-1261). *)
THEOREM EndpointsAreOwn ==
  ASSUME Page!ConfigPageAssumption, Page!ConfigsAssumption
  PROVE  Page!Spec => []EndpointOfKind
<1>1. Page!Init => OwnInv
  BY PageInit
<1>2. OwnInv /\ [Page!Next]_(Page!vars) => OwnInv'
  BY OwnStep
<1>3. OwnInv => EndpointOfKind
  BY OwnEndpoints
<1> QED BY <1>1, <1>2, <1>3, PTL DEF Page!Spec

-----------------------------------------------------------------------------
(* Caps. *)

LEMMA AtLeastIs ==
  ASSUME NEW n \in Nat, NEW m \in Nat, NEW lo \in Nat, NEW hi \in Nat
  PROVE  /\ lo <= m /\ m <= hi /\ n <= hi => Page!AtLeast(n, m) \in Within(lo, hi)
         /\ n > hi => Page!AtLeast(n, m) \notin Within(lo, hi)
BY DEF Page!AtLeast, Within

LEMMA DerivedFits ==
  ASSUME NEW c \in Nat
  PROVE  /\ c \in Windows =>
              \A f \in DOMAIN Page!DeriveLimits(c) : Page!DeriveLimits(c)[f] \in LimitRange[f]
         /\ c \notin Windows =>
              Page!DeriveLimits(c).max_turn_tool_chars \notin LimitRange.max_turn_tool_chars
         /\ DOMAIN Page!DeriveLimits(c) \subseteq DOMAIN LimitRange
<1> DEFINE d == Page!DeriveLimits(c)
           half  == (c * 7) \div 100
           turn  == (c * 91) \div 200
           again == (c * 63) \div 400
           keys == {"max_tool_result_chars", "max_turn_tool_chars", "replay_result_chars",
                    "replay_turn_chars"}
<1>1. half \in Nat /\ turn \in Nat /\ again \in Nat
  OBVIOUS
<1>2. c \in Windows <=> c <= 8791210
  BY SMT DEF Windows, LargestWindow
<1>3. /\ c <= 8791210 => half <= 1000000 /\ turn <= 4000000 /\ again <= 4000000
      /\ c > 8791210 => turn > 4000000
  BY SMT
<1>4. /\ DOMAIN d = keys
      /\ d.max_tool_result_chars = Page!AtLeast(half, 4000)
      /\ d.max_turn_tool_chars = Page!AtLeast(turn, 20000)
      /\ d.replay_result_chars = Page!AtLeast(half, 4000)
      /\ d.replay_turn_chars = Page!AtLeast(again, 8000)
  BY SMT DEF Page!DeriveLimits
<1>5. /\ keys \subseteq DOMAIN LimitRange
      /\ LimitRange.max_tool_result_chars = Within(1000, 1000000)
      /\ LimitRange.max_turn_tool_chars = Within(1000, 4000000)
      /\ LimitRange.replay_result_chars = Within(0, 1000000)
      /\ LimitRange.replay_turn_chars = Within(0, 4000000)
  BY SMT DEF LimitRange
<1> HIDE DEF half, turn, again, d
<1>6. c \in Windows => /\ d.max_tool_result_chars \in Within(1000, 1000000)
                       /\ d.max_turn_tool_chars \in Within(1000, 4000000)
                       /\ d.replay_result_chars \in Within(0, 1000000)
                       /\ d.replay_turn_chars \in Within(0, 4000000)
  <2> SUFFICES ASSUME c \in Windows
               PROVE  /\ d.max_tool_result_chars \in Within(1000, 1000000)
                      /\ d.max_turn_tool_chars \in Within(1000, 4000000)
                      /\ d.replay_result_chars \in Within(0, 1000000)
                      /\ d.replay_turn_chars \in Within(0, 4000000)
    OBVIOUS
  <2>1. half <= 1000000 /\ turn <= 4000000 /\ again <= 4000000
    BY <1>2, <1>3, SMT
  <2>2. Page!AtLeast(half, 4000) \in Within(1000, 1000000)
    BY <1>1, <2>1, AtLeastIs, SMT
  <2>3. Page!AtLeast(turn, 20000) \in Within(1000, 4000000)
    BY <1>1, <2>1, AtLeastIs, SMT
  <2>4. Page!AtLeast(half, 4000) \in Within(0, 1000000)
    BY <1>1, <2>1, AtLeastIs, SMT
  <2>5. Page!AtLeast(again, 8000) \in Within(0, 4000000)
    BY <1>1, <2>1, AtLeastIs, SMT
  <2> QED BY <1>4, <2>2, <2>3, <2>4, <2>5, SMT
<1>7. c \notin Windows => d.max_turn_tool_chars \notin Within(1000, 4000000)
  BY <1>1, <1>2, <1>3, <1>4, AtLeastIs, SMT
<1> QED BY <1>4, <1>5, <1>6, <1>7, SMT DEF d

(* No service has a model whose derived caps are out of range. *)
WindowsAreSmall ==
  \A kind \in Kinds : \A i \in DOMAIN Catalogue[kind] : Catalogue[kind][i].context \in Windows

LEMMA ListIs ==
  ASSUME Page!CatalogueAssumption, WindowsAreSmall, NEW kind \in Kinds,
         NEW l, l = Page!ListModels(kind, Catalogue[kind])
  PROVE  \A i \in DOMAIN l : l[i].context \in Windows
<1> DEFINE c == Catalogue[kind]
<1>1. \A i \in DOMAIN c :
        c[i].context \in Windows /\ c[i] = Page!Model(c[i].id, c[i].context, c[i].output)
  BY KindsAre DEF Page!CatalogueAssumption, WindowsAreSmall
<1>2. 0 \in Windows
  BY DEF Windows, LargestWindow
<1>3. \A id, context, output : Page!Model(id, context, output).context = context
  BY DEF Page!Model
<1>4. CASE kind = "mock"
  <2>1. l = <<Page!Model("mock-fast", 0, 0), Page!Model("mock-smart", 0, 0)>>
    BY <1>4 DEF Page!ListModels, Page!MockModels
  <2>2. \A i \in DOMAIN l :
          l[i] = Page!Model("mock-fast", 0, 0) \/ l[i] = Page!Model("mock-smart", 0, 0)
    BY <2>1
  <2> QED BY <1>2, <1>3, <2>2
<1>5. CASE kind = "anthropic"
  <2>1. l = [i \in DOMAIN c |-> Page!Model(c[i].id, 0, 0)]
    BY <1>5 DEF Page!ListModels, Page!AnthropicModels
  <2> QED BY <1>2, <1>3, <2>1
<1>6. CASE kind = "openai_compat"
  <2>1. l = c
    BY <1>6 DEF Page!ListModels, Page!OpenAIModels
  <2> QED BY <1>1, <2>1
<1>7. CASE kind = "chatgpt"
  <2>1. l = [i \in DOMAIN c |-> [c[i] EXCEPT !.output = 0]]
    BY <1>7 DEF Page!ListModels, Page!ChatGptModels
  <2>2. \A i \in DOMAIN c : [c[i] EXCEPT !.output = 0].context = c[i].context
    BY <1>1 DEF Page!Model
  <2> QED BY <1>1, <2>1, <2>2
<1> QED BY <1>4, <1>5, <1>6, <1>7, KindsAre

LEMMA FilledIs ==
  ASSUME NEW caps, Filled(caps), NEW limits, Filled(limits)
  PROVE  Filled(Page!FillLimits(caps, limits))
BY DEF Filled, Page!FillLimits

LEMMA TypedIs ==
  Filled([max_tool_result_chars |-> Typed])
BY DEF Filled, CapFits

LEMMA FitAnswers ==
  ASSUME Page!CatalogueAssumption, WindowsAreSmall, OwnInv, FitInv,
         NEW r \in Asked, NEW n, Settled(r, n)
  PROVE  FitRequest(n)
<1>1. n.what = r.what /\ n.arg = r.arg /\ FitRequest(r) /\ OwnRequest(r)
  BY DEF Settled, FitInv, OwnInv
<1>2. ASSUME n.st \in {"answered", "refused"}
      PROVE  n.ans = Page!Answer(r).val /\ (n.st = "answered" <=> Page!Answer(r).ok)
  BY <1>2 DEF Settled
<1>3. ASSUME n.what = "save", n.st = "refused" PROVE ~Page!LimitsFit(n.arg)
  <2>1. Page!Answer(r).ok = Page!LimitsFit(r.arg)
    BY <1>1, <1>3 DEF Page!Answer
  <2> QED BY <1>1, <1>2, <1>3, <2>1
<1>4. ASSUME n.what = "config", n.st = "answered" PROVE InRange(n.ans.limits)
  <2>1. n.ans = Page!GetConfig(stored)
    BY <1>1, <1>2, <1>4 DEF Page!Answer
  <2>2. n.ans.limits = stored.limits
    BY <2>1 DEF Page!GetConfig
  <2> QED BY <2>2 DEF FitInv
<1>5. ASSUME n.what = "models", n.st = "answered"
      PROVE  \A i \in DOMAIN n.ans : n.ans[i].context \in Windows
  <2> DEFINE patched == Page!ApplyProviderPatch(stored, [provider |-> r.arg])
             moved   == r.arg.endpoint # stored.provider.endpoint /\ "api_key" \notin DOMAIN r.arg
             cand    == IF moved THEN [patched EXCEPT !.provider.api_key = ""] ELSE patched
             kind    == cand.provider.kind
  <2>1. n.ans = Page!ListModels(kind, Catalogue[kind])
    BY <1>1, <1>2, <1>5 DEF Page!Answer, Page!ModelsOf
  <2>2. OwnPatch(r.arg)
    BY <1>1, <1>5 DEF OwnRequest
  <2>3. ConfigShape(patched) /\ OwnPatch(patched.provider)
    <3> DEFINE body == [provider |-> r.arg]
    <3>1. Page!Has(body, "provider") => OwnPatch(body.provider)
      BY <2>2
    <3> HIDE DEF body
    <3>2. ConfigShape(stored) /\ OwnPatch(stored.provider)
      BY DEF OwnInv, PageShape
    <3>3. patched = Page!ApplyProviderPatch(stored, body)
      BY DEF body
    <3> HIDE DEF patched
    <3> QED BY <3>1, <3>2, <3>3, PatchedIs
  <2> HIDE DEF patched
  <2>4. [patched EXCEPT !.provider.api_key = ""].provider.kind = patched.provider.kind
    BY <2>3, KindsAre, Zenon DEF ConfigShape, OwnPatch
  <2>5. kind \in Kinds
    BY <2>3, <2>4, Zenon DEF OwnPatch
  <2> HIDE DEF kind
  <2> QED BY <2>1, <2>5, ListIs
<1>6. ASSUME n.what \in {"suggest", "derive"}, n.st = "answered" PROVE Filled(n.ans.limits)
  <2>1. n.ans.limits = Page!DeriveLimits(r.arg.context)
    BY <1>1, <1>2, <1>6 DEF Page!Answer
  <2>2. r.arg.context \in Windows /\ r.arg.context \in Nat
    BY <1>1, <1>6 DEF FitRequest, Windows
  <2> QED BY <2>1, <2>2, DerivedFits DEF Filled, CapFits
<1>7. ASSUME n.what = "save"
      PROVE  "limits" \in DOMAIN n.arg /\ Filled(n.arg.limits)
  BY <1>1, <1>7 DEF FitRequest
<1>8. ASSUME n.what \in {"suggest", "derive"} PROVE n.arg.context \in Windows
  <2>1. r.what \in {"suggest", "derive"} /\ r.arg.context \in Windows
    BY <1>1, <1>8 DEF FitRequest
  <2> QED BY <1>1, <2>1
<1> QED BY <1>3, <1>4, <1>5, <1>6, <1>7, <1>8, Zenon DEF FitRequest

LEMMA FitNew ==
  ASSUME Page!CatalogueAssumption, WindowsAreSmall, OwnInv, FitInv, NEW n, NewRequest(n)
  PROVE  FitRequest(n)
<1>1. CASE n \in {Page!Request("status", 0), Page!Request("login", 0)}
  BY <1>1, RequestIs DEF FitRequest
<1>2. CASE n = Page!Request("models", Page!ProviderPatch(form))
  BY <1>2, RequestIs DEF FitRequest
<1>3. CASE n = Page!Request("save", [provider |-> Page!SavedPatch(form), limits |-> form.limits])
  <2>1. /\ n.arg.limits = form.limits /\ "limits" \in DOMAIN n.arg
        /\ n.what = "save" /\ n.st = "sent"
    BY <1>3, RequestIs
  <2> QED BY <2>1 DEF FitRequest, FitInv
<1>4. ASSUME NEW what \in {"suggest", "derive"}, NEW q,
             q.context \in {32768} \cup {m.context : m \in known},
             n = Page!Request(what, q)
      PROVE  FitRequest(n)
  <2>1. n.what = what /\ n.arg = q /\ n.st = "sent"
    BY <1>4, RequestIs
  <2>2. 32768 \in Windows
    BY SMT DEF Windows, LargestWindow
  <2>3. q.context \in Windows
    BY <1>4, <2>2 DEF FitInv
  <2> QED BY <2>1, <2>3 DEF FitRequest
<1> QED BY <1>1, <1>2, <1>3, <1>4, FitAnswers DEF NewRequest

LEMMA FitStep ==
  ASSUME Page!ConfigPageAssumption, Page!CatalogueAssumption, WindowsAreSmall, OwnInv, FitInv,
         [Page!Next]_(Page!vars)
  PROVE  FitInv'
<1>1. Moves
  BY PageMoves DEF OwnInv
<1>2. \A n \in Asked' : FitRequest(n)
  BY <1>1, FitNew DEF Moves, ListMoves, FitInv
<1>3. InRange(stored'.limits)
  <2>1. ConfigShape(stored) /\ OwnPatch(stored.provider) /\ InRange(stored.limits)
    BY DEF OwnInv, PageShape, FitInv
  <2>2. ASSUME NEW r \in Asked, r.what = "save", Page!LimitsFit(r.arg),
               stored' = Page!Candidate(stored, r.arg)
        PROVE  InRange(stored'.limits)
    <3>1. Page!Has(r.arg, "provider") => OwnPatch(r.arg.provider)
      BY <2>2 DEF OwnInv, OwnRequest
    <3>2. /\ ConfigShape(stored')
          /\ \A f \in DOMAIN stored.limits :
               stored'.limits[f] = IF Page!Has(r.arg, "limits") /\ f \in DOMAIN r.arg.limits
                                   THEN r.arg.limits[f] ELSE stored.limits[f]
      BY <2>1, <2>2, <3>1, CandidateIs
    <3>3. DOMAIN stored'.limits = DOMAIN LimitRange /\ DOMAIN stored.limits = DOMAIN LimitRange
      BY <2>1, <3>2, KindsAre DEF ConfigShape
    <3>4. ASSUME NEW f \in DOMAIN LimitRange, Page!Has(r.arg, "limits"), f \in DOMAIN r.arg.limits
          PROVE  r.arg.limits[f] \in LimitRange[f]
      BY <2>2, <3>4, KindsAre DEF Page!LimitsFit
    <3> QED BY <2>1, <3>2, <3>3, <3>4 DEF InRange
  <2> QED BY <1>1, <2>1, <2>2 DEF Moves, StoredMoves
<1>4. Filled(form'.limits)
  <2>1. CASE form'.limits = form.limits
    BY <2>1 DEF FitInv
  <2>2. CASE form'.limits = Page!FillLimits([max_tool_result_chars |-> Typed], form.limits)
    BY <2>2, TypedIs, FilledIs DEF FitInv
  <2>3. ASSUME NEW r \in Asked, r.what \in {"suggest", "derive"}, r.st = "answered",
               form'.limits = Page!FillLimits(r.ans.limits, form.limits)
        PROVE  Filled(form'.limits)
    BY <2>3, FilledIs DEF FitInv, FitRequest
  <2>4. ASSUME NEW r \in Asked, r.what = "config", r.st = "answered",
               form'.limits = [key \in Page!LIMIT_KEYS |-> r.ans.limits[key]]
        PROVE  Filled(form'.limits)
    <3>1. InRange(r.ans.limits)
      BY <2>4 DEF FitInv, FitRequest
    <3> QED BY <2>4, <3>1 DEF InRange, Filled, CapFits
  <2> QED BY <1>1, <2>1, <2>2, <2>3, <2>4 DEF Moves, FormMoves, CapsMove
<1>5. \A m \in known' : m.context \in Windows
  <2>1. ASSUME NEW r \in Asked, r.what = "models", r.st = "answered", known' = Page!ToSet(r.ans)
        PROVE  \A m \in known' : m.context \in Windows
    BY <2>1 DEF FitInv, FitRequest, Page!ToSet
  <2> QED BY <1>1, <2>1 DEF Moves, KnownMoves, FitInv
<1> QED BY <1>2, <1>3, <1>4, <1>5 DEF FitInv

LEMMA RefusedIsTyped ==
  ASSUME FitInv
  PROVE  SuggestionsFit
<1> SUFFICES ASSUME NEW k \in DOMAIN requests, requests[k].what = "save", requests[k].st = "refused"
             PROVE  requests[k].arg.limits.max_tool_result_chars = Typed
  BY DEF SuggestionsFit
<1>1. PICK r \in Asked : r = requests[k]
  BY DEF Asked
<1>2. Filled(r.arg.limits) /\ ~Page!LimitsFit(r.arg)
  <2>1. r.what = "save" /\ r.st = "refused" /\ FitRequest(r)
    BY <1>1 DEF FitInv
  <2> QED BY <2>1 DEF FitRequest
<1>3. PICK f \in DOMAIN r.arg.limits \cap DOMAIN LimitRange : r.arg.limits[f] \notin LimitRange[f]
  BY <1>2, KindsAre DEF Page!LimitsFit
<1>4. f = "max_tool_result_chars" /\ r.arg.limits[f] = Typed
  BY <1>2, <1>3 DEF Filled, CapFits
<1> QED BY <1>1, <1>4

(* The caps the daemon derives from a window are in the ranges it checks exactly for windows of up
   to 8 791 210 tokens: over that, the cap of a turn is above its maximum (config.rs:342,
   routes.rs:530). *)
THEOREM DerivedCapsFit ==
  ASSUME NEW context \in Nat
  PROVE  LimitsFit([limits |-> DeriveLimits(context)]) <=> context <= LargestWindow
<1> SUFFICES ASSUME NEW d, d = DeriveLimits(context)
             PROVE  LimitsFit([limits |-> d]) <=> context <= LargestWindow
  OBVIOUS
<1>1. Page!DeriveLimits(context) = d
  BY SMT DEF Page!DeriveLimits, DeriveLimits, Page!AtLeast, AtLeast
<1>2. context \in Windows <=> context <= LargestWindow
  BY SMT DEF Windows
<1>3. "max_turn_tool_chars" \in DOMAIN d \cap DOMAIN LimitRange
  BY SMT DEF DeriveLimits, LimitRange
<1>4. LimitsFit([limits |-> d]) <=>
        \A f \in DOMAIN d \cap DOMAIN LimitRange : d[f] \in LimitRange[f]
  BY DEF LimitsFit, Has
<1>5. context \in Windows => \A f \in DOMAIN d : d[f] \in LimitRange[f]
  BY <1>1, DerivedFits
<1>6. context \notin Windows => d["max_turn_tool_chars"] \notin LimitRange["max_turn_tool_chars"]
  BY <1>1, DerivedFits
<1> QED BY <1>2, <1>3, <1>4, <1>5, <1>6, Zenon

(* The daemon refuses a cap only if the reviewer typed it, as long as no service lists a model with
   a window over the largest that fits: the formulas of the caps and their ranges agree, whatever
   answers come late (config.rs:342, routes.rs:530). *)
THEOREM SuggestionsAreTaken ==
  ASSUME Page!ConfigPageAssumption, Page!ConfigsAssumption, Page!CatalogueAssumption,
         WindowsAreSmall
  PROVE  Page!Spec => []SuggestionsFit
<1>1. Page!Init => OwnInv /\ FitInv
  BY PageInit
<1>2. OwnInv /\ FitInv /\ [Page!Next]_(Page!vars) => OwnInv' /\ FitInv'
  BY OwnStep, FitStep
<1>3. FitInv => SuggestionsFit
  BY RefusedIsTyped
<1> QED BY <1>1, <1>2, <1>3, PTL DEF Page!Spec
=============================================================================
