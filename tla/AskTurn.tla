------------------------------ MODULE AskTurn ------------------------------
(***************************************************************************)
(* One "ask" of the review daemon, from the WebSocket upgrade to the rows   *)
(* it leaves in the store (server/ws.rs, agent/loop_.rs).                   *)
(*                                                                         *)
(* Three flows of control share each ask:                                   *)
(*   - the handler `handle_ws`, a task of its own;                          *)
(*   - the agent future `run_turn`, which is not a task: it only moves      *)
(*     while the handler polls it in its `select!` (pc = "run");            *)
(*   - the reader task, which notices that the client is gone.              *)
(* They meet at two tokio mutexes, the socket's writer and the store, both  *)
(* first-in-first-out and both handed to the next waiter whether or not     *)
(* anybody polls it any more.                                               *)
(*                                                                         *)
(* A step is one poll between two awaits.  Text is counted in deltas.       *)
(***************************************************************************)
EXTENDS Naturals, Sequences

CONSTANTS
  Asks,          \* ask attempts: requests to GET /sessions/{id}/ask
  Sessions,      \* session ids
  SessionOf,     \* the session each attempt addresses
  RestUsers,     \* other tasks using the store (REST routes, other turns)
  MaxDeltas,     \* bound: text deltas one provider conversation produces
  MaxRounds,     \* limits.max_tool_turns
  MayStall,      \* TRUE: the client may leave its receive window full
  StoreMayFail   \* TRUE: a store write may fail (disk full, I/O error)

ASSUME SessionOfAssumption == SessionOf \in [Asks -> Sessions]
ASSUME BoundsAssumption == MaxDeltas \in Nat /\ MaxRounds \in Nat
ASSUME SwitchAssumption == MayStall \in BOOLEAN /\ StoreMayFail \in BOOLEAN
ASSUME WaitersDistinct == RestUsers \cap (Asks \X {"agent", "handler"}) = {}

VARIABLES
  sessions,  \* rows of table `sessions`
  rows,      \* rows of table `turns` of kind question
  busy,      \* AppState.busy_sessions
  storeQ,    \* Store.inner: its holder, then the waiters in order
  pc,        \* where each handler is
  turn,      \* the state inside each agent future
  ws         \* each WebSocket: the connection, its writer, its reader task

vars == <<sessions, rows, busy, storeQ, pc, turn, ws>>

(* Where a handler can be.  It owns a BusyGuard exactly in `Live`. *)
Live == {"upgrade", "init", "session", "tools", "run", "cancel", "error", "close"}
Upgraded == Live \ {"upgrade"}

Waiters == RestUsers \cup (Asks \X {"agent", "handler"})

Frames == {"delta", "call", "result", "note", "error", "done"}

TurnStates ==
  [at : {"none", "history", "stream", "tools", "sending", "persist", "fail", "returned"},
   out : Frames,        \* the frame being sent when at = "sending"
   round : Nat,
   forced : BOOLEAN,    \* in force_answer
   buf : Nat,           \* text_buf of this round
   answer : Nat]        \* TurnState.answer

Sockets ==
  [net : {"up", "stalled", "gone"},
   reader : {"none", "reading", "ended"},
   writer : {"free", "agent"},   \* who holds the WsSink mutex across an await
   partial : Nat,                \* PartialAnswer
   seen : Nat,                   \* deltas that reached the client
   done : BOOLEAN]               \* the client received the `done` frame

Rows == [ask : Asks, status : {"ok", "error", "cancelled"}, answer : Nat]

Init ==
  /\ sessions = Sessions
  /\ rows = {}
  /\ busy = {}
  /\ storeQ = <<>>
  /\ pc = [a \in Asks |-> "idle"]
  /\ turn = [a \in Asks |-> [at |-> "none", out |-> "done", round |-> 0,
                             forced |-> FALSE, buf |-> 0, answer |-> 0]]
  /\ ws = [a \in Asks |-> [net |-> "up", reader |-> "none", writer |-> "free",
                           partial |-> 0, seen |-> 0, done |-> FALSE]]

-----------------------------------------------------------------------------
(* The store mutex.  A task that finds it free runs its whole operation in  *)
(* one poll; otherwise it queues and runs when it is at the head.           *)

Granted(w) == storeQ # <<>> => Head(storeQ) = w

Release == storeQ' = IF storeQ = <<>> THEN <<>> ELSE Tail(storeQ)

Queued(w) == \E i \in DOMAIN storeQ : storeQ[i] = w

Enqueue(w) ==
  /\ storeQ # <<>>
  /\ ~Queued(w)
  /\ storeQ' = Append(storeQ, w)
  /\ UNCHANGED <<sessions, rows, busy, pc, turn, ws>>

(* Mutant of CanInsert: the error row gets a turn_id of its own. *)
CanInsertFreshId(a, status) == SessionOf[a] \in sessions

(* insert_turn_auto_ordinal: the foreign key needs the session, and an agent
   row's turn_id is the primary key the same agent may have used before. *)
CanInsert(a, status) ==
  /\ SessionOf[a] \in sessions
  /\ status # "cancelled" => \A r \in rows : r.ask = a => r.status = "cancelled"

(* The two outcomes of an insert: `ok` says which one this is. *)
Insert(a, status, text, ok) ==
  /\ ok => CanInsert(a, status)
  /\ ~ok => StoreMayFail \/ ~CanInsert(a, status)
  /\ rows' = IF ok THEN rows \cup {[ask |-> a, status |-> status, answer |-> text]}
                   ELSE rows
  /\ UNCHANGED sessions

-----------------------------------------------------------------------------
(* The handler up to its select!. *)

MoveTo(a, p) == pc' = [pc EXCEPT ![a] = p]

(* handle_ws returns and the future that owns the BusyGuard is dropped. *)
DropGuard(a) ==
  /\ MoveTo(a, "done")
  /\ busy' = busy \ {SessionOf[a]}

(* Mutant of WsAskHandler: the guard is built before the claim is tested, so
   answering 409 drops it and frees the slot of the turn in flight. *)
RefusalFreesSlot(a) ==
  /\ pc[a] = "idle"
  /\ IF SessionOf[a] \in busy
       THEN MoveTo(a, "refused") /\ busy' = busy \ {SessionOf[a]}
       ELSE MoveTo(a, "upgrade") /\ busy' = busy \cup {SessionOf[a]}
  /\ UNCHANGED <<sessions, rows, storeQ, turn, ws>>

(* ws_ask_handler with BusyGuard::try_claim: claim the slot or answer 409. *)
WsAskHandler(a) ==
  /\ pc[a] = "idle"
  /\ IF SessionOf[a] \in busy
       THEN MoveTo(a, "refused") /\ UNCHANGED busy
       ELSE MoveTo(a, "upgrade") /\ busy' = busy \cup {SessionOf[a]}
  /\ UNCHANGED <<sessions, rows, storeQ, turn, ws>>

(* The upgrade completes, or axum drops the future and the guard with it. *)
Upgrade(a) ==
  /\ pc[a] = "upgrade"
  /\ \/ MoveTo(a, "init") /\ UNCHANGED busy
     \/ DropGuard(a)
  /\ UNCHANGED <<sessions, rows, storeQ, turn, ws>>

(* The first frame: a valid AskInit, one whose selection its verb refuses
   (an error frame and a close follow), or nothing usable. *)
ReadInit(a) ==
  /\ pc[a] = "init"
  /\ \/ /\ ws[a].net # "gone"
        /\ MoveTo(a, "session") \/ MoveTo(a, "error")
        /\ UNCHANGED busy
     \/ DropGuard(a)
  /\ UNCHANGED <<sessions, rows, storeQ, turn, ws>>

GetSession(a) ==
  /\ pc[a] = "session"
  /\ Granted(<<a, "handler">>)
  /\ Release
  /\ IF SessionOf[a] \in sessions
       THEN MoveTo(a, "tools") /\ UNCHANGED busy
       ELSE DropGuard(a)
  /\ UNCHANGED <<sessions, rows, turn, ws>>

(* code_daemon.list_tools; then the reader is spawned and run_turn pinned. *)
ListTools(a) ==
  /\ pc[a] = "tools"
  /\ \/ /\ MoveTo(a, "run")
        /\ turn' = [turn EXCEPT ![a].at = "history"]
        /\ ws' = [ws EXCEPT ![a].reader = "reading"]
        /\ UNCHANGED busy
     \/ DropGuard(a) /\ UNCHANGED <<turn, ws>>
  /\ UNCHANGED <<sessions, rows, storeQ>>

-----------------------------------------------------------------------------
(* The agent future.  It moves only while the handler polls it. *)

Polled(a) == pc[a] = "run"

Forced(t) == [t EXCEPT !.at = "stream", !.forced = TRUE, !.buf = 0]

(* Mutant of NextRound: the round limit is never reached. *)
NextRoundUnbounded(t) == [t EXCEPT !.at = "stream", !.buf = 0]

(* The head of the round loop: another round, or force_answer. *)
NextRound(t) ==
  IF t.round = MaxRounds
    THEN Forced(t)
    ELSE [t EXCEPT !.at = "stream", !.round = @ + 1, !.buf = 0]

Sending(t, frame) == [t EXCEPT !.at = "sending", !.out = frame]

(* Mutants: a tool round forgets its text; `done` is sent before the commit. *)
ToolRoundDropsText(t) ==
  [t EXCEPT !.at = "sending", !.out = "call", !.buf = 0]

FinalRoundDoneFirst(t) ==
  [t EXCEPT !.at = "sending", !.out = "done", !.answer = @ + t.buf]

(* The three ways a round's text joins the answer; in force_answer a closing
   note counts as one more delta. *)
ToolRound(t) ==
  [t EXCEPT !.at = "sending", !.out = "call", !.answer = @ + t.buf, !.buf = 0]

FinalRound(t) == [t EXCEPT !.at = "persist", !.answer = @ + t.buf]

ForcedFinal(t) ==
  [t EXCEPT !.at = "sending", !.out = "note", !.answer = @ + t.buf + 1]

(* What the agent does once the frame is out.  A stalled turn (two rounds of
   repeated calls, so never before round 3) leaves the loop early. *)
AfterSend(t) ==
  CASE t.out = "delta" -> {[t EXCEPT !.at = "stream", !.buf = @ + 1]}
    [] t.out = "call" -> {[t EXCEPT !.at = "tools"]}
    [] t.out = "result" -> {NextRound(t)} \cup {u \in {Forced(t)} : t.round >= 3}
    [] t.out = "note" -> {[t EXCEPT !.at = "persist"]}
    [] t.out = "error" -> {[t EXCEPT !.at = "fail"]}
    [] t.out = "done" -> {[t EXCEPT !.at = "returned"]}

Failed(t) == [t EXCEPT !.at = "fail"]

(* build_history_messages reads the store before the first round. *)
AgentHistory(a) ==
  /\ Polled(a) /\ turn[a].at = "history"
  /\ Granted(<<a, "agent">>)
  /\ Release
  /\ \E t \in {NextRound(turn[a])} \cup {u \in {Failed(turn[a])} : StoreMayFail} :
       turn' = [turn EXCEPT ![a] = t]
  /\ UNCHANGED <<sessions, rows, busy, pc, ws>>

(* A text delta: `partial` grows before the frame is sent, `text_buf` after. *)
AgentDelta(a) ==
  /\ Polled(a) /\ turn[a].at = "stream"
  /\ ws[a].partial < MaxDeltas
  /\ ws' = [ws EXCEPT ![a].partial = @ + 1]
  /\ turn' = [turn EXCEPT ![a] = Sending(@, "delta")]
  /\ UNCHANGED <<sessions, rows, busy, storeQ, pc>>

(* `Done` with tool calls: the text joins the answer, the call frames go out. *)
AgentToolUse(a) ==
  /\ Polled(a) /\ turn[a].at = "stream" /\ ~turn[a].forced
  /\ turn' = [turn EXCEPT ![a] = ToolRound(@)]
  /\ UNCHANGED <<sessions, rows, busy, storeQ, pc, ws>>

(* `Done` without tool calls is the final answer. *)
AgentFinal(a) ==
  /\ Polled(a) /\ turn[a].at = "stream" /\ ~turn[a].forced
  /\ turn' = [turn EXCEPT ![a] = FinalRound(@)]
  /\ UNCHANGED <<sessions, rows, busy, storeQ, pc, ws>>

(* force_answer: any end of the stream is final; a note closes the answer. *)
AgentForcedFinal(a) ==
  /\ Polled(a) /\ turn[a].at = "stream" /\ turn[a].forced
  /\ turn' = [turn EXCEPT ![a] = ForcedFinal(@)]
  /\ ws' = [ws EXCEPT ![a].partial = @ + 1]
  /\ UNCHANGED <<sessions, rows, busy, storeQ, pc>>

(* The provider reports an error event (a frame first), or the stream breaks. *)
AgentStreamError(a) ==
  /\ Polled(a) /\ turn[a].at = "stream"
  /\ \E t \in {Sending(turn[a], "error"), Failed(turn[a])} :
       turn' = [turn EXCEPT ![a] = t]
  /\ UNCHANGED <<sessions, rows, busy, storeQ, pc, ws>>

(* Every tool of the round has answered (dispatch never fails the turn). *)
AgentToolsDone(a) ==
  /\ Polled(a) /\ turn[a].at = "tools"
  /\ turn' = [turn EXCEPT ![a] = Sending(@, "result")]
  /\ UNCHANGED <<sessions, rows, busy, storeQ, pc, ws>>

(* WebSocketFrameSink::send by the agent.  On an open connection the frame is
   out at once; on a stalled one the agent keeps the writer mutex across the
   await; on a lost one the kernel may still swallow the frame. *)
Delivered(s, frame) ==
  [s EXCEPT !.writer = "free",
            !.seen = IF frame \in {"delta", "note"} THEN @ + 1 ELSE @,
            !.done = @ \/ frame = "done"]

(* The agent resolves the select!: Ok after `done`, otherwise it goes on. *)
GoOn(a, t) ==
  /\ turn' = [turn EXCEPT ![a] = t]
  /\ pc' = IF t.at = "returned" THEN [pc EXCEPT ![a] = "close"] ELSE pc

AgentSend(a) ==
  /\ Polled(a) /\ turn[a].at = "sending"
  /\ \/ /\ ws[a].net = "up"
        /\ \E t \in AfterSend(turn[a]) : GoOn(a, t)
        /\ ws' = [ws EXCEPT ![a] = Delivered(@, turn[a].out)]
     \/ /\ ws[a].net = "stalled" /\ ws[a].writer = "free"
        /\ ws' = [ws EXCEPT ![a].writer = "agent"]
        /\ UNCHANGED <<turn, pc>>
     \/ /\ ws[a].net = "gone"
        /\ \E t \in AfterSend(turn[a]) \cup {Failed(turn[a])} : GoOn(a, t)
        /\ ws' = [ws EXCEPT ![a].writer = "free"]
  /\ UNCHANGED <<sessions, rows, busy, storeQ>>

(* finish: the row first, `done` only once it is committed. *)
AgentPersistOk(a) ==
  /\ Polled(a) /\ turn[a].at = "persist"
  /\ Granted(<<a, "agent">>)
  /\ Release
  /\ \E ok \in BOOLEAN :
       /\ Insert(a, "ok", turn[a].answer, ok)
       /\ turn' = [turn EXCEPT ![a] = IF ok THEN Sending(@, "done") ELSE Failed(@)]
  /\ UNCHANGED <<busy, pc, ws>>

(* run_turn's error tail: an error row under the same turn_id, then Err. *)
AgentPersistError(a) ==
  /\ Polled(a) /\ turn[a].at = "fail"
  /\ Granted(<<a, "agent">>)
  /\ Release
  /\ \E ok \in BOOLEAN : Insert(a, "error", turn[a].answer, ok)
  /\ turn' = [turn EXCEPT ![a].at = "returned"]
  /\ MoveTo(a, "error")
  /\ UNCHANGED <<busy, ws>>

AgentQueues(a) ==
  /\ Polled(a) /\ turn[a].at \in {"history", "persist", "fail"}
  /\ Enqueue(<<a, "agent">>)

Agent(a) ==
  \/ AgentHistory(a) \/ AgentDelta(a) \/ AgentToolUse(a) \/ AgentFinal(a)
  \/ AgentForcedFinal(a) \/ AgentStreamError(a) \/ AgentToolsDone(a)
  \/ AgentSend(a) \/ AgentPersistOk(a) \/ AgentPersistError(a)
  \/ AgentQueues(a)

-----------------------------------------------------------------------------
(* The rest of the handler, and the reader task. *)

(* The reader task sees the connection end. *)
ReaderEnds(a) ==
  /\ ws[a].reader = "reading" /\ ws[a].net = "gone"
  /\ ws' = [ws EXCEPT ![a].reader = "ended"]
  /\ UNCHANGED <<sessions, rows, busy, storeQ, pc, turn>>

(* Mutant of ReaderArm: a lost client ends the handler with no row. *)
ReaderArmNoRow(a) ==
  /\ pc[a] = "run" /\ ws[a].reader = "ended"
  /\ MoveTo(a, "error")
  /\ UNCHANGED <<sessions, rows, busy, storeQ, turn, ws>>

(* select! takes the reader arm.  `agent_fut` is pinned outside the select!:
   nobody polls it any more, and it is dropped only when handle_ws returns. *)
ReaderArm(a) ==
  /\ pc[a] = "run" /\ ws[a].reader = "ended"
  /\ MoveTo(a, "cancel")
  /\ UNCHANGED <<sessions, rows, busy, storeQ, turn, ws>>

(* persist_cancelled: a row of its own with the text streamed so far. *)
PersistCancelled(a) ==
  /\ pc[a] = "cancel"
  /\ Granted(<<a, "handler">>)
  /\ Release
  /\ \E ok \in BOOLEAN : Insert(a, "cancelled", ws[a].partial, ok)
  /\ MoveTo(a, "error")
  /\ UNCHANGED <<busy, turn, ws>>

HandlerQueues(a) ==
  /\ pc[a] \in {"session", "cancel"}
  /\ Enqueue(<<a, "handler">>)

(* The handler sends a last frame itself: it needs the writer mutex, and a
   client that reads or is gone. *)
WriterFree(a) == ws[a].writer = "free" /\ ws[a].net # "stalled"

(* sink.error, best effort. *)
SendError(a) ==
  /\ pc[a] = "error" /\ WriterFree(a)
  /\ MoveTo(a, "close")
  /\ UNCHANGED <<sessions, rows, busy, storeQ, turn, ws>>

(* The Close frame, then handle_ws returns. *)
SendClose(a) ==
  /\ pc[a] = "close" /\ WriterFree(a)
  /\ DropGuard(a)
  /\ UNCHANGED <<sessions, rows, storeQ, turn, ws>>

Handler(a) ==
  \/ WsAskHandler(a) \/ Upgrade(a) \/ ReadInit(a) \/ GetSession(a) \/ ListTools(a)
  \/ ReaderArm(a) \/ PersistCancelled(a) \/ HandlerQueues(a)
  \/ SendError(a) \/ SendClose(a)

-----------------------------------------------------------------------------
(* The client, the other users of the store, and a crash of the daemon. *)

Stall(a) ==
  /\ MayStall /\ pc[a] \in Upgraded /\ ws[a].net = "up"
  /\ ws' = [ws EXCEPT ![a].net = "stalled"]
  /\ UNCHANGED <<sessions, rows, busy, storeQ, pc, turn>>

Drain(a) ==
  /\ ws[a].net = "stalled"
  /\ ws' = [ws EXCEPT ![a].net = "up"]
  /\ UNCHANGED <<sessions, rows, busy, storeQ, pc, turn>>

Disconnect(a) ==
  /\ pc[a] \in Upgraded /\ ws[a].net # "gone"
  /\ ws' = [ws EXCEPT ![a].net = "gone"]
  /\ UNCHANGED <<sessions, rows, busy, storeQ, pc, turn>>

(* Another task asks for the store ... *)
RestLock(u) ==
  /\ ~Queued(u)
  /\ storeQ' = Append(storeQ, u)
  /\ UNCHANGED <<sessions, rows, busy, pc, turn, ws>>

(* ... and uses it; DELETE /sessions/{id} does not look at busy_sessions, and
   takes the session's turns along (ON DELETE CASCADE). *)
DeleteSession(s) ==
  /\ sessions' = sessions \ {s}
  /\ rows' = {r \in rows : SessionOf[r.ask] # s}

RestServe(u) ==
  /\ storeQ # <<>> /\ Head(storeQ) = u
  /\ Release
  /\ \/ UNCHANGED <<sessions, rows>>
     \/ \E s \in sessions : DeleteSession(s)
  /\ UNCHANGED <<busy, pc, turn, ws>>

(* The daemon dies and is restarted: busy_sessions, every task and every
   connection are gone, the database stays. *)
Killed(s) == [s EXCEPT !.net = "gone", !.reader = "none", !.writer = "free"]

Restart ==
  /\ pc' = [a \in Asks |-> IF pc[a] \in Live THEN "lost" ELSE pc[a]]
  /\ busy' = {}
  /\ storeQ' = <<>>
  /\ ws' = [a \in Asks |-> IF pc[a] = "idle" THEN ws[a] ELSE Killed(ws[a])]
  /\ UNCHANGED <<sessions, rows, turn>>

Environment(a) == Stall(a) \/ Drain(a) \/ Disconnect(a)

Rest(u) == RestLock(u) \/ RestServe(u)

Next ==
  \/ \E a \in Asks : Handler(a) \/ Agent(a) \/ ReaderEnds(a) \/ Environment(a)
  \/ \E u \in RestUsers : Rest(u)
  \/ Restart

Spec == Init /\ [][Next]_vars

(* tokio polls every ready task, provider streams end or time out, a client
   sends its first frame or leaves and reads its socket in the end, and a
   store user that was given the lock uses it.  Sends are strongly fair: a
   window that opens again and again lets the waiting frame out.  Nobody has
   to disconnect. *)
Fairness ==
  /\ \A a \in Asks : /\ WF_vars(Handler(a))
                     /\ WF_vars(Agent(a))
                     /\ SF_vars(AgentSend(a))
                     /\ SF_vars(SendError(a) \/ SendClose(a))
                     /\ WF_vars(ReaderEnds(a))
                     /\ WF_vars(Drain(a))
  /\ \A u \in RestUsers : WF_vars(RestServe(u))

FairSpec == Spec /\ Fairness

-----------------------------------------------------------------------------
(* Properties. *)

TypeOK ==
  /\ sessions \subseteq Sessions
  /\ rows \subseteq Rows
  /\ busy \subseteq Sessions
  /\ storeQ \in Seq(Waiters)
  /\ pc \in [Asks -> Live \cup {"idle", "refused", "done", "lost"}]
  /\ turn \in [Asks -> TurnStates]
  /\ ws \in [Asks -> Sockets]

(* The single-flight slot (N4): a session is busy exactly while one handler
   lives for it, and never two do, whichever way handlers come and go: an ask
   that is refused, an upgrade that fails or a turn that ends late must leave
   the slot of the turn in flight alone. *)
SlotMatchesHandler ==
  /\ busy = {SessionOf[a] : a \in {b \in Asks : pc[b] \in Live}}
  /\ \A a, b \in Asks :
       pc[a] \in Live /\ pc[b] \in Live /\ SessionOf[a] = SessionOf[b] => a = b

RowsOf(a) == {r \in rows : r.ask = a}

(* A client that received `done` finds the turn in the session's history. *)
DoneImpliesOkRow ==
  \A a \in Asks :
    ws[a].done /\ SessionOf[a] \in sessions => \E r \in RowsOf(a) : r.status = "ok"

(* Whatever ended it, an ask that reached the agent is in the history once its
   handler is done: completed, failed or cancelled (run_turn's error row and
   the reader arm's cancelled row).  Store writes do not fail in this run. *)
NoTurnLost ==
  \A a \in Asks :
    pc[a] = "done" /\ turn[a].at # "none" /\ SessionOf[a] \in sessions
      => RowsOf(a) # {}

(* The rows of one ask: never an error row beside another one; the only pair
   is a committed answer that the reader arm then also recorded as cancelled. *)
RowsPerAsk ==
  \A a \in Asks : \A r1, r2 \in RowsOf(a) :
    r1 # r2 => {r1.status, r2.status} = {"ok", "cancelled"}

(* What is stored is what was streamed.  The agent and the socket accumulate
   the text apart from each other: the stored answer of a completed turn is
   all that was streamed for it, over all its rounds, and a cancelled row
   shows at least what the client had already seen. *)
RowsKeepTheText ==
  \A r \in rows :
    /\ r.status = "ok" => r.answer = ws[r.ask].partial
    /\ r.status = "cancelled" => r.answer >= ws[r.ask].seen

(* ws.rs says of the guard: "failed upgrades, early handler errors, and panics
   all free the slot instead of 409-ing the session forever". *)
SlotFreed == \A s \in Sessions : s \in busy ~> s \notin busy

(* A client that stays gets its turn to an end, however often it stalls and
   whoever else uses the store. *)
ConnectedAskEnds ==
  \A a \in Asks : Polled(a) ~> ~Polled(a) \/ ws[a].net = "gone"
=============================================================================
