--------------------------- MODULE AskTurnProofs ---------------------------
(* What AskTurn keeps for any number of asks, sessions and other users of the
   store, any bounds and any number of crashes. *)
EXTENDS AskTurn, SequenceTheorems, TLAPS

-----------------------------------------------------------------------------
(* Typing. *)

LEMMA ReleaseType ==
  ASSUME storeQ \in Seq(Waiters), Release
  PROVE  storeQ' \in Seq(Waiters)
BY DEF Release

Places == {"none", "history", "stream", "tools", "sending", "persist", "fail",
           "returned"}

LEMMA TurnUpdate ==
  ASSUME NEW t \in TurnStates, NEW p \in Places, NEW f \in Frames,
         NEW m \in Nat, NEW n \in Nat
  PROVE  /\ [t EXCEPT !.at = p] \in TurnStates
         /\ [t EXCEPT !.at = p, !.out = f] \in TurnStates
         /\ [t EXCEPT !.at = p, !.buf = m] \in TurnStates
         /\ [t EXCEPT !.at = p, !.answer = m] \in TurnStates
         /\ [t EXCEPT !.at = p, !.out = f, !.answer = m] \in TurnStates
         /\ [t EXCEPT !.at = p, !.out = f, !.answer = m, !.buf = n] \in TurnStates
         /\ [t EXCEPT !.at = p, !.round = m, !.buf = n] \in TurnStates
         /\ [t EXCEPT !.at = p, !.forced = TRUE, !.buf = m] \in TurnStates
BY DEF TurnStates, Places

LEMMA TurnFields ==
  ASSUME NEW t \in TurnStates
  PROVE  /\ t.round + 1 \in Nat /\ t.buf + 1 \in Nat /\ t.answer \in Nat
         /\ t.answer + t.buf \in Nat /\ t.answer + t.buf + 1 \in Nat
         /\ t.out \in Frames /\ t.forced \in BOOLEAN
BY DEF TurnStates

LEMMA TurnType ==
  ASSUME NEW t \in TurnStates
  PROVE  /\ \A f \in Frames : Sending(t, f) \in TurnStates
         /\ Failed(t) \in TurnStates
         /\ Forced(t) \in TurnStates
         /\ ToolRound(t) \in TurnStates
         /\ FinalRound(t) \in TurnStates
         /\ ForcedFinal(t) \in TurnStates
         /\ NextRound(t) \in TurnStates
         /\ \A u \in AfterSend(t) : u \in TurnStates
<1>1. \A f \in Frames : Sending(t, f) \in TurnStates
  BY TurnUpdate DEF Sending, Places
<1>2. Failed(t) \in TurnStates
  BY DEF TurnStates, Failed
<1>3. Forced(t) \in TurnStates
  BY DEF TurnStates, Forced
<1>4. NextRound(t) \in TurnStates
  <2>1. [t EXCEPT !.at = "stream", !.round = t.round + 1, !.buf = 0] \in TurnStates
    BY TurnUpdate, TurnFields DEF Places
  <2> QED BY <1>3, <2>1 DEF NextRound
<1>5. \A u \in AfterSend(t) : u \in TurnStates
  <2>1. [t EXCEPT !.at = "stream", !.buf = t.buf + 1] \in TurnStates
    BY TurnUpdate, TurnFields DEF Places
  <2>2. \A p \in {"tools", "persist", "fail", "returned"} :
          [t EXCEPT !.at = p] \in TurnStates
    BY DEF TurnStates
  <2> QED BY <1>3, <1>4, <2>1, <2>2, TurnFields DEF AfterSend, Frames
<1>6. ToolRound(t) \in TurnStates
  <2>1. [t EXCEPT !.at = "sending", !.out = "call", !.answer = t.answer + t.buf, !.buf = 0]
          \in TurnStates
    BY TurnUpdate, TurnFields, ZenonT(60) DEF Places, Frames
  <2> QED BY <2>1 DEF ToolRound
<1>7. FinalRound(t) \in TurnStates
  <2>1. [t EXCEPT !.at = "persist", !.answer = t.answer + t.buf] \in TurnStates
    BY TurnUpdate, TurnFields DEF Places
  <2> QED BY <2>1 DEF FinalRound
<1>8. ForcedFinal(t) \in TurnStates
  <2>1. [t EXCEPT !.at = "sending", !.out = "note", !.answer = t.answer + t.buf + 1]
          \in TurnStates
    BY TurnUpdate, TurnFields, ZenonT(60) DEF Places, Frames
  <2> QED BY <2>1 DEF ForcedFinal
<1> QED BY <1>1, <1>2, <1>3, <1>4, <1>5, <1>6, <1>7, <1>8

LEMMA SocketUpdate ==
  ASSUME NEW s \in Sockets
  PROVE  /\ [s EXCEPT !.partial = s.partial + 1] \in Sockets
         /\ \A w \in {"free", "agent"} : [s EXCEPT !.writer = w] \in Sockets
         /\ \A n \in {"up", "stalled", "gone"} : [s EXCEPT !.net = n] \in Sockets
         /\ \A r \in {"reading", "ended"} : [s EXCEPT !.reader = r] \in Sockets
         /\ \A f \in Frames : Delivered(s, f) \in Sockets
<1>1. s.partial + 1 \in Nat /\ s.seen \in Nat /\ s.seen + 1 \in Nat /\ s.done \in BOOLEAN
  BY DEF Sockets
<1>2. \A n \in Nat : [s EXCEPT !.partial = n] \in Sockets
  BY DEF Sockets
<1>3. /\ \A w \in {"free", "agent"} : [s EXCEPT !.writer = w] \in Sockets
      /\ \A n \in {"up", "stalled", "gone"} : [s EXCEPT !.net = n] \in Sockets
      /\ \A r \in {"reading", "ended"} : [s EXCEPT !.reader = r] \in Sockets
  BY DEF Sockets
<1>4. \A n \in Nat, d \in BOOLEAN :
        [s EXCEPT !.writer = "free", !.seen = n, !.done = d] \in Sockets
  BY DEF Sockets
<1>5. ASSUME NEW f \in Frames PROVE Delivered(s, f) \in Sockets
  <2>1. (IF f \in {"delta", "note"} THEN s.seen + 1 ELSE s.seen) \in Nat
    BY <1>1
  <2>2. (s.done \/ f = "done") \in BOOLEAN
    OBVIOUS
  <2> QED BY <1>4, <2>1, <2>2 DEF Delivered
<1> QED BY <1>1, <1>2, <1>3, <1>5

LEMMA InsertType ==
  ASSUME rows \subseteq Rows, sessions \subseteq Sessions,
         NEW a \in Asks, NEW st \in {"ok", "error", "cancelled"}, NEW n \in Nat,
         NEW ok \in BOOLEAN, Insert(a, st, n, ok)
  PROVE  rows' \subseteq Rows /\ sessions' \subseteq Sessions
BY DEF Insert, Rows

LEMMA InitType == Init => TypeOK
BY SessionOfAssumption DEF Init, TypeOK, TurnStates, Sockets, Frames, Live

LEMMA AgentType ==
  ASSUME TypeOK, NEW a \in Asks, Agent(a)
  PROVE  TypeOK'
<1> USE BoundsAssumption
<1>0. turn[a] \in TurnStates /\ ws[a] \in Sockets
  BY DEF TypeOK
<1>1. CASE AgentHistory(a)
  <2>1. storeQ' \in Seq(Waiters)
    BY <1>1, ReleaseType DEF AgentHistory, TypeOK
  <2>2. turn' \in [Asks -> TurnStates]
    BY <1>0, <1>1, TurnType DEF AgentHistory, TypeOK
  <2> QED BY <1>1, <2>1, <2>2 DEF AgentHistory, TypeOK
<1>2. CASE AgentDelta(a)
  <2>1. turn' \in [Asks -> TurnStates]
    BY <1>0, <1>2, TurnType DEF AgentDelta, TypeOK, Frames
  <2>2. ws' \in [Asks -> Sockets]
    BY <1>0, <1>2, SocketUpdate DEF AgentDelta, TypeOK
  <2> QED BY <1>2, <2>1, <2>2 DEF AgentDelta, TypeOK
<1>3. CASE AgentToolUse(a)
  <2>1. turn' \in [Asks -> TurnStates]
    BY <1>0, <1>3, TurnType DEF AgentToolUse, TypeOK
  <2> QED BY <1>3, <2>1 DEF AgentToolUse, TypeOK
<1>4. CASE AgentFinal(a)
  <2>1. turn' \in [Asks -> TurnStates]
    BY <1>0, <1>4, TurnType DEF AgentFinal, TypeOK
  <2> QED BY <1>4, <2>1 DEF AgentFinal, TypeOK
<1>5. CASE AgentForcedFinal(a)
  <2>1. turn' \in [Asks -> TurnStates]
    BY <1>0, <1>5, TurnType DEF AgentForcedFinal, TypeOK
  <2>2. ws' \in [Asks -> Sockets]
    BY <1>0, <1>5, SocketUpdate DEF AgentForcedFinal, TypeOK
  <2> QED BY <1>5, <2>1, <2>2 DEF AgentForcedFinal, TypeOK
<1>6. CASE AgentStreamError(a)
  <2>1. turn' \in [Asks -> TurnStates]
    BY <1>0, <1>6, TurnType DEF AgentStreamError, TypeOK, Frames
  <2> QED BY <1>6, <2>1 DEF AgentStreamError, TypeOK
<1>7. CASE AgentToolsDone(a)
  <2>1. turn' \in [Asks -> TurnStates]
    BY <1>0, <1>7, TurnType DEF AgentToolsDone, TypeOK, Frames
  <2> QED BY <1>7, <2>1 DEF AgentToolsDone, TypeOK
<1>8. CASE AgentSend(a)
  <2>1. turn' \in [Asks -> TurnStates]
    BY <1>0, <1>8, TurnType DEF AgentSend, GoOn, TypeOK
  <2>2. pc' \in [Asks -> Live \cup {"idle", "refused", "done", "lost"}]
    BY <1>8 DEF AgentSend, GoOn, TypeOK, Live
  <2>3. ws' \in [Asks -> Sockets]
    BY <1>0, <1>8, SocketUpdate, TurnFields, ZenonT(60) DEF AgentSend, TypeOK
  <2> QED BY <1>8, <2>1, <2>2, <2>3 DEF AgentSend, TypeOK
<1>9. CASE AgentPersistOk(a)
  <2>1. storeQ' \in Seq(Waiters)
    BY <1>9, ReleaseType DEF AgentPersistOk, TypeOK
  <2>2. turn[a].answer \in Nat
    BY <1>0 DEF TurnStates
  <2>3. rows' \subseteq Rows /\ sessions' \subseteq Sessions
    BY <1>9, <2>2, InsertType DEF AgentPersistOk, TypeOK
  <2>4. turn' \in [Asks -> TurnStates]
    BY <1>0, <1>9, TurnType DEF AgentPersistOk, TypeOK, Frames
  <2> QED BY <1>9, <2>1, <2>3, <2>4 DEF AgentPersistOk, TypeOK
<1>10. CASE AgentPersistError(a)
  <2>1. storeQ' \in Seq(Waiters)
    BY <1>10, ReleaseType DEF AgentPersistError, TypeOK
  <2>2. turn[a].answer \in Nat
    BY <1>0 DEF TurnStates
  <2>3. rows' \subseteq Rows /\ sessions' \subseteq Sessions
    BY <1>10, <2>2, InsertType DEF AgentPersistError, TypeOK
  <2>4. turn' \in [Asks -> TurnStates]
    BY <1>0, <1>10 DEF AgentPersistError, TypeOK, TurnStates
  <2>5. pc' \in [Asks -> Live \cup {"idle", "refused", "done", "lost"}]
    BY <1>10 DEF AgentPersistError, MoveTo, TypeOK, Live
  <2> QED BY <1>10, <2>1, <2>3, <2>4, <2>5 DEF AgentPersistError, TypeOK
<1>11. CASE AgentQueues(a)
  BY <1>11 DEF AgentQueues, Enqueue, TypeOK, Waiters
<1> QED
  BY <1>1, <1>2, <1>3, <1>4, <1>5, <1>6, <1>7, <1>8, <1>9, <1>10, <1>11 DEF Agent

LEMMA HandlerType ==
  ASSUME TypeOK, NEW a \in Asks, Handler(a)
  PROVE  TypeOK'
<1> USE SessionOfAssumption
<1>0. turn[a] \in TurnStates /\ ws[a] \in Sockets /\ SessionOf[a] \in Sessions
  BY DEF TypeOK
<1>1. CASE WsAskHandler(a)
  BY <1>1 DEF WsAskHandler, MoveTo, TypeOK, Live
<1>2. CASE Upgrade(a)
  BY <1>2 DEF Upgrade, DropGuard, MoveTo, TypeOK, Live
<1>3. CASE ReadInit(a)
  BY <1>3 DEF ReadInit, DropGuard, MoveTo, TypeOK, Live
<1>4. CASE GetSession(a)
  <2>1. storeQ' \in Seq(Waiters)
    BY <1>4, ReleaseType DEF GetSession, TypeOK
  <2> QED BY <1>4, <2>1 DEF GetSession, DropGuard, MoveTo, TypeOK, Live
<1>5. CASE ListTools(a)
  <2>1. turn' \in [Asks -> TurnStates]
    <3>1. [turn[a] EXCEPT !.at = "history"] \in TurnStates
      BY <1>0 DEF TurnStates
    <3> QED BY <1>0, <1>5, <3>1 DEF ListTools, TypeOK
  <2>2. ws' \in [Asks -> Sockets]
    BY <1>0, <1>5, SocketUpdate DEF ListTools, TypeOK
  <2> QED BY <1>5, <2>1, <2>2 DEF ListTools, DropGuard, MoveTo, TypeOK, Live
<1>6. CASE ReaderArm(a)
  BY <1>6 DEF ReaderArm, MoveTo, TypeOK, Live
<1>7. CASE PersistCancelled(a)
  <2>1. storeQ' \in Seq(Waiters)
    BY <1>7, ReleaseType DEF PersistCancelled, TypeOK
  <2>2. ws[a].partial \in Nat
    BY <1>0 DEF Sockets
  <2>3. rows' \subseteq Rows /\ sessions' \subseteq Sessions
    BY <1>7, <2>2, InsertType DEF PersistCancelled, TypeOK
  <2> QED BY <1>7, <2>1, <2>3 DEF PersistCancelled, MoveTo, TypeOK, Live
<1>8. CASE HandlerQueues(a)
  BY <1>8 DEF HandlerQueues, Enqueue, TypeOK, Waiters
<1>9. CASE SendError(a)
  BY <1>9 DEF SendError, MoveTo, TypeOK, Live
<1>10. CASE SendClose(a)
  BY <1>10 DEF SendClose, DropGuard, MoveTo, TypeOK, Live
<1> QED
  BY <1>1, <1>2, <1>3, <1>4, <1>5, <1>6, <1>7, <1>8, <1>9, <1>10 DEF Handler

LEMMA SocketType ==
  ASSUME TypeOK, NEW a \in Asks, ReaderEnds(a) \/ Environment(a)
  PROVE  TypeOK'
<1>0. ws[a] \in Sockets
  BY DEF TypeOK
<1>1. ws' \in [Asks -> Sockets]
  BY <1>0, SocketUpdate DEF ReaderEnds, Environment, Stall, Drain, Disconnect, TypeOK
<1> QED BY <1>1 DEF ReaderEnds, Environment, Stall, Drain, Disconnect, TypeOK

LEMMA RestType ==
  ASSUME TypeOK, NEW u \in RestUsers, Rest(u)
  PROVE  TypeOK'
<1>1. CASE RestLock(u)
  BY <1>1 DEF RestLock, TypeOK, Waiters
<1>2. CASE RestServe(u)
  <2>1. storeQ' \in Seq(Waiters)
    BY <1>2, ReleaseType DEF RestServe, TypeOK
  <2> QED BY <1>2, <2>1 DEF RestServe, DeleteSession, TypeOK
<1> QED BY <1>1, <1>2 DEF Rest

LEMMA RestartType == TypeOK /\ Restart => TypeOK'
<1> SUFFICES ASSUME TypeOK, Restart PROVE TypeOK'
  OBVIOUS
<1>1. \A s \in Sockets : Killed(s) \in Sockets
  BY DEF Killed, Sockets
<1>2. ws' \in [Asks -> Sockets]
  BY <1>1 DEF Restart, TypeOK
<1> QED BY <1>2 DEF Restart, TypeOK, Live

(* Every variable keeps its type through every step, crashes included. *)
THEOREM TypeCorrect == Spec => []TypeOK
<1>1. TypeOK /\ [Next]_vars => TypeOK'
  <2> SUFFICES ASSUME TypeOK, [Next]_vars PROVE TypeOK'
    OBVIOUS
  <2>1. CASE UNCHANGED vars
    BY <2>1 DEF vars, TypeOK
  <2>2. CASE Next
    BY <2>2, HandlerType, AgentType, SocketType, RestType, RestartType DEF Next
  <2> QED BY <2>1, <2>2
<1> QED BY InitType, <1>1, PTL DEF Spec

-----------------------------------------------------------------------------
(* The single-flight slot. *)

LEMMA SlotHandler ==
  ASSUME TypeOK, SlotMatchesHandler, NEW a \in Asks, Handler(a)
  PROVE  SlotMatchesHandler'
<1> USE SessionOfAssumption
<1>1. CASE WsAskHandler(a)
  BY <1>1 DEF WsAskHandler, MoveTo, SlotMatchesHandler, TypeOK, Live
<1>2. CASE MoveTo(a, pc'[a]) /\ pc[a] \in Live /\ pc'[a] \in Live /\ UNCHANGED busy
  <2>1. \A b \in Asks : pc'[b] \in Live <=> pc[b] \in Live
    BY <1>2 DEF MoveTo, TypeOK
  <2> QED BY <1>2, <2>1 DEF SlotMatchesHandler
<1>3. CASE pc[a] \in Live /\ DropGuard(a)
  <2>1. \A b \in Asks : pc'[b] \in Live <=> pc[b] \in Live /\ b # a
    BY <1>3 DEF DropGuard, MoveTo, TypeOK, Live
  <2>2. busy' = busy \ {SessionOf[a]}
    BY <1>3 DEF DropGuard
  <2> QED BY <1>3, <2>1, <2>2 DEF SlotMatchesHandler
<1>4. CASE UNCHANGED <<pc, busy>>
  BY <1>4 DEF SlotMatchesHandler
<1>5. WsAskHandler(a) \/ pc[a] \in Live
  BY DEF Handler, Upgrade, ReadInit, GetSession, ListTools, ReaderArm,
         PersistCancelled, HandlerQueues, SendError, SendClose, Live
<1>6. \/ WsAskHandler(a) \/ DropGuard(a) \/ UNCHANGED <<pc, busy>>
      \/ MoveTo(a, pc'[a]) /\ pc'[a] \in Live /\ UNCHANGED busy
  BY DEF Handler, Upgrade, ReadInit, GetSession, ListTools, ReaderArm,
         PersistCancelled, HandlerQueues, Enqueue, SendError, SendClose, MoveTo,
         Live, TypeOK
<1> QED BY <1>1, <1>2, <1>3, <1>4, <1>5, <1>6

LEMMA SlotAgent ==
  ASSUME TypeOK, SlotMatchesHandler, NEW a \in Asks, Agent(a)
  PROVE  SlotMatchesHandler'
<1>1. UNCHANGED busy
  BY DEF Agent, AgentHistory, AgentDelta, AgentToolUse, AgentFinal, AgentForcedFinal,
         AgentStreamError, AgentToolsDone, AgentSend, AgentPersistOk,
         AgentPersistError, AgentQueues, Enqueue
<1>2. pc[a] = "run"
  BY DEF Agent, AgentHistory, AgentDelta, AgentToolUse, AgentFinal, AgentForcedFinal,
         AgentStreamError, AgentToolsDone, AgentSend, AgentPersistOk,
         AgentPersistError, AgentQueues, Polled
<1>3. \/ UNCHANGED pc
      \/ \E p \in {"close", "error"} : pc' = [pc EXCEPT ![a] = p]
  BY DEF Agent, AgentHistory, AgentDelta, AgentToolUse, AgentFinal, AgentForcedFinal,
         AgentStreamError, AgentToolsDone, AgentSend, GoOn, AgentPersistOk,
         AgentPersistError, AgentQueues, Enqueue, MoveTo
<1>4. \A b \in Asks : pc'[b] \in Live <=> pc[b] \in Live
  BY <1>2, <1>3 DEF TypeOK, Live
<1> QED BY <1>1, <1>4 DEF SlotMatchesHandler

(* A session has at most one handler at work, and its slot is taken exactly
   while it has one: for any number of attempts, failed upgrades, early
   returns and crashes (BusyGuard::try_claim and its Drop). *)
THEOREM SingleFlight == Spec => []SlotMatchesHandler
<1>1. Init => SlotMatchesHandler
  BY DEF Init, SlotMatchesHandler, Live
<1>2. TypeOK /\ SlotMatchesHandler /\ [Next]_vars => SlotMatchesHandler'
  <2> SUFFICES ASSUME TypeOK, SlotMatchesHandler, [Next]_vars
               PROVE  SlotMatchesHandler'
    OBVIOUS
  <2>1. CASE UNCHANGED <<pc, busy>>
    BY <2>1 DEF SlotMatchesHandler
  <2>2. CASE Restart
    BY <2>2 DEF Restart, SlotMatchesHandler, TypeOK, Live
  <2>3. \/ \E a \in Asks : Handler(a) \/ Agent(a)
        \/ Restart \/ UNCHANGED <<pc, busy>>
    BY DEF Next, vars, ReaderEnds, Environment, Stall, Drain, Disconnect, Rest,
           RestLock, RestServe
  <2> QED BY <2>1, <2>2, <2>3, SlotHandler, SlotAgent
<1> QED BY <1>1, <1>2, TypeCorrect, PTL DEF Spec

-----------------------------------------------------------------------------
(* The rows an ask leaves.  The three row properties need to know where the
   rows came from: an agent about to send `done` has committed its answer, a
   handler before its select! has no agent yet, one past it has left a row,
   and error and cancelled rows are written as the handler leaves the select!. *)

SendsDone(a) == turn[a].at = "sending" /\ turn[a].out = "done"

Committed(a) == \E r \in rows : r.ask = a /\ r.status = "ok"

DoneInv ==
  \A a \in Asks :
    (ws[a].done \/ SendsDone(a)) /\ SessionOf[a] \in sessions => Committed(a)

BeforeAgent == {"idle", "refused", "upgrade", "init", "session", "tools"}

NoAgentYet == \A a \in Asks : pc[a] \in BeforeAgent => turn[a].at = "none"

LeftARow ==
  \A a \in Asks :
    /\ ~StoreMayFail
    /\ pc[a] \in {"error", "close", "done"}
    /\ turn[a].at # "none"
    /\ SessionOf[a] \in sessions
    => RowsOf(a) # {}

Past == {"error", "close", "done", "lost"}

WrittenOnLeaving == \A r \in rows : r.status # "ok" => pc[r.ask] \in Past

RowInv == DoneInv /\ NoAgentYet /\ LeftARow /\ WrittenOnLeaving /\ RowsPerAsk

LEMMA RowInit == Init => RowInv
BY DEF Init, RowInv, DoneInv, SendsDone, NoAgentYet, LeftARow, WrittenOnLeaving,
       RowsPerAsk, RowsOf

(* Steps that add no row and commit nothing: what they may do to the rest. *)
LEMMA RowFrame ==
  ASSUME TypeOK, RowInv,
         UNCHANGED <<sessions, rows>>,
         \A a \in Asks : (ws[a].done \/ SendsDone(a))' => ws[a].done \/ SendsDone(a),
         NoAgentYet',
         \A a \in Asks : pc[a] \in Past => pc'[a] \in Past,
         \A a \in Asks :
           /\ pc'[a] \in {"error", "close", "done"}
           /\ turn'[a].at # "none"
           /\ SessionOf[a] \in sessions
           => \/ pc[a] \in {"error", "close", "done"} /\ turn[a].at # "none"
              \/ Committed(a)
  PROVE  RowInv'
<1>1. DoneInv'
  BY DEF RowInv, DoneInv, Committed
<1>2. LeftARow'
  BY DEF RowInv, LeftARow, RowsOf, Committed
<1>3. WrittenOnLeaving'
  BY DEF RowInv, WrittenOnLeaving, TypeOK, Rows
<1>4. RowsPerAsk'
  BY DEF RowInv, RowsPerAsk, RowsOf
<1> QED BY <1>1, <1>2, <1>3, <1>4 DEF RowInv

LEMMA RowsHandler ==
  ASSUME TypeOK, RowInv, NEW a \in Asks, Handler(a), ~PersistCancelled(a)
  PROVE  RowInv'
<1>1. CASE ListTools(a)
  <2>1. turn[a].at = "none" /\ pc[a] = "tools"
    BY <1>1 DEF ListTools, RowInv, NoAgentYet, BeforeAgent
  <2>2. \A b \in Asks : b # a => turn'[b] = turn[b] /\ ws'[b] = ws[b] /\ pc'[b] = pc[b]
    BY <1>1 DEF ListTools, DropGuard, MoveTo, TypeOK
  <2>3. \/ pc'[a] = "run" /\ turn'[a].at = "history" /\ ws'[a].done = ws[a].done
        \/ pc'[a] = "done" /\ UNCHANGED <<turn, ws>>
    BY <1>1 DEF ListTools, DropGuard, MoveTo, TypeOK, TurnStates, Sockets
  <2>4. \A b \in Asks : (ws[b].done \/ SendsDone(b))' => ws[b].done \/ SendsDone(b)
    BY <2>2, <2>3 DEF SendsDone
  <2>5. NoAgentYet'
    BY <2>2, <2>3 DEF RowInv, NoAgentYet, BeforeAgent
  <2>6. \A b \in Asks : pc[b] \in Past => pc'[b] \in Past
    BY <2>1, <2>2 DEF Past
  <2>7. \A b \in Asks : pc'[b] \in {"error", "close", "done"} /\ turn'[b].at # "none"
          => pc[b] \in {"error", "close", "done"} /\ turn[b].at # "none"
    BY <2>1, <2>2, <2>3
  <2> QED BY <1>1, <2>4, <2>5, <2>6, <2>7, RowFrame DEF ListTools
<1>2. CASE ReaderArm(a) \/ HandlerQueues(a)
  <2>1. UNCHANGED <<sessions, rows, turn, ws>>
    BY <1>2 DEF ReaderArm, HandlerQueues, Enqueue
  <2>2. \/ UNCHANGED pc
        \/ pc[a] = "run" /\ pc' = [pc EXCEPT ![a] = "cancel"]
    BY <1>2 DEF ReaderArm, HandlerQueues, Enqueue, MoveTo
  <2>3. \A b \in Asks : /\ pc'[b] \in BeforeAgent => pc[b] \in BeforeAgent
                        /\ pc[b] \in Past => pc'[b] \in Past
                        /\ pc'[b] \in {"error", "close", "done"} => pc'[b] = pc[b]
    BY <2>2 DEF TypeOK, BeforeAgent, Past
  <2> QED BY <2>1, <2>3, RowFrame DEF SendsDone, RowInv, NoAgentYet
<1>3. CASE SendError(a) \/ SendClose(a)
  <2>1. UNCHANGED <<sessions, rows, turn, ws>>
    BY <1>3 DEF SendError, SendClose
  <2>2. \E p \in {"close", "done"} : pc' = [pc EXCEPT ![a] = p]
    BY <1>3 DEF SendError, SendClose, DropGuard, MoveTo
  <2>3. pc[a] \in {"error", "close"}
    BY <1>3 DEF SendError, SendClose
  <2>4. \A b \in Asks : /\ pc'[b] \in BeforeAgent => pc[b] \in BeforeAgent
                        /\ pc[b] \in Past => pc'[b] \in Past
                        /\ pc'[b] \in {"error", "close", "done"}
                             => pc[b] \in {"error", "close", "done"}
    BY <2>2, <2>3 DEF TypeOK, BeforeAgent, Past
  <2> QED BY <2>1, <2>4, RowFrame DEF SendsDone, RowInv, NoAgentYet
<1>4. CASE WsAskHandler(a) \/ Upgrade(a) \/ ReadInit(a) \/ GetSession(a)
  <2>1. UNCHANGED <<sessions, rows, turn, ws>>
    BY <1>4 DEF WsAskHandler, Upgrade, ReadInit, GetSession
  <2>2. pc[a] \in BeforeAgent
    BY <1>4 DEF WsAskHandler, Upgrade, ReadInit, GetSession, BeforeAgent
  <2>3. pc' = [pc EXCEPT ![a] = pc'[a]]
    BY <1>4 DEF WsAskHandler, Upgrade, ReadInit, GetSession, DropGuard, MoveTo, TypeOK
  <2>4. turn[a].at = "none"
    BY <2>2 DEF RowInv, NoAgentYet
  <2>5. \A b \in Asks : b # a => pc'[b] = pc[b]
    BY <2>3 DEF TypeOK
  <2>6. pc[a] \notin Past
    BY <2>2 DEF BeforeAgent, Past
  <2> QED BY <2>1, <2>4, <2>5, <2>6, RowFrame DEF SendsDone, RowInv, NoAgentYet
<1> QED BY <1>1, <1>2, <1>3, <1>4 DEF Handler

(* The agent's steps that do not write a row. *)
LEMMA RowsAgent ==
  ASSUME TypeOK, RowInv, NEW a \in Asks, Agent(a),
         ~AgentPersistOk(a), ~AgentPersistError(a)
  PROVE  RowInv'
<1>0. pc[a] = "run" /\ UNCHANGED <<sessions, rows>>
  BY DEF Agent, AgentHistory, AgentDelta, AgentToolUse, AgentFinal, AgentForcedFinal,
         AgentStreamError, AgentToolsDone, AgentSend, AgentQueues, Enqueue, Polled
<1>1. turn[a] \in TurnStates /\ ws[a] \in Sockets
  BY DEF TypeOK
<1>2. /\ \A b \in Asks : b # a => turn'[b] = turn[b] /\ ws'[b] = ws[b] /\ pc'[b] = pc[b]
      /\ pc'[a] \in {"run", "close"}
  BY <1>0 DEF Agent, AgentHistory, AgentDelta, AgentToolUse, AgentFinal,
         AgentForcedFinal, AgentStreamError, AgentToolsDone, AgentSend, GoOn,
         AgentQueues, Enqueue, TypeOK
<1>3. CASE AgentSend(a)
  <2>1. \A t \in AfterSend(turn[a]) \cup {Failed(turn[a])} :
          /\ t.at # "sending"
          /\ t.at = "returned" => turn[a].out = "done"
    BY <1>1 DEF AfterSend, NextRound, Forced, Failed, TurnStates, Frames
  <2>2. (ws[a].done \/ SendsDone(a))' => ws[a].done \/ SendsDone(a)
    <3>1. turn[a].at = "sending"
      BY <1>3 DEF AgentSend
    <3>2. ws'[a].done => ws[a].done \/ turn[a].out = "done"
      <4>1. Delivered(ws[a], turn[a].out).done = (ws[a].done \/ turn[a].out = "done")
        BY <1>1 DEF Delivered, Sockets
      <4>2. [ws[a] EXCEPT !.writer = "agent"].done = ws[a].done
        BY <1>1 DEF Sockets
      <4>3. [ws[a] EXCEPT !.writer = "free"].done = ws[a].done
        BY <1>1 DEF Sockets
      <4>4. \/ ws'[a] = Delivered(ws[a], turn[a].out)
            \/ ws'[a] = [ws[a] EXCEPT !.writer = "agent"]
            \/ ws'[a] = [ws[a] EXCEPT !.writer = "free"]
        BY <1>3 DEF AgentSend, TypeOK
      <4> QED BY <4>1, <4>2, <4>3, <4>4
    <3>3. turn'[a] = turn[a] \/ turn'[a].at # "sending"
      BY <1>3, <2>1 DEF AgentSend, GoOn, TypeOK
    <3> QED BY <3>1, <3>2, <3>3 DEF SendsDone
  <2>3. pc'[a] = "close" => turn[a].out = "done"
    BY <1>0, <1>3, <2>1 DEF AgentSend, GoOn, TypeOK
  <2>4. pc'[a] = "close" /\ SessionOf[a] \in sessions => Committed(a)
    BY <1>3, <2>3 DEF AgentSend, SendsDone, RowInv, DoneInv
  <2>5. /\ NoAgentYet'
        /\ \A b \in Asks : pc[b] \in Past => pc'[b] \in Past
    BY <1>0, <1>2 DEF RowInv, NoAgentYet, BeforeAgent, Past
  <2> QED BY <1>0, <1>2, <2>2, <2>4, <2>5, RowFrame DEF SendsDone
<1>4. CASE ~AgentSend(a)
  <2>1. UNCHANGED pc
    BY <1>4 DEF Agent, AgentHistory, AgentDelta, AgentToolUse, AgentFinal,
         AgentForcedFinal, AgentStreamError, AgentToolsDone, AgentQueues, Enqueue
  <2>2. ws'[a].done = ws[a].done
    BY <1>1, <1>4 DEF Agent, AgentHistory, AgentDelta, AgentToolUse, AgentFinal,
         AgentForcedFinal, AgentStreamError, AgentToolsDone, AgentQueues, Enqueue,
         TypeOK, Sockets
  <2>3. SendsDone(a)' => SendsDone(a)
    <3>1. /\ \A f \in Frames \ {"done"} : Sending(turn[a], f).out # "done"
          /\ NextRound(turn[a]).at # "sending"
          /\ Failed(turn[a]).at # "sending"
          /\ FinalRound(turn[a]).at # "sending"
          /\ ToolRound(turn[a]).out # "done"
          /\ ForcedFinal(turn[a]).out # "done"
      BY <1>1 DEF TurnStates, NextRound, Forced, Failed, Sending, ToolRound,
         FinalRound, ForcedFinal
    <3>2. \/ UNCHANGED turn
          \/ \E t \in {NextRound(turn[a]), Failed(turn[a]), FinalRound(turn[a]),
                       ToolRound(turn[a]), ForcedFinal(turn[a]),
                       Sending(turn[a], "delta"), Sending(turn[a], "error"),
                       Sending(turn[a], "result")} :
               turn' = [turn EXCEPT ![a] = t]
      BY <1>4 DEF Agent, AgentHistory, AgentDelta, AgentToolUse, AgentFinal,
         AgentForcedFinal, AgentStreamError, AgentToolsDone, AgentQueues, Enqueue
    <3> QED BY <3>1, <3>2 DEF SendsDone, Frames, TypeOK
  <2>4. NoAgentYet'
    BY <1>0, <1>2, <2>1 DEF RowInv, NoAgentYet, BeforeAgent
  <2>5. \A b \in Asks : pc'[b] \in {"error", "close", "done"} => b # a
    BY <1>0, <2>1
  <2> QED BY <1>0, <1>2, <2>1, <2>2, <2>3, <2>4, <2>5, RowFrame DEF SendsDone
<1> QED BY <1>3, <1>4

(* The three steps that write a row. *)
LEMMA Inserted ==
  ASSUME NEW a \in Asks, NEW st, NEW n, Insert(a, st, n, TRUE)
  PROVE  \E r \in rows' : r.ask = a /\ r.status = st
<1> DEFINE new == [ask |-> a, status |-> st, answer |-> n]
<1>1. new \in rows' /\ new.ask = a /\ new.status = st
  BY DEF Insert
<1> QED BY <1>1

LEMMA RowsPersistOk ==
  ASSUME TypeOK, RowInv, NEW a \in Asks, AgentPersistOk(a)
  PROVE  RowInv'
<1>1. PICK ok \in BOOLEAN :
        /\ Insert(a, "ok", turn[a].answer, ok)
        /\ turn' = [turn EXCEPT ![a] = IF ok THEN Sending(@, "done") ELSE Failed(@)]
  BY DEF AgentPersistOk
<1>2. pc[a] = "run" /\ UNCHANGED <<sessions, pc, ws>> /\ rows \subseteq rows'
  BY <1>1 DEF AgentPersistOk, Polled, Insert
<1>3. turn[a] \in TurnStates
  BY DEF TypeOK
<1>4. \A b \in Asks : b # a => turn'[b] = turn[b]
  BY <1>1 DEF TypeOK
<1>5. SendsDone(a)' => ok
  BY <1>1, <1>3 DEF SendsDone, Failed, TypeOK, TurnStates
<1>6. ok => Committed(a)'
  <2> SUFFICES ASSUME ok PROVE Committed(a)'
    OBVIOUS
  <2>1. Insert(a, "ok", turn[a].answer, TRUE)
    BY <1>1
  <2> QED BY <2>1, Inserted DEF Committed
<1>7. \A b \in Asks : Committed(b) => Committed(b)'
  BY <1>2 DEF Committed
<1>8. DoneInv'
  <2> SUFFICES ASSUME NEW b \in Asks, (ws[b].done \/ SendsDone(b))', SessionOf[b] \in sessions
               PROVE  Committed(b)'
    BY <1>2 DEF DoneInv
  <2>1. CASE ws[b].done
    BY <1>7, <2>1 DEF RowInv, DoneInv
  <2>2. CASE b = a /\ SendsDone(a)'
    BY <1>5, <1>6, <2>2
  <2>3. CASE b # a /\ SendsDone(b)'
    BY <1>4, <1>7, <2>3 DEF RowInv, DoneInv, SendsDone
  <2> QED BY <1>2, <2>1, <2>2, <2>3
<1>9. NoAgentYet'
  BY <1>2, <1>4 DEF RowInv, NoAgentYet, BeforeAgent
<1>10. LeftARow'
  BY <1>2, <1>4 DEF RowInv, LeftARow, RowsOf
<1>11. WrittenOnLeaving'
  BY <1>1, <1>2 DEF RowInv, WrittenOnLeaving, Insert
<1>12. RowsPerAsk'
  <2>1. \A r \in rows : r.ask = a => r.status = "ok"
    BY <1>2 DEF RowInv, WrittenOnLeaving, Past
  <2>2. ok => \A r \in rows : r.ask # a
    BY <1>1, <2>1 DEF Insert, CanInsert
  <2> QED BY <1>1, <2>2 DEF RowInv, RowsPerAsk, RowsOf, Insert
<1> QED BY <1>8, <1>9, <1>10, <1>11, <1>12 DEF RowInv

LEMMA RowsPersistError ==
  ASSUME TypeOK, RowInv, NEW a \in Asks, AgentPersistError(a)
  PROVE  RowInv'
<1>1. PICK ok \in BOOLEAN : Insert(a, "error", turn[a].answer, ok)
  BY DEF AgentPersistError
<1>2. /\ pc[a] = "run" /\ UNCHANGED <<sessions, ws>> /\ rows \subseteq rows'
      /\ pc' = [pc EXCEPT ![a] = "error"]
      /\ turn' = [turn EXCEPT ![a].at = "returned"]
  BY <1>1 DEF AgentPersistError, Polled, Insert, MoveTo
<1>3. \A b \in Asks : b # a => turn'[b] = turn[b] /\ pc'[b] = pc[b]
  BY <1>2 DEF TypeOK
<1>4. turn'[a].at = "returned" /\ pc'[a] = "error"
  BY <1>2 DEF TypeOK, TurnStates
<1>5. \A b \in Asks : Committed(b) => Committed(b)'
  BY <1>2 DEF Committed
<1>6. DoneInv'
  BY <1>2, <1>3, <1>4, <1>5 DEF RowInv, DoneInv, SendsDone
<1>7. NoAgentYet'
  BY <1>2, <1>3, <1>4 DEF RowInv, NoAgentYet, BeforeAgent
<1>8. \A r \in rows : r.ask = a => r.status = "ok"
  BY <1>2 DEF RowInv, WrittenOnLeaving, Past
<1>9. ok => \A r \in rows : r.ask # a
  BY <1>1, <1>8 DEF Insert, CanInsert
<1>10. ~StoreMayFail /\ SessionOf[a] \in sessions => RowsOf(a)' # {}
  <2>1. CASE ok
    BY <1>1, <2>1, Inserted DEF RowsOf
  <2>2. CASE ~ok
    BY <1>1, <1>2, <2>2 DEF Insert, CanInsert, RowsOf
  <2> QED BY <2>1, <2>2
<1>11. LeftARow'
  BY <1>2, <1>3, <1>10 DEF RowInv, LeftARow, RowsOf
<1>12. WrittenOnLeaving'
  BY <1>1, <1>2, <1>3, <1>4 DEF RowInv, WrittenOnLeaving, Insert, TypeOK, Rows, Past
<1>13. RowsPerAsk'
  BY <1>1, <1>9 DEF RowInv, RowsPerAsk, RowsOf, Insert
<1> QED BY <1>6, <1>7, <1>11, <1>12, <1>13 DEF RowInv

LEMMA RowsPersistCancelled ==
  ASSUME TypeOK, RowInv, NEW a \in Asks, PersistCancelled(a)
  PROVE  RowInv'
<1>1. PICK ok \in BOOLEAN : Insert(a, "cancelled", ws[a].partial, ok)
  BY DEF PersistCancelled
<1>2. /\ pc[a] = "cancel" /\ UNCHANGED <<sessions, turn, ws>> /\ rows \subseteq rows'
      /\ pc' = [pc EXCEPT ![a] = "error"]
  BY <1>1 DEF PersistCancelled, Insert, MoveTo
<1>3. \A b \in Asks : b # a => pc'[b] = pc[b]
  BY <1>2 DEF TypeOK
<1>4. pc'[a] = "error"
  BY <1>2 DEF TypeOK
<1>5. \A b \in Asks : Committed(b) => Committed(b)'
  BY <1>2 DEF Committed
<1>6. DoneInv'
  BY <1>2, <1>5 DEF RowInv, DoneInv, SendsDone
<1>7. NoAgentYet'
  BY <1>2, <1>3, <1>4 DEF RowInv, NoAgentYet, BeforeAgent
<1>8. \A r \in rows : r.ask = a => r.status = "ok"
  BY <1>2 DEF RowInv, WrittenOnLeaving, Past
<1>9. ~StoreMayFail /\ SessionOf[a] \in sessions => RowsOf(a)' # {}
  <2>1. CASE ok
    BY <1>1, <2>1, Inserted DEF RowsOf
  <2>2. CASE ~ok
    BY <1>1, <2>2 DEF Insert, CanInsert
  <2> QED BY <2>1, <2>2
<1>10. LeftARow'
  BY <1>2, <1>3, <1>9 DEF RowInv, LeftARow, RowsOf
<1>11. WrittenOnLeaving'
  BY <1>1, <1>2, <1>3, <1>4 DEF RowInv, WrittenOnLeaving, Insert, TypeOK, Rows, Past
<1>12. RowsPerAsk'
  BY <1>1, <1>8 DEF RowInv, RowsPerAsk, RowsOf, Insert
<1> QED BY <1>6, <1>7, <1>10, <1>11, <1>12 DEF RowInv

(* Deleting a session takes every row of its asks, and only those. *)
LEMMA RowsRest ==
  ASSUME TypeOK, RowInv, NEW u \in RestUsers, Rest(u)
  PROVE  RowInv'
<1>1. UNCHANGED <<pc, turn, ws>>
  BY DEF Rest, RestLock, RestServe
<1>2. CASE UNCHANGED <<sessions, rows>>
  BY <1>1, <1>2 DEF RowInv, DoneInv, SendsDone, Committed, NoAgentYet, LeftARow,
                    WrittenOnLeaving, RowsPerAsk, RowsOf
<1>3. CASE \E s \in sessions : DeleteSession(s)
  <2>1. PICK s \in sessions : DeleteSession(s)
    BY <1>3
  <2>2. rows' \subseteq rows /\ sessions' \subseteq sessions
    BY <2>1 DEF DeleteSession
  <2>3. \A r \in rows : SessionOf[r.ask] \in sessions' => r \in rows'
    BY <2>1 DEF DeleteSession
  <2>4. DoneInv'
    BY <1>1, <2>2, <2>3 DEF RowInv, DoneInv, SendsDone, Committed
  <2>5. LeftARow'
    BY <1>1, <2>2, <2>3 DEF RowInv, LeftARow, RowsOf
  <2> QED BY <1>1, <2>2, <2>4, <2>5
          DEF RowInv, NoAgentYet, WrittenOnLeaving, RowsPerAsk, RowsOf
<1> QED BY <1>2, <1>3 DEF Rest, RestLock, RestServe

LEMMA RowsOthers ==
  ASSUME TypeOK, RowInv,
         \/ \E a \in Asks : ReaderEnds(a) \/ Environment(a)
         \/ Restart \/ UNCHANGED vars
  PROVE  RowInv'
<1>1. UNCHANGED <<sessions, rows, turn>>
  BY DEF ReaderEnds, Environment, Stall, Drain, Disconnect, Restart, vars
<1>2. \A b \in Asks : ws'[b].done = ws[b].done
  <2>1. CASE UNCHANGED ws
    BY <2>1
  <2>2. CASE \E a \in Asks : ReaderEnds(a) \/ Environment(a)
    <3>1. PICK a \in Asks : ReaderEnds(a) \/ Environment(a)
      BY <2>2
    <3>2. \/ \E n : ws' = [ws EXCEPT ![a].net = n]
          \/ \E r : ws' = [ws EXCEPT ![a].reader = r]
      BY <3>1 DEF ReaderEnds, Environment, Stall, Drain, Disconnect
    <3>3. \A b \in Asks : ws[b] \in Sockets
      BY DEF TypeOK
    <3>4. \A b \in Asks : \/ ws'[b] = ws[b]
                         \/ \E n : ws'[b] = [ws[b] EXCEPT !.net = n]
                         \/ \E r : ws'[b] = [ws[b] EXCEPT !.reader = r]
      BY <3>2, ZenonT(60) DEF TypeOK
    <3> SUFFICES ASSUME NEW b \in Asks PROVE ws'[b].done = ws[b].done
      OBVIOUS
    <3>5. CASE \E n : ws'[b] = [ws[b] EXCEPT !.net = n]
      BY <3>3, <3>5 DEF Sockets
    <3>6. CASE \E r : ws'[b] = [ws[b] EXCEPT !.reader = r]
      BY <3>3, <3>6 DEF Sockets
    <3> QED BY <3>4, <3>5, <3>6
  <2>3. CASE Restart
    <3>1. \A s \in Sockets : Killed(s).done = s.done
      BY DEF Killed, Sockets
    <3> QED BY <2>3, <3>1 DEF Restart, TypeOK
  <2> QED BY <2>1, <2>2, <2>3 DEF vars
<1>3. \A b \in Asks : pc'[b] = pc[b] \/ (pc[b] \in Live /\ pc'[b] = "lost")
  <2>1. CASE UNCHANGED pc
    BY <2>1
  <2>2. CASE Restart
    BY <2>2 DEF Restart, TypeOK
  <2> QED BY <2>1, <2>2 DEF ReaderEnds, Environment, Stall, Drain, Disconnect, vars
<1>4. NoAgentYet'
  BY <1>1, <1>3 DEF RowInv, NoAgentYet, BeforeAgent
<1>5. \A b \in Asks : pc[b] \in Past => pc'[b] \in Past
  BY <1>3 DEF Past
<1> QED BY <1>1, <1>2, <1>3, <1>4, <1>5, RowFrame DEF SendsDone

LEMMA RowsInductive == Spec => []RowInv
<1>1. TypeOK /\ RowInv /\ [Next]_vars => RowInv'
  <2> SUFFICES ASSUME TypeOK, RowInv, [Next]_vars PROVE RowInv'
    OBVIOUS
  <2>1. ASSUME NEW a \in Asks, Handler(a) PROVE RowInv'
    BY <2>1, RowsHandler, RowsPersistCancelled
  <2>2. ASSUME NEW a \in Asks, Agent(a) PROVE RowInv'
    BY <2>2, RowsAgent, RowsPersistOk, RowsPersistError
  <2> QED BY <2>1, <2>2, RowsRest, RowsOthers DEF Next
<1> QED BY RowInit, <1>1, TypeCorrect, PTL DEF Spec

(* `done` is sent only after the commit: a client that has it finds the row. *)
THEOREM DoneIsDurable == Spec => []DoneImpliesOkRow
<1>1. RowInv => DoneImpliesOkRow
  BY DEF RowInv, DoneInv, DoneImpliesOkRow, Committed, RowsOf
<1> QED BY RowsInductive, <1>1, PTL

(* An ask is recorded once, but for the one pair the select! allows: its
   committed answer and the cancelled row of the reader arm. *)
THEOREM AtMostTwoRows == Spec => []RowsPerAsk
<1>1. RowInv => RowsPerAsk
  BY DEF RowInv
<1> QED BY RowsInductive, <1>1, PTL

(* Without store failures no ask that reached the agent is lost. *)
THEOREM TurnsAreKept == ASSUME StoreMayFail = FALSE PROVE Spec => []NoTurnLost
<1>1. RowInv => NoTurnLost
  BY DEF RowInv, LeftARow, NoTurnLost
<1> QED BY RowsInductive, <1>1, PTL
-----------------------------------------------------------------------------
(* The text of an ask.  The agent counts it in `answer` and `text_buf`, the
   socket in `partial`; how the two compare depends on where the agent is. *)

TextOf(t, s) ==
  /\ s.seen <= s.partial
  /\ t.at \in {"none", "history"} => s.partial = 0 /\ t.answer = 0
  /\ t.at = "stream" => s.partial = t.answer + t.buf
  /\ t.at \in {"tools", "persist"} => s.partial = t.answer
  /\ t.at = "sending" /\ t.out = "delta"
       => s.partial = t.answer + t.buf + 1 /\ s.seen < s.partial
  /\ t.at = "sending" /\ t.out = "note" => s.partial = t.answer /\ s.seen < s.partial
  /\ t.at = "sending" /\ t.out \in {"call", "result", "done"} => s.partial = t.answer

TextsAgree == \A a \in Asks : TextOf(turn[a], ws[a])

(* A committed answer is beyond change: its agent adds no more text. *)
AnswerIsFinal(a) == turn[a].at \in {"fail", "returned"} \/ SendsDone(a)

RowsAreFinal ==
  \A r \in rows : r.status = "ok" => AnswerIsFinal(r.ask)

TextInv == TextsAgree /\ RowsAreFinal /\ RowsKeepTheText

(* The fields of a socket that the text depends on. *)
LEMMA TextCounters ==
  ASSUME NEW t, NEW s, NEW z, TextOf(t, s), z.seen = s.seen, z.partial = s.partial
  PROVE  TextOf(t, z)
BY DEF TextOf

LEMMA TextStarts ==
  ASSUME NEW t \in TurnStates, NEW s \in Sockets, TextOf(t, s), t.at = "none"
  PROVE  TextOf([t EXCEPT !.at = "history"], s)
BY DEF TextOf, TurnStates, Sockets

LEMMA TextHistory ==
  ASSUME NEW t \in TurnStates, NEW s \in Sockets, TextOf(t, s),
         \/ t.at = "history"
         \/ t.at = "sending" /\ t.out = "result"
  PROVE  TextOf(NextRound(t), s) /\ TextOf(Forced(t), s)
<1>1. t.answer \in Nat /\ s.partial = t.answer
  BY DEF TextOf, TurnStates, Sockets
<1>2. /\ NextRound(t).at = "stream" /\ NextRound(t).buf = 0
      /\ NextRound(t).answer = t.answer
  BY DEF NextRound, Forced, TurnStates
<1>3. Forced(t).at = "stream" /\ Forced(t).buf = 0 /\ Forced(t).answer = t.answer
  BY DEF Forced, TurnStates
<1> QED BY <1>1, <1>2, <1>3 DEF TextOf

LEMMA TextFailed ==
  ASSUME NEW t \in TurnStates, NEW s \in Sockets, TextOf(t, s)
  PROVE  TextOf(Failed(t), s) /\ TextOf(Sending(t, "error"), s)
<1>1. Failed(t).at = "fail"
  BY DEF Failed, TurnStates
<1>2. Sending(t, "error").at = "sending" /\ Sending(t, "error").out = "error"
  BY DEF Sending, TurnStates
<1> QED BY <1>1, <1>2 DEF TextOf

LEMMA TextStream ==
  ASSUME NEW t \in TurnStates, NEW s \in Sockets, TextOf(t, s), t.at = "stream"
  PROVE  /\ TextOf(Sending(t, "delta"), [s EXCEPT !.partial = @ + 1])
         /\ TextOf(ToolRound(t), s)
         /\ TextOf(FinalRound(t), s)
         /\ TextOf(ForcedFinal(t), [s EXCEPT !.partial = @ + 1])
<1> DEFINE z == [s EXCEPT !.partial = @ + 1]
<1>1. /\ s.partial \in Nat /\ s.seen \in Nat /\ t.answer \in Nat /\ t.buf \in Nat
      /\ s.seen <= s.partial /\ s.partial = t.answer + t.buf
  BY DEF TextOf, TurnStates, Sockets
<1>2. z.partial = s.partial + 1 /\ z.seen = s.seen
  BY DEF Sockets
<1> HIDE DEF z
<1>3. TextOf(Sending(t, "delta"), z)
  <2>1. /\ Sending(t, "delta").at = "sending" /\ Sending(t, "delta").out = "delta"
        /\ Sending(t, "delta").answer = t.answer /\ Sending(t, "delta").buf = t.buf
    BY DEF Sending, TurnStates
  <2> QED BY <1>1, <1>2, <2>1 DEF TextOf
<1>4. TextOf(ToolRound(t), s)
  <2>1. /\ ToolRound(t).at = "sending" /\ ToolRound(t).out = "call"
        /\ ToolRound(t).answer = t.answer + t.buf
    BY DEF ToolRound, TurnStates
  <2> QED BY <1>1, <2>1 DEF TextOf
<1>5. TextOf(FinalRound(t), s)
  <2>1. FinalRound(t).at = "persist" /\ FinalRound(t).answer = t.answer + t.buf
    BY DEF FinalRound, TurnStates
  <2> QED BY <1>1, <2>1 DEF TextOf
<1>6. TextOf(ForcedFinal(t), z)
  <2>1. /\ ForcedFinal(t).at = "sending" /\ ForcedFinal(t).out = "note"
        /\ ForcedFinal(t).answer = t.answer + t.buf + 1
    BY DEF ForcedFinal, TurnStates
  <2> QED BY <1>1, <1>2, <2>1 DEF TextOf
<1> QED BY <1>3, <1>4, <1>5, <1>6 DEF z

(* A frame that is out adds to `seen` no more than it added to `partial`. *)
LEMMA TextSent ==
  ASSUME NEW t \in TurnStates, NEW s \in Sockets, TextOf(t, s), t.at = "sending",
         NEW u \in AfterSend(t), NEW z,
         z.partial = s.partial,
         z.seen = s.seen \/ (t.out \in {"delta", "note"} /\ z.seen = s.seen + 1)
  PROVE  TextOf(u, z)
<1>1. /\ s.partial \in Nat /\ s.seen \in Nat /\ t.answer \in Nat /\ t.buf \in Nat
      /\ t.out \in Frames
  BY DEF TurnStates, Sockets
<1>2. z.seen <= z.partial
  BY <1>1 DEF TextOf
<1>3. CASE t.out = "delta"
  <2>1. u = [t EXCEPT !.at = "stream", !.buf = @ + 1]
    BY <1>3 DEF AfterSend
  <2>2. u.at = "stream" /\ u.buf = t.buf + 1 /\ u.answer = t.answer
    BY <2>1 DEF TurnStates
  <2> QED BY <1>1, <1>2, <1>3, <2>2 DEF TextOf
<1>4. CASE t.out \in {"call", "note"}
  <2>1. u \in {[t EXCEPT !.at = "tools"], [t EXCEPT !.at = "persist"]}
    BY <1>4 DEF AfterSend
  <2>2. u.at \in {"tools", "persist"} /\ u.answer = t.answer
    BY <2>1 DEF TurnStates
  <2> QED BY <1>1, <1>2, <1>4, <2>2 DEF TextOf
<1>5. CASE t.out = "result"
  <2>1. u \in {NextRound(t), Forced(t)}
    BY <1>5 DEF AfterSend
  <2>2. TextOf(u, s)
    BY <1>5, <2>1, TextHistory
  <2>3. z.seen = s.seen
    BY <1>5
  <2> QED BY <2>2, <2>3, TextCounters
<1>6. CASE t.out \in {"error", "done"}
  <2>1. u \in {[t EXCEPT !.at = "fail"], [t EXCEPT !.at = "returned"]}
    BY <1>6 DEF AfterSend
  <2>2. u.at \in {"fail", "returned"}
    BY <2>1 DEF TurnStates
  <2> QED BY <1>2, <2>2 DEF TextOf
<1> QED BY <1>1, <1>3, <1>4, <1>5, <1>6 DEF Frames

LEMMA TextInit == Init => TextInv
BY DEF Init, TextInv, TextsAgree, TextOf, RowsAreFinal, RowsKeepTheText

(* A step that writes no row keeps the text if, for the ask that moves, the
   two counts still compare, a committed answer stays final with its count,
   and what a cancelled row did not see stays unseen. *)
LEMMA TextFrame ==
  ASSUME TypeOK, TextInv, rows' \subseteq rows,
         \A b \in Asks : TextOf(turn'[b], ws'[b]),
         \A b \in Asks : AnswerIsFinal(b) =>
            /\ AnswerIsFinal(b)'
            /\ ws'[b].partial = ws[b].partial,
         \A r \in rows : r.status = "cancelled" => ws'[r.ask].seen = ws[r.ask].seen
  PROVE  TextInv'
<1>1. TextsAgree'
  BY DEF TextsAgree
<1>2. \A r \in rows : r.ask \in Asks
  BY DEF TypeOK, Rows
<1>3. RowsAreFinal'
  BY <1>2 DEF TextInv, RowsAreFinal
<1>4. RowsKeepTheText'
  BY <1>2 DEF TextInv, RowsAreFinal, RowsKeepTheText
<1> QED BY <1>1, <1>3, <1>4 DEF TextInv

(* Every step that leaves the agents and their counts alone. *)
LEMMA TextStill ==
  ASSUME TypeOK, TextInv, rows' \subseteq rows, UNCHANGED turn,
         \A b \in Asks : ws'[b].seen = ws[b].seen /\ ws'[b].partial = ws[b].partial
  PROVE  TextInv'
<1>1. \A b \in Asks : TextOf(turn'[b], ws'[b])
  BY TextCounters DEF TextInv, TextsAgree
<1>2. \A b \in Asks : AnswerIsFinal(b) => AnswerIsFinal(b)'
  BY DEF AnswerIsFinal, SendsDone
<1>3. \A r \in rows : ws'[r.ask].seen = ws[r.ask].seen
  BY DEF TypeOK, Rows
<1> QED BY <1>1, <1>2, <1>3, TextFrame

LEMMA TextHandler ==
  ASSUME TypeOK, RowInv, TextInv, NEW a \in Asks, Handler(a), ~PersistCancelled(a)
  PROVE  TextInv'
<1>1. CASE ListTools(a) /\ UNCHANGED <<turn, ws>>
  <2>1. UNCHANGED rows
    BY <1>1 DEF ListTools
  <2> QED BY <1>1, <2>1, TextStill
<1>2. CASE ListTools(a) /\ ~UNCHANGED <<turn, ws>>
  <2>1. /\ pc[a] = "tools" /\ UNCHANGED rows
        /\ turn' = [turn EXCEPT ![a].at = "history"]
        /\ ws' = [ws EXCEPT ![a].reader = "reading"]
    BY <1>2 DEF ListTools
  <2>2. turn[a] \in TurnStates /\ ws[a] \in Sockets /\ turn[a].at = "none"
    BY <2>1 DEF TypeOK, RowInv, NoAgentYet, BeforeAgent
  <2>3. \A b \in Asks : b # a => turn'[b] = turn[b] /\ ws'[b] = ws[b]
    BY <2>1 DEF TypeOK
  <2>4. ws'[a].seen = ws[a].seen /\ ws'[a].partial = ws[a].partial
    BY <2>1, <2>2 DEF TypeOK, Sockets
  <2>5. TextOf(turn'[a], ws'[a])
    <3>1. TextOf([turn[a] EXCEPT !.at = "history"], ws[a])
      BY <2>2, TextStarts DEF TextInv, TextsAgree
    <3>2. turn'[a] = [turn[a] EXCEPT !.at = "history"]
      BY <2>1 DEF TypeOK
    <3> QED BY <2>4, <3>1, <3>2, TextCounters
  <2>6. \A b \in Asks : TextOf(turn'[b], ws'[b])
    BY <2>3, <2>5 DEF TextInv, TextsAgree
  <2>7. ~AnswerIsFinal(a)
    BY <2>2 DEF AnswerIsFinal, SendsDone
  <2>8. \A b \in Asks : AnswerIsFinal(b) =>
          AnswerIsFinal(b)' /\ ws'[b].partial = ws[b].partial
    BY <2>3, <2>7 DEF AnswerIsFinal, SendsDone
  <2>9. \A r \in rows : ws'[r.ask].seen = ws[r.ask].seen
    BY <2>3, <2>4 DEF TypeOK, Rows
  <2> QED BY <2>1, <2>6, <2>8, <2>9, TextFrame
<1>3. CASE ~ListTools(a)
  <2>1. UNCHANGED <<rows, turn, ws>>
    BY <1>3 DEF Handler, WsAskHandler, Upgrade, ReadInit, GetSession, ReaderArm,
                HandlerQueues, Enqueue, SendError, SendClose
  <2> QED BY <2>1, TextStill
<1> QED BY <1>1, <1>2, <1>3

(* The agent's steps that do not write a row. *)
LEMMA TextAgent ==
  ASSUME TypeOK, RowInv, TextInv, NEW a \in Asks, Agent(a),
         ~AgentPersistOk(a), ~AgentPersistError(a)
  PROVE  TextInv'
<1> DEFINE t == turn[a]
           s == ws[a]
<1>0. t \in TurnStates /\ s \in Sockets /\ TextOf(t, s)
  BY DEF TypeOK, TextInv, TextsAgree
<1>1. pc[a] = "run" /\ UNCHANGED rows
  BY DEF Agent, AgentHistory, AgentDelta, AgentToolUse, AgentFinal, AgentForcedFinal,
         AgentStreamError, AgentToolsDone, AgentSend, AgentQueues, Enqueue, Polled
<1>2. \A r \in rows : r.status = "cancelled" => r.ask # a
  BY <1>1 DEF RowInv, WrittenOnLeaving, Past
<1>3. \A b \in Asks : b # a => turn'[b] = turn[b] /\ ws'[b] = ws[b]
  BY DEF Agent, AgentHistory, AgentDelta, AgentToolUse, AgentFinal,
         AgentForcedFinal, AgentStreamError, AgentToolsDone, AgentSend, GoOn,
         AgentQueues, Enqueue, TypeOK
<1>4. ASSUME TextOf(turn'[a], ws'[a]),
             AnswerIsFinal(a) => AnswerIsFinal(a)' /\ ws'[a].partial = s.partial
      PROVE  TextInv'
  <2>1. \A b \in Asks : TextOf(turn'[b], ws'[b])
    BY <1>3, <1>4 DEF TextInv, TextsAgree
  <2>2. \A b \in Asks : AnswerIsFinal(b) =>
          AnswerIsFinal(b)' /\ ws'[b].partial = ws[b].partial
    BY <1>3, <1>4 DEF AnswerIsFinal, SendsDone
  <2>3. \A r \in rows : r.status = "cancelled" => ws'[r.ask].seen = ws[r.ask].seen
    BY <1>2, <1>3 DEF TypeOK, Rows
  <2> QED BY <1>1, <2>1, <2>2, <2>3, TextFrame
<1>5. CASE AgentSend(a)
  <2>1. t.at = "sending" /\ ~(t.out = "done" /\ ~AnswerIsFinal(a))
    BY <1>5 DEF AgentSend, AnswerIsFinal, SendsDone
  <2>2. /\ \A f \in Frames :
             /\ Delivered(s, f).partial = s.partial
             /\ \/ Delivered(s, f).seen = s.seen
                \/ f \in {"delta", "note"} /\ Delivered(s, f).seen = s.seen + 1
        /\ \A w : /\ [s EXCEPT !.writer = w].partial = s.partial
                  /\ [s EXCEPT !.writer = w].seen = s.seen
    BY <1>0 DEF Delivered, Sockets
  <2>3. t.out \in Frames
    BY <1>0, TurnFields
  <2>4. \/ ws'[a] = Delivered(s, t.out)
        \/ \E w : ws'[a] = [s EXCEPT !.writer = w]
    BY <1>5 DEF AgentSend, TypeOK
  <2>5. /\ ws'[a].partial = s.partial
        /\ ws'[a].seen = s.seen \/ (t.out \in {"delta", "note"} /\ ws'[a].seen = s.seen + 1)
    BY <2>2, <2>3, <2>4, ZenonT(60)
  <2>6. \/ turn'[a] = t /\ ws'[a].seen = s.seen
        \/ turn'[a] \in AfterSend(t)
        \/ turn'[a] = Failed(t) /\ ws'[a].seen = s.seen
    <3>1. \/ \E u \in AfterSend(t) : turn' = [turn EXCEPT ![a] = u]
          \/ \E w : ws' = [ws EXCEPT ![a] = [s EXCEPT !.writer = w]]
      BY <1>5 DEF AgentSend, GoOn
    <3>2. \/ UNCHANGED turn
          \/ \E u \in AfterSend(t) \cup {Failed(t)} : turn' = [turn EXCEPT ![a] = u]
      BY <1>5 DEF AgentSend, GoOn
    <3>3. CASE \E u \in AfterSend(t) : turn' = [turn EXCEPT ![a] = u]
      BY <3>3 DEF TypeOK
    <3>4. CASE \E w : ws' = [ws EXCEPT ![a] = [s EXCEPT !.writer = w]]
      <4>1. ws'[a].seen = s.seen
        BY <2>2, <3>4 DEF TypeOK
      <4>2. turn'[a] = t \/ turn'[a] \in AfterSend(t) \cup {Failed(t)}
        BY <3>2 DEF TypeOK
      <4> QED BY <4>1, <4>2
    <3> QED BY <3>1, <3>3, <3>4
  <2>7. TextOf(turn'[a], ws'[a])
    <3>1. CASE turn'[a] \in {t, Failed(t)} /\ ws'[a].seen = s.seen
      BY <1>0, <2>5, <3>1, TextFailed, TextCounters
    <3>2. CASE turn'[a] \in AfterSend(t)
      BY <1>0, <2>1, <2>5, <3>2, TextSent
    <3> QED BY <2>6, <3>1, <3>2
  <2>8. AnswerIsFinal(a) => AnswerIsFinal(a)'
    <3> SUFFICES ASSUME AnswerIsFinal(a) PROVE AnswerIsFinal(a)'
      OBVIOUS
    <3>1. t.out = "done"
      BY <2>1 DEF AnswerIsFinal, SendsDone
    <3>2. AfterSend(t) = {[t EXCEPT !.at = "returned"]}
      BY <3>1 DEF AfterSend
    <3>3. [t EXCEPT !.at = "returned"].at = "returned" /\ Failed(t).at = "fail"
      BY <1>0 DEF TurnStates, Failed
    <3>4. turn'[a] = t \/ turn'[a].at \in {"fail", "returned"}
      BY <2>6, <3>2, <3>3
    <3> QED BY <3>4 DEF AnswerIsFinal, SendsDone
  <2> QED BY <1>4, <2>5, <2>7, <2>8
<1>6. CASE AgentQueues(a)
  <2>1. UNCHANGED <<turn, ws>>
    BY <1>6 DEF AgentQueues, Enqueue
  <2> QED BY <1>0, <1>4, <2>1 DEF AnswerIsFinal, SendsDone
<1>7. CASE ~AgentSend(a) /\ ~AgentQueues(a)
  <2>1. ~AnswerIsFinal(a)
    BY <1>7 DEF Agent, AgentHistory, AgentDelta, AgentToolUse, AgentFinal,
         AgentForcedFinal, AgentStreamError, AgentToolsDone, AnswerIsFinal, SendsDone
  <2>2. CASE AgentHistory(a)
    <3>1. t.at = "history" /\ ws'[a] = s /\ turn'[a] \in {NextRound(t), Failed(t)}
      BY <2>2 DEF AgentHistory, TypeOK
    <3> QED BY <1>0, <1>4, <2>1, <3>1, TextHistory, TextFailed
  <2>3. CASE AgentDelta(a)
    <3>1. /\ t.at = "stream" /\ ws'[a] = [s EXCEPT !.partial = @ + 1]
          /\ turn'[a] = Sending(t, "delta")
      BY <2>3 DEF AgentDelta, TypeOK
    <3> QED BY <1>0, <1>4, <2>1, <3>1, TextStream
  <2>4. CASE AgentToolUse(a)
    <3>1. t.at = "stream" /\ ws'[a] = s /\ turn'[a] = ToolRound(t)
      BY <2>4 DEF AgentToolUse, TypeOK
    <3> QED BY <1>0, <1>4, <2>1, <3>1, TextStream
  <2>5. CASE AgentFinal(a)
    <3>1. t.at = "stream" /\ ws'[a] = s /\ turn'[a] = FinalRound(t)
      BY <2>5 DEF AgentFinal, TypeOK
    <3> QED BY <1>0, <1>4, <2>1, <3>1, TextStream
  <2>6. CASE AgentForcedFinal(a)
    <3>1. /\ t.at = "stream" /\ ws'[a] = [s EXCEPT !.partial = @ + 1]
          /\ turn'[a] = ForcedFinal(t)
      BY <2>6 DEF AgentForcedFinal, TypeOK
    <3> QED BY <1>0, <1>4, <2>1, <3>1, TextStream
  <2>7. CASE AgentStreamError(a)
    <3>1. ws'[a] = s /\ turn'[a] \in {Sending(t, "error"), Failed(t)}
      BY <2>7 DEF AgentStreamError, TypeOK
    <3> QED BY <1>0, <1>4, <2>1, <3>1, TextFailed
  <2>8. CASE AgentToolsDone(a)
    <3>1. t.at = "tools" /\ ws'[a] = s /\ turn'[a] = Sending(t, "result")
      BY <2>8 DEF AgentToolsDone, TypeOK
    <3>2. TextOf(Sending(t, "result"), s)
      BY <1>0, <3>1 DEF TextOf, Sending, TurnStates
    <3> QED BY <1>4, <2>1, <3>1, <3>2
  <2> QED BY <1>7, <2>2, <2>3, <2>4, <2>5, <2>6, <2>7, <2>8 DEF Agent
<1> QED BY <1>5, <1>6, <1>7

(* The three steps that write a row: what they write is right when they do,
   and the agent that committed its answer is through with its text. *)
LEMMA TextPersistOk ==
  ASSUME TypeOK, TextInv, NEW a \in Asks, AgentPersistOk(a)
  PROVE  TextInv'
<1> DEFINE t == turn[a]
           new == [ask |-> a, status |-> "ok", answer |-> turn[a].answer]
<1>0. t \in TurnStates /\ ws[a] \in Sockets /\ TextOf(t, ws[a])
  BY DEF TypeOK, TextInv, TextsAgree
<1>1. PICK ok \in BOOLEAN :
        /\ Insert(a, "ok", t.answer, ok)
        /\ turn' = [turn EXCEPT ![a] = IF ok THEN Sending(@, "done") ELSE Failed(@)]
  BY DEF AgentPersistOk
<1>2. t.at = "persist" /\ UNCHANGED ws /\ t.answer = ws[a].partial
  BY <1>0 DEF AgentPersistOk, TextOf
<1>3. rows' = IF ok THEN rows \cup {new} ELSE rows
  BY <1>1 DEF Insert
<1>4. \A b \in Asks : b # a => turn'[b] = turn[b]
  BY <1>1 DEF TypeOK
<1>5. turn'[a] = IF ok THEN Sending(t, "done") ELSE Failed(t)
  BY <1>1 DEF TypeOK
<1>6. AnswerIsFinal(a)' /\ TextOf(turn'[a], ws[a])
  <2>1. /\ Sending(t, "done").at = "sending" /\ Sending(t, "done").out = "done"
        /\ Sending(t, "done").answer = t.answer /\ Failed(t).at = "fail"
    BY <1>0 DEF Sending, Failed, TurnStates
  <2> QED BY <1>0, <1>2, <1>5, <2>1 DEF AnswerIsFinal, SendsDone, TextOf
<1>7. TextsAgree'
  BY <1>2, <1>4, <1>6 DEF TextInv, TextsAgree
<1>8. \A b \in Asks : AnswerIsFinal(b) => AnswerIsFinal(b)'
  BY <1>4, <1>6 DEF AnswerIsFinal, SendsDone
<1>9. \A r \in rows : r.ask \in Asks
  BY DEF TypeOK, Rows
<1>10. RowsAreFinal'
  BY <1>3, <1>6, <1>8, <1>9 DEF TextInv, RowsAreFinal
<1>11. RowsKeepTheText'
  BY <1>2, <1>3 DEF TextInv, RowsKeepTheText
<1> QED BY <1>7, <1>10, <1>11 DEF TextInv

LEMMA TextPersistError ==
  ASSUME TypeOK, TextInv, NEW a \in Asks, AgentPersistError(a)
  PROVE  TextInv'
<1>0. turn[a] \in TurnStates /\ ws[a] \in Sockets /\ TextOf(turn[a], ws[a])
  BY DEF TypeOK, TextInv, TextsAgree
<1>1. PICK ok \in BOOLEAN : Insert(a, "error", turn[a].answer, ok)
  BY DEF AgentPersistError
<1>2. /\ turn[a].at = "fail" /\ UNCHANGED ws
      /\ turn' = [turn EXCEPT ![a].at = "returned"]
  BY DEF AgentPersistError
<1>3. \A r \in rows' : r \in rows \/ r.status = "error"
  BY <1>1 DEF Insert
<1>4. \A b \in Asks : b # a => turn'[b] = turn[b]
  BY <1>2 DEF TypeOK
<1>5. turn'[a].at = "returned"
  BY <1>0, <1>2 DEF TypeOK, TurnStates
<1>6. TextsAgree'
  <2>1. TextOf(turn'[a], ws[a])
    BY <1>0, <1>5 DEF TextOf
  <2> QED BY <1>2, <1>4, <2>1 DEF TextInv, TextsAgree
<1>7. \A b \in Asks : AnswerIsFinal(b) => AnswerIsFinal(b)'
  BY <1>4, <1>5 DEF AnswerIsFinal, SendsDone
<1>8. \A r \in rows : r.ask \in Asks
  BY DEF TypeOK, Rows
<1>9. RowsAreFinal'
  BY <1>3, <1>7, <1>8 DEF TextInv, RowsAreFinal
<1>10. RowsKeepTheText'
  BY <1>2, <1>3 DEF TextInv, RowsKeepTheText
<1> QED BY <1>6, <1>9, <1>10 DEF TextInv

LEMMA TextPersistCancelled ==
  ASSUME TypeOK, TextInv, NEW a \in Asks, PersistCancelled(a)
  PROVE  TextInv'
<1> DEFINE new == [ask |-> a, status |-> "cancelled", answer |-> ws[a].partial]
<1>1. PICK ok \in BOOLEAN : Insert(a, "cancelled", ws[a].partial, ok)
  BY DEF PersistCancelled
<1>2. UNCHANGED <<turn, ws>>
  BY DEF PersistCancelled
<1>3. rows' = IF ok THEN rows \cup {new} ELSE rows
  BY <1>1 DEF Insert
<1>4. ws[a].partial >= ws[a].seen
  <2>1. ws[a].partial \in Nat /\ ws[a].seen \in Nat
    BY DEF TypeOK, Sockets
  <2> QED BY <2>1 DEF TextInv, TextsAgree, TextOf
<1>5. TextsAgree'
  BY <1>2 DEF TextInv, TextsAgree
<1>6. RowsAreFinal'
  BY <1>2, <1>3 DEF TextInv, RowsAreFinal, AnswerIsFinal, SendsDone
<1>7. RowsKeepTheText'
  BY <1>2, <1>3, <1>4 DEF TextInv, RowsKeepTheText
<1> QED BY <1>5, <1>6, <1>7 DEF TextInv

(* The reader, the connection, a crash and the other users of the store. *)
LEMMA TextOthers ==
  ASSUME TypeOK, TextInv,
         \/ \E a \in Asks : ReaderEnds(a) \/ Environment(a)
         \/ \E u \in RestUsers : Rest(u)
         \/ Restart \/ UNCHANGED vars
  PROVE  TextInv'
<1>1. UNCHANGED turn /\ rows' \subseteq rows
  BY DEF ReaderEnds, Environment, Stall, Drain, Disconnect, Restart, vars, Rest,
         RestLock, RestServe, DeleteSession
<1>2. \A b \in Asks : ws'[b].seen = ws[b].seen /\ ws'[b].partial = ws[b].partial
  <2>0. \A b \in Asks : ws[b] \in Sockets
    BY DEF TypeOK
  <2>1. CASE UNCHANGED ws
    BY <2>1
  <2>2. CASE \E a \in Asks : ReaderEnds(a) \/ Environment(a)
    <3>1. PICK a \in Asks : ReaderEnds(a) \/ Environment(a)
      BY <2>2
    <3>2. \/ \E n : ws' = [ws EXCEPT ![a].net = n]
          \/ \E r : ws' = [ws EXCEPT ![a].reader = r]
      BY <3>1 DEF ReaderEnds, Environment, Stall, Drain, Disconnect
    <3>3. ASSUME NEW b \in Asks
          PROVE  ws'[b].seen = ws[b].seen /\ ws'[b].partial = ws[b].partial
      <4>1. \/ ws'[b] = ws[b]
            \/ \E n : ws'[b] = [ws[b] EXCEPT !.net = n]
            \/ \E r : ws'[b] = [ws[b] EXCEPT !.reader = r]
        BY <3>2, ZenonT(60) DEF TypeOK
      <4>2. CASE \E n : ws'[b] = [ws[b] EXCEPT !.net = n]
        BY <2>0, <4>2 DEF Sockets
      <4>3. CASE \E r : ws'[b] = [ws[b] EXCEPT !.reader = r]
        BY <2>0, <4>3 DEF Sockets
      <4> QED BY <4>1, <4>2, <4>3
    <3> QED BY <3>3
  <2>3. CASE Restart
    <3>1. \A s \in Sockets : Killed(s).seen = s.seen /\ Killed(s).partial = s.partial
      BY DEF Killed, Sockets
    <3> QED BY <2>0, <2>3, <3>1 DEF Restart, TypeOK
  <2> QED BY <2>1, <2>2, <2>3 DEF vars, Rest, RestLock, RestServe
<1> QED BY <1>1, <1>2, TextStill

(* What is stored is what was streamed: a completed turn's row holds all the
   text of all its rounds, and a cancelled row no less than the client saw,
   for any bounds, and wherever a stall, a lost client, a failing store or a
   crash comes in (PartialAnswer of ws.rs beside TurnState.answer of loop_.rs). *)
THEOREM TextIsKept == Spec => []RowsKeepTheText
<1>1. TypeOK /\ RowInv /\ TextInv /\ [Next]_vars => TextInv'
  <2> SUFFICES ASSUME TypeOK, RowInv, TextInv, [Next]_vars PROVE TextInv'
    OBVIOUS
  <2>1. ASSUME NEW a \in Asks, Handler(a) PROVE TextInv'
    BY <2>1, TextHandler, TextPersistCancelled
  <2>2. ASSUME NEW a \in Asks, Agent(a) PROVE TextInv'
    BY <2>2, TextAgent, TextPersistOk, TextPersistError
  <2> QED BY <2>1, <2>2, TextOthers DEF Next
<1>2. TextInv => RowsKeepTheText
  BY DEF TextInv
<1> QED BY TextInit, <1>1, <1>2, TypeCorrect, RowsInductive, PTL DEF Spec
=============================================================================
