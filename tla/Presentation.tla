---------------------------- MODULE Presentation ----------------------------
(***************************************************************************)
(* The highlights an answer puts on the reviewer's diff: the daemon's        *)
(* presentation calls (tools/presentation.rs, tools/router.rs, the reader    *)
(* task of server/ws.rs), the wire, and the extension's presentation         *)
(* manager (utils/presentation/index.ts, handlers.ts) under the question     *)
(* lifecycle of QaPanel.tsx.                                                 *)
(*                                                                         *)
(* A call is <<question, number>>.  Calls are the three tools that mark a    *)
(* line of a file: highlight_lines, annotate_line, scroll_to.  Deadlines     *)
(* (5 s in the daemon, 4 s in the page) may pass in any order: a hidden tab  *)
(* is throttled, and a frame may be late.                                    *)
(***************************************************************************)
EXTENDS Naturals, Sequences, SequencesExt

CONSTANTS
  MaxQuestions,   \* bound: questions asked in one panel
  CallsOf         \* bound: presentation calls of each answer

ASSUME PresentationAssumption ==
  MaxQuestions \in Nat /\ CallsOf \in [1..MaxQuestions -> Nat]

Questions == 1..MaxQuestions
Numbers(a) == 1..CallsOf[a]
Calls == UNION {{a} \X Numbers(a) : a \in Questions}

(* The `done` frame of an answer travels the same way as its calls. *)
DoneFrame(a) == <<a, 0>>
Frames == Calls \cup {DoneFrame(a) : a \in Questions}

VARIABLES
  q,         \* the current question, 0 before the first
  asking,    \* QaPanel: open() of the AskSession has not settled
  mounted,   \* the panel is mounted
  muted,     \* PresentationManager.state.muted
  turn,      \* the daemon's turn of question q: offered, plain (muted), idle
  link,      \* the socket of question q: up, lost, closed
  call,      \* each call: none, pending, ok, failed, timeout, unavailable, unsent
  down,      \* frames to the extension: calls, then done
  up,        \* presentation_result frames to the daemon
  handlers,  \* calls whose handler waits for the file to be rendered
  replay,    \* steps replaySteps still has to put back
  painted,   \* calls whose effect is on the diff
  steps,     \* state.steps of the manager
  placed,    \* Turn.presentation of each answer, copied at `done`
  recorded,  \* calls with a trace that has ok set, in the turn's row
  applied    \* history: calls whose live handler succeeded

vars == <<q, asking, mounted, muted, turn, link, call, down, up, handlers, replay,
          painted, steps, placed, recorded, applied>>

panel == <<asking, mounted, muted, steps, placed>>
page == <<handlers, replay, painted, applied>>

Init ==
  /\ q = 0
  /\ asking = FALSE
  /\ mounted = TRUE
  /\ muted = FALSE
  /\ turn = "idle"
  /\ link = "closed"
  /\ call = [c \in Calls |-> "none"]
  /\ down = <<>>
  /\ up = <<>>
  /\ handlers = {}
  /\ replay = <<>>
  /\ painted = {}
  /\ steps = <<>>
  /\ placed = [a \in Questions |-> <<>>]
  /\ recorded = {}
  /\ applied = {}

-----------------------------------------------------------------------------
(* The daemon's turn. *)

Running == turn # "idle"
Ended == {c \in Calls : call[c] \notin {"none", "pending"}}

(* PresentationDispatcher::dispatch of the next call of the answer: register,
   then send.  Calls of one round run side by side.  On a lost connection the
   send may fail. *)
Dispatch ==
  /\ turn = "offered"
  /\ \E n \in Numbers(q) :
       LET c == <<q, n>> IN
       /\ call[c] = "none"
       /\ \A m \in 1..(n - 1) : call[<<q, m>>] # "none"
       /\ \/ call' = [call EXCEPT ![c] = "pending"] /\ down' = Append(down, c)
          \/ /\ link = "lost"
             /\ call' = [call EXCEPT ![c] = "unsent"]
             /\ UNCHANGED down
  /\ UNCHANGED <<q, turn, link, up, panel, page, recorded>>

(* Mutant of Deliver: the ok field of the result is ignored. *)
DeliverAlwaysOk ==
  /\ Running /\ up # <<>>
  /\ up' = Tail(up)
  /\ call' = [call EXCEPT ![Head(up).call] = IF @ = "pending" THEN "ok" ELSE @]
  /\ UNCHANGED <<q, turn, link, down, panel, page, recorded>>

(* The reader task hands a result to the call that waits for it, if one does. *)
Deliver ==
  /\ Running /\ up # <<>>
  /\ up' = Tail(up)
  /\ call' = [call EXCEPT ![Head(up).call] =
                IF @ # "pending" THEN @ ELSE IF Head(up).ok THEN "ok" ELSE "failed"]
  /\ UNCHANGED <<q, turn, link, down, panel, page, recorded>>

(* Mutant of Timeout: the entry goes, the dispatch keeps waiting. *)
TimeoutForgets ==
  /\ Running
  /\ \E n \in Numbers(q) : call[<<q, n>>] = "pending" /\ UNCHANGED call
  /\ UNCHANGED <<q, turn, link, down, up, panel, page, recorded>>

Timeout ==
  /\ Running
  /\ \E n \in Numbers(q) :
       call[<<q, n>>] = "pending" /\ call' = [call EXCEPT ![<<q, n>>] = "timeout"]
  /\ UNCHANGED <<q, turn, link, down, up, panel, page, recorded>>

(* Mutant of Traced: only calls the extension confirmed count as ok. *)
TracedConfirmed(n) == {c \in Calls : c[1] = q /\ c[2] <= n /\ call[c] = "ok"}

(* ToolRouter::dispatch: what PresentationDispatcher returned becomes the
   value, and the trace of every call whose frame was sent has ok set. *)
Traced(n) == {c \in Ended : c[1] = q /\ c[2] <= n /\ call[c] # "unsent"}

(* The round's calls have all answered and the model gives its answer: the row
   is committed with its traces, `done` goes out. *)
Finish ==
  /\ Running /\ link = "up"
  /\ \A n \in Numbers(q) : call[<<q, n>>] # "pending"
  /\ recorded' = recorded \cup Traced(CallsOf[q])
  /\ down' = Append(down, DoneFrame(q))
  /\ turn' = "idle"
  /\ up' = <<>>
  /\ UNCHANGED <<q, link, call, panel, page>>

(* The reader sees the connection end: cancel_all.  A cancelled row has no
   traces; if the failed send ends the turn first, its error row has those of
   the calls the agent got to. *)
ReaderEnds ==
  /\ Running /\ link # "up"
  /\ call' = [c \in Calls |-> IF call[c] = "pending" THEN "unavailable" ELSE call[c]]
  /\ \E n \in 0..CallsOf[q] : recorded' = recorded \cup Traced(n)
  /\ turn' = "idle"
  /\ up' = <<>>
  /\ UNCHANGED <<q, link, down, panel, page>>

-----------------------------------------------------------------------------
(* The extension. *)

(* runAsk: clear the diff, forget the steps, open a session.  Handlers and a
   replay that wait for a file are not cancelled. *)
Ask ==
  /\ mounted /\ ~asking /\ turn = "idle"
  /\ q + 1 \in Questions
  /\ q' = q + 1
  /\ asking' = TRUE
  /\ painted' = {}
  /\ steps' = <<>>
  /\ turn' = IF muted THEN "plain" ELSE "offered"
  /\ link' = "up"
  /\ down' = <<>>
  /\ up' = <<>>
  /\ UNCHANGED <<mounted, muted, call, handlers, replay, placed, recorded, applied>>

(* sendPresentationResult is silent once its session's socket is closed; a
   daemon whose turn is over ignores it. *)
Reply(c, ok) ==
  up' = IF c[1] = q /\ Running /\ link = "up" THEN Append(up, [call |-> c, ok |-> ok]) ELSE up

(* The handler's tail, in one turn of the event loop: the effect, the step, the
   answer. *)
Apply(c, ok) ==
  /\ painted' = IF ok THEN painted \cup {c} ELSE painted
  /\ applied' = IF ok THEN applied \cup {c} ELSE applied
  /\ steps' = IF ok THEN Append(steps, c) ELSE steps
  /\ Reply(c, ok)

(* A presentation_call frame.  Muted, it is refused; with its file rendered,
   it is applied at once; otherwise the handler waits. *)
ReceiveCall ==
  /\ asking /\ down # <<>> /\ Head(down) \in Calls
  /\ down' = Tail(down)
  /\ LET c == Head(down) IN
       \/ /\ ~mounted
          /\ UNCHANGED <<up, page, steps>>
       \/ /\ mounted /\ muted
          /\ Reply(c, FALSE)
          /\ UNCHANGED <<page, steps>>
       \/ /\ mounted /\ ~muted
          /\ \E ok \in BOOLEAN : Apply(c, ok)
          /\ UNCHANGED <<handlers, replay>>
       \/ /\ mounted /\ ~muted
          /\ handlers' = handlers \cup {c}
          /\ UNCHANGED <<up, painted, applied, steps, replay>>
  /\ UNCHANGED <<q, asking, mounted, muted, placed, turn, link, call, recorded>>

(* ensureFileRendered returns: the file mounted, or four seconds passed. *)
Resume ==
  /\ \E c \in handlers :
       /\ handlers' = handlers \ {c}
       /\ \E ok \in BOOLEAN : Apply(c, ok)
  /\ UNCHANGED <<q, asking, mounted, muted, placed, turn, link, call, down, replay, recorded>>

(* The `done` frame: the answer keeps the steps recorded so far, open()
   resolves and the session is closed. *)
ReceiveDone ==
  /\ asking /\ down # <<>> /\ Head(down) = DoneFrame(q)
  /\ placed' = [placed EXCEPT ![q] = steps]
  /\ asking' = FALSE
  /\ link' = "closed"
  /\ down' = <<>>
  /\ UNCHANGED <<q, mounted, muted, steps, turn, call, up, page, recorded>>

(* The socket closes under the session: open() rejects. *)
SocketClosed ==
  /\ asking /\ link = "lost"
  /\ asking' = FALSE
  /\ link' = "closed"
  /\ down' = <<>>
  /\ UNCHANGED <<q, mounted, muted, steps, placed, turn, call, up, page, recorded>>

(* onShowPresentation -> replaySteps: clear the diff, then put an earlier
   answer's steps back one by one.  Nothing forbids it while asking. *)
ShowOnDiff ==
  /\ mounted /\ replay = <<>>
  /\ \E a \in Questions : placed[a] # <<>> /\ replay' = placed[a]
  /\ painted' = {}
  /\ UNCHANGED <<q, panel, turn, link, call, down, up, handlers, applied, recorded>>

ReplayStep ==
  /\ replay # <<>>
  /\ replay' = Tail(replay)
  /\ \/ painted' = painted \cup {Head(replay)}
     \/ UNCHANGED painted
  /\ UNCHANGED <<q, panel, turn, link, call, down, up, handlers, applied, recorded>>

ToggleMute ==
  /\ mounted
  /\ muted' = ~muted
  /\ UNCHANGED <<q, asking, mounted, steps, placed, turn, link, call, down, up, page, recorded>>

(* The panel closes: clearAll and detachAll; the session stays open. *)
Unmount ==
  /\ mounted
  /\ mounted' = FALSE
  /\ painted' = {}
  /\ UNCHANGED <<q, asking, muted, steps, placed, turn, link, call, down, up, handlers,
                 replay, applied, recorded>>

LinkLost ==
  /\ link = "up"
  /\ link' = "lost"
  /\ UNCHANGED <<q, turn, call, down, up, panel, page, recorded>>

-----------------------------------------------------------------------------
Daemon == Dispatch \/ Deliver \/ Timeout \/ Finish \/ ReaderEnds

Extension ==
  \/ Ask \/ ReceiveCall \/ Resume \/ ReceiveDone \/ SocketClosed
  \/ ShowOnDiff \/ ReplayStep \/ ToggleMute \/ Unmount

Next == Daemon \/ Extension \/ LinkLost

Spec == Init /\ [][Next]_vars

(* The daemon's deadline passes, the model answers in the end, frames arrive
   and both sides notice a lost connection. *)
Fairness ==
  /\ WF_vars(Timeout) /\ WF_vars(Finish) /\ WF_vars(ReaderEnds)
  /\ WF_vars(ReceiveCall) /\ WF_vars(ReceiveDone) /\ WF_vars(SocketClosed)

FairSpec == Spec /\ Fairness

-----------------------------------------------------------------------------
(* Properties. *)

TypeOK ==
  /\ q \in {0} \cup Questions
  /\ asking \in BOOLEAN /\ mounted \in BOOLEAN /\ muted \in BOOLEAN
  /\ turn \in {"idle", "offered", "plain"}
  /\ link \in {"up", "lost", "closed"}
  /\ call \in [Calls -> {"none", "pending", "ok", "failed", "timeout", "unavailable", "unsent"}]
  /\ down \in Seq(Frames)
  /\ up \in Seq([call : Calls, ok : BOOLEAN])
  /\ handlers \subseteq Calls /\ painted \subseteq Calls
  /\ recorded \subseteq Calls /\ applied \subseteq Calls
  /\ replay \in Seq(Calls) /\ steps \in Seq(Calls)
  /\ placed \in [Questions -> Seq(Calls)]

(* What the model is told is what happened on the page: ok for a call that was
   painted, failed for one that was not, across late and lost results. *)
AnswersAreTruthful ==
  \A c \in Calls : /\ call[c] = "ok" => c \in applied
                   /\ call[c] = "failed" => c \notin applied

(* What an answer shows live it shows after a reload: every call of its own
   that it placed is in the turn's record (presentation_steps_by_turn). *)
PlacedSurvivesReload ==
  \A a \in Questions : {c \in ToSet(placed[a]) : c[1] = a} \subseteq recorded

(* A question always comes to an end, whatever the page does with its calls:
   a panel that closed or a tab that sleeps answers none. *)
AskEnds == asking ~> ~asking

=============================================================================
