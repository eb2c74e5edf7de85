----------------------------- MODULE CodeClient -----------------------------
(***************************************************************************)
(* The review daemon's client of the code daemon (code_daemon/client.rs,    *)
(* budget.rs, transport.rs): callers queue requests on a bounded channel,   *)
(* one actor writes them to the child, matches answers by id, and restarts  *)
(* the child within a budget when the connection is lost.                   *)
(*                                                                         *)
(* Time is left out: a timeout or the end of a backoff may come at any      *)
(* moment, and a restart leaves the budget's window at any moment.          *)
(***************************************************************************)
EXTENDS Integers, Sequences, FiniteSets, SequencesExt

CONSTANTS
  Calls,            \* calls the review daemon makes
  Capacity,         \* of the mpsc channel (64)
  MaxRestarts,      \* max_restarts_per_hour, at least 1
  RestartOnFailure, \* restart_on_failure
  MaxFaults         \* bound: deaths of the child and failed restarts

ASSUME ClientAssumption ==
  /\ Capacity \in Nat \ {0} /\ MaxRestarts \in Nat \ {0} /\ MaxFaults \in Nat
  /\ RestartOnFailure \in BOOLEAN

VARIABLES
  caller,     \* each call: idle, sending, waiting, ok, unavailable, timeout
  answers,    \* <<c, d>>: caller c received the answer of call d
  channel,    \* PendingCall requests the actor has not taken
  actor,      \* serving, down (no connection), opening, stopped
  nextId,     \* next_id
  pending,    \* the actor's map from ids to callers, as [id, call] records
  recent,     \* restarts inside the budget's window
  connected,  \* HealthSnapshot.connected
  alive,      \* the child runs and its pipes are open
  requests,   \* [id, call] records the child has to serve
  pipe,       \* answer lines not yet read by the actor
  half,       \* the first line of the pipe is partly in a read's buffer
  executed,   \* how often the child executed each call
  faults

vars == <<caller, answers, channel, actor, nextId, pending, recent, connected,
          alive, requests, pipe, half, executed, faults>>

Entries == [id : Nat, call : Calls]
Lines == Entries \cup {[garbage |-> TRUE]}

Init ==
  /\ caller = [c \in Calls |-> "idle"]
  /\ answers = {}
  /\ channel = <<>>
  /\ actor = "serving"
  /\ nextId = 100
  /\ pending = {}
  /\ recent = 0
  /\ connected = TRUE
  /\ alive = TRUE
  /\ requests = {}
  /\ pipe = <<>>
  /\ half = FALSE
  /\ executed = [c \in Calls |-> 0]
  /\ faults = 0

child == <<alive, requests, pipe, half, executed>>

-----------------------------------------------------------------------------
(* Callers: SpawnedClient::send. *)

(* The channel refuses a request once the actor has gone. *)
Submit(c) ==
  /\ caller[c] = "idle"
  /\ caller' = [caller EXCEPT ![c] = IF actor = "stopped" THEN "unavailable" ELSE "sending"]
  /\ UNCHANGED <<answers, channel, actor, nextId, pending, recent, connected, child, faults>>

(* A full channel makes the sender wait, and no deadline runs while it does. *)
Enqueue(c) ==
  /\ caller[c] = "sending" /\ Len(channel) < Capacity
  /\ channel' = Append(channel, c)
  /\ caller' = [caller EXCEPT ![c] = "waiting"]
  /\ UNCHANGED <<answers, actor, nextId, pending, recent, connected, child, faults>>

(* Mutant of Timeout: a caller whose deadline passed asks again. *)
TimeoutRetries(c) ==
  /\ caller[c] = "waiting"
  /\ caller' = [caller EXCEPT ![c] = "sending"]
  /\ UNCHANGED <<answers, channel, actor, nextId, pending, recent, connected, child, faults>>

(* The deadline passes.  The request stays where it is: in the channel, in
   the actor's map or with the child. *)
Timeout(c) ==
  /\ caller[c] = "waiting"
  /\ caller' = [caller EXCEPT ![c] = "timeout"]
  /\ UNCHANGED <<answers, channel, actor, nextId, pending, recent, connected, child, faults>>

(* The callers of C that still wait learn that the code daemon is gone. *)
Unavailable(C) ==
  caller' = [c \in Calls |-> IF c \in C /\ caller[c] = "waiting" THEN "unavailable"
                                                                 ELSE caller[c]]

-----------------------------------------------------------------------------
(* The actor: Actor::run. *)

PendingCalls == {p.call : p \in pending}

(* The connection is dropped and the child killed; every pending reply is
   answered with CodeDaemonUnavailable.  The actor does nothing else meanwhile. *)
Disconnect(C) ==
  /\ actor' = "down"
  /\ connected' = FALSE
  /\ Unavailable(C)
  /\ pending' = {}
  /\ alive' = FALSE
  /\ requests' = {}
  /\ pipe' = <<>>
  /\ half' = FALSE

(* Taking a request cancels a read that was under way: what it had already
   buffered of the first line is lost, the rest of that line is no JSON. *)
PipeAfterCancel == IF half THEN <<[garbage |-> TRUE]>> \o Tail(pipe) ELSE pipe

(* Mutant of TakeRequest: every request gets the same id. *)
TakeRequestSameId ==
  /\ actor = "serving" /\ channel # <<>> /\ alive
  /\ channel' = Tail(channel)
  /\ pending' = pending \cup {[id |-> nextId, call |-> Head(channel)]}
  /\ requests' = requests \cup {[id |-> nextId, call |-> Head(channel)]}
  /\ pipe' = PipeAfterCancel /\ half' = FALSE
  /\ UNCHANGED <<caller, answers, actor, nextId, recent, connected, alive, executed, faults>>

(* The recv arm: give the request an id, write it, remember its caller. *)
TakeRequest ==
  /\ actor = "serving" /\ channel # <<>>
  /\ LET c == Head(channel) IN
       /\ channel' = Tail(channel)
       /\ nextId' = nextId + 1
       /\ \/ /\ pending' = pending \cup {[id |-> nextId', call |-> c]}
             /\ requests' = IF alive THEN requests \cup {[id |-> nextId', call |-> c]}
                                     ELSE requests
             /\ pipe' = PipeAfterCancel
             /\ half' = FALSE
             /\ UNCHANGED <<caller, actor, connected, alive>>
          \/ /\ ~alive
             /\ Disconnect(PendingCalls \cup {c})
  /\ UNCHANGED <<answers, recent, executed, faults>>

(* A read returns only the beginning of a long line. *)
ReadPart ==
  /\ actor = "serving" /\ pipe # <<>> /\ ~half
  /\ half' = TRUE
  /\ UNCHANGED <<caller, answers, channel, actor, nextId, pending, recent, connected,
                 alive, requests, pipe, executed, faults>>

(* The read arm: an answer goes to the caller its id names, if it waits. *)
ReadLine ==
  /\ actor = "serving" /\ pipe # <<>>
  /\ LET line == Head(pipe)
         matched == {p \in pending : line \in Entries /\ p.id = line.id}
         takers == {p.call : p \in {q \in matched : caller[q.call] = "waiting"}}
     IN  /\ pending' = pending \ matched
         /\ caller' = [c \in Calls |-> IF c \in takers THEN "ok" ELSE caller[c]]
         /\ answers' = answers \cup {<<c, line.call>> : c \in takers}
  /\ pipe' = Tail(pipe)
  /\ half' = FALSE
  /\ UNCHANGED <<channel, actor, nextId, recent, connected, alive, requests, executed, faults>>

(* The read arm at the end of the stream. *)
ReadEof ==
  /\ actor = "serving" /\ ~alive /\ pipe = <<>>
  /\ Disconnect(PendingCalls)
  /\ UNCHANGED <<answers, channel, nextId, recent, executed, faults>>

(* Mutant of GiveUp: the actor returns, its channel stays open and full. *)
GiveUpLeavesChannel ==
  /\ actor = "down"
  /\ RestartOnFailure => recent >= MaxRestarts
  /\ actor' = "stopped" /\ connected' = FALSE /\ pending' = {}
  /\ UNCHANGED <<caller, answers, channel, nextId, recent, child, faults>>

(* The top of the loop without a connection: give up, answer what is queued
   and close the channel.  A sender that already had its place in the channel
   (at most Capacity do) puts its request there after the drain: it is then
   waiting for a reply that only its deadline will end, ... *)
GiveUp ==
  /\ actor = "down"
  /\ RestartOnFailure => recent >= MaxRestarts
  /\ actor' = "stopped"
  /\ connected' = FALSE
  /\ channel' = <<>>
  /\ pending' = {}
  /\ \E late \in SUBSET {c \in Calls : caller[c] = "sending"} :
       /\ Cardinality(late) <= Capacity
       /\ caller' = [c \in Calls |->
                       CASE c \in late -> "waiting"
                         [] c \notin late /\ caller[c] \in {"sending", "waiting"} -> "unavailable"
                         [] OTHER -> caller[c]]
  /\ UNCHANGED <<answers, nextId, recent, child, faults>>

(* ... or count a restart, sleep for the backoff and open a new connection. *)
Restart ==
  /\ actor = "down" /\ RestartOnFailure /\ recent < MaxRestarts
  /\ recent' = recent + 1
  /\ actor' = "opening"
  /\ UNCHANGED <<caller, answers, channel, nextId, pending, connected, child, faults>>

(* open and handshake succeed ... *)
Opened ==
  /\ actor = "opening"
  /\ actor' = "serving"
  /\ connected' = TRUE
  /\ alive' = TRUE
  /\ UNCHANGED <<caller, answers, channel, nextId, pending, recent, requests, pipe, half,
                 executed, faults>>

(* ... or one of them fails and the loop starts over. *)
OpenFails ==
  /\ actor = "opening" /\ faults < MaxFaults
  /\ faults' = faults + 1
  /\ actor' = "down"
  /\ connected' = FALSE
  /\ UNCHANGED <<caller, answers, channel, nextId, pending, recent, child>>

(* RestartBudget::prune: a restart leaves the window. *)
Prune ==
  /\ recent > 0
  /\ recent' = recent - 1
  /\ UNCHANGED <<caller, answers, channel, actor, nextId, pending, connected, child, faults>>

-----------------------------------------------------------------------------
(* The child: libre-cr-code serves requests in any order, and may die. *)

Respond ==
  /\ \E r \in requests :
       /\ requests' = requests \ {r}
       /\ executed' = [executed EXCEPT ![r.call] = @ + 1]
       /\ pipe' = Append(pipe, r)
  /\ UNCHANGED <<caller, answers, channel, actor, nextId, pending, recent, connected,
                 alive, half, faults>>

(* Some requests may have been executed without their answer being written. *)
Die ==
  /\ alive /\ faults < MaxFaults
  /\ alive' = FALSE
  /\ faults' = faults + 1
  /\ requests' = {}
  /\ \E E \in SUBSET requests :
       executed' = [c \in Calls |-> executed[c] + Cardinality({r \in E : r.call = c})]
  /\ UNCHANGED <<caller, answers, channel, actor, nextId, pending, recent, connected,
                 pipe, half>>

-----------------------------------------------------------------------------
Caller(c) == Submit(c) \/ Enqueue(c) \/ Timeout(c)

Actor == TakeRequest \/ ReadPart \/ ReadLine \/ ReadEof
           \/ GiveUp \/ Restart \/ Opened \/ OpenFails

Next == Actor \/ Prune \/ Respond \/ Die \/ \E c \in Calls : Caller(c)

Spec == Init /\ [][Next]_vars

(* The actor task runs, a sender that finds room enqueues and deadlines pass.
   The child need neither answer a call nor the handshake, which has no
   deadline. *)
Fairness ==
  /\ WF_vars(TakeRequest) /\ WF_vars(ReadEof) /\ WF_vars(ReadLine)
  /\ WF_vars(GiveUp) /\ WF_vars(Restart)
  /\ \A c \in Calls : SF_vars(Enqueue(c)) /\ WF_vars(Timeout(c))

FairSpec == Spec /\ Fairness

-----------------------------------------------------------------------------
(* Properties. *)

TypeOK ==
  /\ caller \in [Calls -> {"idle", "sending", "waiting", "ok", "unavailable", "timeout"}]
  /\ answers \subseteq Calls \X Calls
  /\ channel \in Seq(Calls)
  /\ actor \in {"serving", "down", "opening", "stopped"}
  /\ nextId \in Nat
  /\ pending \subseteq Entries
  /\ recent \in 0..MaxRestarts
  /\ connected \in BOOLEAN /\ alive \in BOOLEAN /\ half \in BOOLEAN
  /\ requests \subseteq Entries
  /\ pipe \in Seq(Lines)
  /\ executed \in [Calls -> Nat]
  /\ faults \in Nat

(* Ids match answers to callers across timeouts and restarts: nobody gets the
   answer of another call, and nobody gets two. *)
OwnAnswer ==
  /\ \A p \in answers : p[1] = p[2]
  /\ \A c \in Calls : caller[c] = "ok" <=> <<c, c>> \in answers

(* While the actor runs it knows every waiting caller and will answer it or
   see it time out: no failure or restart forgets one. *)
WaitersAreKnown ==
  actor # "stopped" =>
    \A c \in Calls : caller[c] = "waiting" => c \in ToSet(channel) \cup PendingCalls

(* The replies the actor owes belong to the connection it has now: a lost
   connection, an attempt to reconnect or a stopped actor owes none. *)
NoReplyOutlivesConnection == actor # "serving" => pending = {} /\ ~connected

(* Callers, the channel and the table of pending replies agree through
   reordered answers, timeouts, lost connections and restarts. *)
CallsAreAccountedFor ==
  TypeOK /\ OwnAnswer /\ WaitersAreKnown /\ NoReplyOutlivesConnection

(* Every call ends (client.rs: "so callers don't hang"), unless a handshake
   never does: a caller that finds the channel full has no deadline. *)
HandshakesEnd == []<>(actor # "opening")

EveryCallEnds ==
  HandshakesEnd =>
    \A c \in Calls :
      caller[c] \in {"sending", "waiting"} ~> caller[c] \in {"ok", "unavailable", "timeout"}

(* The client gives its callers an at-most-once call. *)
Outcome ==
  [c \in Calls |-> CASE caller[c] = "ok" -> "ok"
                     [] caller[c] \in {"unavailable", "timeout"} -> "failed"
                     [] OTHER -> "none"]

Abstract == INSTANCE AtMostOnce WITH outcome <- Outcome

ImplementsAtMostOnce == Abstract!Spec

=============================================================================
