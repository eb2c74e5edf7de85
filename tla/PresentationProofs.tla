------------------------- MODULE PresentationProofs -------------------------
(* What Presentation keeps for any number of questions and calls, whatever is
   lost, late, muted, closed or replayed. *)
EXTENDS Presentation, SequenceTheorems, TLAPS

-----------------------------------------------------------------------------
(* The inductive invariant.  A call is answered on the page once: while its
   frame or its handler waits, it has no effect and no result, and a result on
   its way says what the effect was. *)

Sent(c) == call[c] \notin {"none", "unsent"}

Undecided(c) ==
  /\ c \notin applied
  /\ call[c] \notin {"ok", "failed"}
  /\ \A r \in ToSet(up) : r.call # c

Once(s) == \A i, j \in 1..Len(s) : s[i] = s[j] => i = j

FramesWaitOnce ==
  /\ Once(down)
  /\ \A c \in handlers : c \notin ToSet(down)
  /\ \A c \in (ToSet(down) \cap Calls) \cup handlers : Sent(c) /\ Undecided(c)

ResultsAreTrue == \A r \in ToSet(up) : Sent(r.call) /\ (r.ok <=> r.call \in applied)

EffectsWereSent == ToSet(steps) \subseteq applied /\ \A c \in applied : Sent(c)

(* Once `done` is on its way the row has every call of the answer. *)
DoneFollowsRow ==
  \A a \in Questions : DoneFrame(a) \in ToSet(down) =>
    /\ a = q /\ turn = "idle"
    /\ \A c \in Calls : c[1] = q /\ Sent(c) => c \in recorded

Types == TypeOK /\ (Running => q \in Questions)

Inv ==
  /\ Types
  /\ FramesWaitOnce /\ ResultsAreTrue /\ EffectsWereSent /\ DoneFollowsRow
  /\ AnswersAreTruthful /\ PlacedSurvivesReload

-----------------------------------------------------------------------------
(* Sequences as the sets of their elements. *)

LEMMA SetOf ==
  ASSUME NEW S, NEW s \in Seq(S)
  PROVE  /\ \A x : x \in ToSet(s) <=> \E i \in 1..Len(s) : x = s[i]
         /\ ToSet(s) \subseteq S
<1>1. DOMAIN s = 1..Len(s)
  BY LenProperties
<1> QED BY <1>1, ElementOfSeq DEF ToSet

LEMMA SetOfAppend ==
  ASSUME NEW S, NEW s \in Seq(S), NEW e \in S
  PROVE  /\ Append(s, e) \in Seq(S) /\ Append(s, e) # <<>>
         /\ ToSet(Append(s, e)) = ToSet(s) \cup {e}
<1> DEFINE t == Append(s, e)
<1>1. Len(s) \in Nat
  BY LenProperties
<1>2. /\ t \in Seq(S) /\ t # <<>>
      /\ Len(t) = Len(s) + 1
      /\ \A i \in 1..Len(s) : t[i] = s[i]
      /\ t[Len(s) + 1] = e
  BY AppendProperties
<1> HIDE DEF t
<1>3. \A x : x \in ToSet(t) <=> \E i \in 1..Len(t) : x = t[i]
  BY <1>2, SetOf
<1>4. \A x : x \in ToSet(s) <=> \E i \in 1..Len(s) : x = s[i]
  BY SetOf
<1>5. ToSet(t) = ToSet(s) \cup {e}
  BY <1>1, <1>2, <1>3, <1>4
<1> QED BY <1>2, <1>5 DEF t

LEMMA SetOfTail ==
  ASSUME NEW S, NEW s \in Seq(S), s # <<>>
  PROVE  /\ Head(s) \in S /\ Tail(s) \in Seq(S)
         /\ ToSet(s) = {Head(s)} \cup ToSet(Tail(s))
<1> DEFINE t == Tail(s)
<1>1. Len(s) \in Nat \ {0}
  BY EmptySeq
<1>2. /\ Head(s) \in S /\ t \in Seq(S)
      /\ Len(t) = Len(s) - 1
      /\ \A i \in 1..Len(t) : t[i] = s[i + 1]
  BY HeadTailProperties
<1>3. Head(s) = s[1]
  OBVIOUS
<1> HIDE DEF t
<1>4. \A x : x \in ToSet(t) <=> \E i \in 1..Len(t) : x = t[i]
  BY <1>2, SetOf
<1>5. \A x : x \in ToSet(s) <=> \E i \in 1..Len(s) : x = s[i]
  BY SetOf
<1>6. \A i \in 1..Len(s) : i = 1 \/ \E j \in 1..Len(t) : i = j + 1
  <2> SUFFICES ASSUME NEW i \in 1..Len(s), i # 1 PROVE \E j \in 1..Len(t) : i = j + 1
    OBVIOUS
  <2>1. i - 1 \in 1..Len(t) /\ i = (i - 1) + 1
    BY <1>1, <1>2
  <2> QED BY <2>1
<1>7. \A i \in 1..Len(t) : i + 1 \in 1..Len(s)
  BY <1>1, <1>2
<1>8. ToSet(s) \subseteq {Head(s)} \cup ToSet(t)
  <2> SUFFICES ASSUME NEW i \in 1..Len(s), i # 1 PROVE s[i] \in ToSet(t)
    BY <1>3, <1>5
  <2>1. PICK j \in 1..Len(t) : i = j + 1
    BY <1>6
  <2> QED BY <1>2, <1>4, <2>1
<1>9. {Head(s)} \cup ToSet(t) \subseteq ToSet(s)
  BY <1>1, <1>2, <1>3, <1>4, <1>5, <1>7
<1> QED BY <1>2, <1>8, <1>9 DEF t

(* What taking the first element leaves of a sequence without repetition. *)
LEMMA OnceTail ==
  ASSUME NEW S, NEW s \in Seq(S), s # <<>>, Once(s)
  PROVE  /\ Once(Tail(s))
         /\ Head(s) \notin ToSet(Tail(s))
<1> DEFINE t == Tail(s)
<1>1. /\ Len(s) \in Nat \ {0} /\ t \in Seq(S) /\ Len(t) = Len(s) - 1
      /\ \A i \in 1..Len(t) : t[i] = s[i + 1]
      /\ Head(s) = s[1]
  BY HeadTailProperties, EmptySeq
<1> HIDE DEF t
<1>2. \A i \in 1..Len(t) : i + 1 \in 1..Len(s) /\ i + 1 # 1
  BY <1>1
<1>3. \A i \in 1..Len(t) : t[i] # Head(s)
  BY <1>1, <1>2 DEF Once
<1>4. Once(t)
  BY <1>1, <1>2 DEF Once
<1>5. \A x : x \in ToSet(t) => \E i \in 1..Len(t) : x = t[i]
  BY <1>1, SetOf
<1> QED BY <1>3, <1>4, <1>5 DEF t

LEMMA OnceAppend ==
  ASSUME NEW S, NEW s \in Seq(S), NEW e \in S, e \notin ToSet(s), Once(s)
  PROVE  Once(Append(s, e))
<1> DEFINE t == Append(s, e)
<1>1. /\ Len(s) \in Nat /\ Len(t) = Len(s) + 1
      /\ \A i \in 1..Len(s) : t[i] = s[i]
      /\ t[Len(s) + 1] = e
  BY AppendProperties, LenProperties
<1> HIDE DEF t
<1>2. \A i \in 1..Len(s) : s[i] # e
  BY SetOf
<1>3. Once(t)
  BY <1>1, <1>2 DEF Once
<1> QED BY <1>3 DEF t

-----------------------------------------------------------------------------
(* Types. *)

CallStatus == {"none", "pending", "ok", "failed", "timeout", "unavailable", "unsent"}

Results == [call : Calls, ok : BOOLEAN]

LEMMA CallParts ==
  /\ \A c \in Calls : c[1] \in Questions /\ c[2] \in Numbers(c[1]) /\ c = <<c[1], c[2]>>
  /\ \A a \in Questions : \A n \in Numbers(a) : <<a, n>> \in Calls
BY DEF Calls

LEMMA FrameKinds ==
  \A a \in Questions : DoneFrame(a) \in Frames /\ DoneFrame(a) \notin Calls
<1> SUFFICES ASSUME NEW a \in Questions PROVE DoneFrame(a) \in Frames /\ DoneFrame(a) \notin Calls
  OBVIOUS
<1>1. DoneFrame(a)[2] = 0
  BY DEF DoneFrame
<1>2. \A c \in Calls : c[2] # 0
  BY CallParts DEF Numbers
<1> QED BY <1>1, <1>2 DEF Frames

(* A handler's tail keeps the types of what it writes. *)
LEMMA ReplyType ==
  ASSUME Types, NEW c \in Calls, NEW ok \in BOOLEAN, Reply(c, ok)
  PROVE  /\ up' \in Seq(Results)
         /\ \/ up' = up
            \/ c[1] = q /\ Running /\ ToSet(up') = ToSet(up) \cup {[call |-> c, ok |-> ok]}
<1> DEFINE r == [call |-> c, ok |-> ok]
<1>1. r \in Results /\ up \in Seq(Results)
  BY DEF Results, Types, TypeOK
<1> HIDE DEF r
<1>2. Append(up, r) \in Seq(Results) /\ ToSet(Append(up, r)) = ToSet(up) \cup {r}
  BY <1>1, SetOfAppend
<1>3. up' = IF c[1] = q /\ Running /\ link = "up" THEN Append(up, r) ELSE up
  BY DEF Reply, r
<1> QED BY <1>1, <1>2, <1>3 DEF r

LEMMA ApplyType ==
  ASSUME Types, NEW c \in Calls, NEW ok \in BOOLEAN, Apply(c, ok)
  PROVE  /\ up' \in Seq(Results)
         /\ painted' \subseteq Calls /\ applied' \subseteq Calls /\ steps' \in Seq(Calls)
         /\ applied' = IF ok THEN applied \cup {c} ELSE applied
         /\ ToSet(steps') \subseteq ToSet(steps) \cup (IF ok THEN {c} ELSE {})
<1>1. Append(steps, c) \in Seq(Calls) /\ ToSet(Append(steps, c)) = ToSet(steps) \cup {c}
  BY SetOfAppend DEF Types, TypeOK
<1>2. up' \in Seq(Results)
  BY ReplyType DEF Apply
<1> QED BY <1>1, <1>2 DEF Apply, Types, TypeOK

LEMMA DaemonTypes ==
  ASSUME Types, Daemon
  PROVE  Types'
<1>1. q \in Questions
  BY DEF Daemon, Dispatch, Deliver, Timeout, Finish, ReaderEnds, Types, Running
<1>2. CASE Dispatch
  <2>1. PICK n \in Numbers(q) :
          \/ call' = [call EXCEPT ![<<q, n>>] = "pending"] /\ down' = Append(down, <<q, n>>)
          \/ call' = [call EXCEPT ![<<q, n>>] = "unsent"] /\ down' = down
    BY <1>2 DEF Dispatch
  <2>2. <<q, n>> \in Calls /\ <<q, n>> \in Frames
    BY <1>1, CallParts DEF Frames
  <2>3. down' \in Seq(Frames)
    <3>1. Append(down, <<q, n>>) \in Seq(Frames)
      BY <2>2, SetOfAppend DEF Types, TypeOK
    <3> QED BY <2>1, <3>1 DEF Types, TypeOK
  <2>4. call' \in [Calls -> CallStatus]
    BY <2>1, <2>2 DEF Types, TypeOK, CallStatus
  <2> QED BY <1>2, <2>3, <2>4 DEF Dispatch, panel, page, Types, TypeOK, CallStatus, Running
<1>3. CASE Deliver
  <2>1. up' \in Seq(Results)
    BY <1>3, SetOfTail DEF Deliver, Types, TypeOK, Results
  <2>2. call' \in [Calls -> CallStatus]
    BY <1>3 DEF Deliver, Types, TypeOK, CallStatus
  <2> QED BY <1>3, <2>1, <2>2
          DEF Deliver, panel, page, Types, TypeOK, CallStatus, Results, Running
<1>4. CASE Timeout
  <2>1. call' \in [Calls -> CallStatus]
    BY <1>4 DEF Timeout, Types, TypeOK, CallStatus
  <2> QED BY <1>4, <2>1 DEF Timeout, panel, page, Types, TypeOK, CallStatus, Running
<1>5. CASE Finish
  <2>1. down' \in Seq(Frames)
    BY <1>1, <1>5, FrameKinds, SetOfAppend DEF Finish, Types, TypeOK
  <2>2. recorded' \subseteq Calls
    BY <1>5 DEF Finish, Traced, Ended, Types, TypeOK
  <2> QED BY <1>5, <2>1, <2>2, EmptySeq
          DEF Finish, panel, page, Types, TypeOK, Running
<1>6. CASE ReaderEnds
  <2>1. recorded' \subseteq Calls
    BY <1>6 DEF ReaderEnds, Traced, Ended, Types, TypeOK
  <2>2. call' \in [Calls -> CallStatus]
    BY <1>6 DEF ReaderEnds, Types, TypeOK, CallStatus
  <2> QED BY <1>6, <2>1, <2>2, EmptySeq
          DEF ReaderEnds, panel, page, Types, TypeOK, CallStatus, Running
<1> QED BY <1>2, <1>3, <1>4, <1>5, <1>6 DEF Daemon

LEMMA ReceiveCallTypes == Types /\ ReceiveCall => Types'
<1> SUFFICES ASSUME Types, ReceiveCall PROVE Types'
  OBVIOUS
<1> DEFINE c == Head(down)
<1>1. c \in Calls /\ down' \in Seq(Frames)
  BY SetOfTail DEF ReceiveCall, Types, TypeOK
<1>2. /\ up' \in Seq(Results) /\ painted' \subseteq Calls /\ applied' \subseteq Calls
      /\ steps' \in Seq(Calls) /\ handlers' \subseteq Calls /\ replay' \in Seq(Calls)
  <2>1. CASE UNCHANGED <<up, page, steps>>
    BY <2>1 DEF page, Types, TypeOK, Results
  <2>2. CASE Reply(c, FALSE) /\ UNCHANGED <<page, steps>>
    BY <1>1, <2>2, ReplyType DEF page, Types, TypeOK
  <2>3. CASE (\E ok \in BOOLEAN : Apply(c, ok)) /\ UNCHANGED <<handlers, replay>>
    BY <1>1, <2>3, ApplyType DEF Types, TypeOK
  <2>4. CASE handlers' = handlers \cup {c} /\ UNCHANGED <<up, painted, applied, steps, replay>>
    BY <1>1, <2>4 DEF Types, TypeOK, Results
  <2> QED BY <2>1, <2>2, <2>3, <2>4 DEF ReceiveCall
<1> QED BY <1>1, <1>2 DEF ReceiveCall, Types, TypeOK, Results, Running

LEMMA ExtensionTypes ==
  ASSUME Types, Extension
  PROVE  Types'
<1>1. CASE Ask
  BY <1>1, EmptySeq DEF Ask, Types, TypeOK, Running
<1>2. CASE ReceiveCall
  BY <1>2, ReceiveCallTypes
<1>3. CASE Resume
  <2>1. PICK c \in handlers : handlers' = handlers \ {c} /\ \E ok \in BOOLEAN : Apply(c, ok)
    BY <1>3 DEF Resume
  <2>2. c \in Calls
    BY DEF Types, TypeOK
  <2>3. /\ up' \in Seq(Results) /\ painted' \subseteq Calls /\ applied' \subseteq Calls
        /\ steps' \in Seq(Calls)
    BY <2>1, <2>2, ApplyType
  <2> QED BY <1>3, <2>1, <2>3 DEF Resume, Types, TypeOK, Results, Running
<1>4. CASE ReceiveDone
  <2>1. placed' \in [Questions -> Seq(Calls)]
    BY <1>4 DEF ReceiveDone, Types, TypeOK
  <2> QED BY <1>4, <2>1, EmptySeq DEF ReceiveDone, page, Types, TypeOK, Running
<1>5. CASE SocketClosed
  BY <1>5, EmptySeq DEF SocketClosed, page, Types, TypeOK, Running
<1>6. CASE ShowOnDiff
  BY <1>6 DEF ShowOnDiff, panel, Types, TypeOK, Running
<1>7. CASE ReplayStep
  <2>1. Head(replay) \in Calls /\ replay' \in Seq(Calls)
    BY <1>7, SetOfTail DEF ReplayStep, Types, TypeOK
  <2>2. painted' \subseteq Calls
    BY <1>7, <2>1 DEF ReplayStep, Types, TypeOK
  <2> QED BY <1>7, <2>1, <2>2 DEF ReplayStep, panel, Types, TypeOK, Running
<1>8. CASE ToggleMute
  BY <1>8 DEF ToggleMute, page, Types, TypeOK, Running
<1>9. CASE Unmount
  BY <1>9 DEF Unmount, Types, TypeOK, Running
<1> QED
  BY <1>1, <1>2, <1>3, <1>4, <1>5, <1>6, <1>7, <1>8, <1>9 DEF Extension

LEMMA OtherTypes ==
  ASSUME Types, LinkLost \/ UNCHANGED vars
  PROVE  Types'
BY DEF LinkLost, vars, panel, page, Types, TypeOK, Running

LEMMA InitTypes == Init => Types
<1> SUFFICES ASSUME Init PROVE Types
  OBVIOUS
<1>1. /\ down \in Seq(Frames) /\ up \in Seq(Results) /\ replay \in Seq(Calls)
      /\ steps \in Seq(Calls) /\ placed \in [Questions -> Seq(Calls)]
  BY EmptySeq DEF Init
<1> QED BY <1>1 DEF Init, Types, TypeOK, Results, Running

(* Every variable of the panel, the page and the daemon's turn keeps its type. *)
THEOREM TypeCorrect == Spec => []TypeOK
<1>1. Types /\ [Next]_vars => Types'
  BY DaemonTypes, ExtensionTypes, OtherTypes DEF Next
<1>2. Types => TypeOK
  BY DEF Types
<1> QED BY InitTypes, <1>1, <1>2, PTL DEF Spec

-----------------------------------------------------------------------------
(* Frames, handlers and results. *)

Page == FramesWaitOnce /\ ResultsAreTrue /\ EffectsWereSent /\ AnswersAreTruthful

LEMMA TypedSets ==
  ASSUME Types
  PROVE  /\ ToSet(down) \subseteq Frames /\ ToSet(up) \subseteq Results
         /\ ToSet(steps) \subseteq Calls /\ handlers \subseteq Calls /\ applied \subseteq Calls
BY SetOf DEF Types, TypeOK, Results

LEMMA EmptySet == ToSet(<<>>) = {} /\ Once(<<>>)
BY DEF ToSet, Once

(* Steps that lose frames, handlers, results or steps and give pending calls up. *)
LEMMA PageFrame ==
  ASSUME Types, Page, call' \in [Calls -> CallStatus],
         ToSet(up') \subseteq ToSet(up), handlers' \subseteq handlers,
         ToSet(down') \subseteq ToSet(down), Once(down'),
         applied' = applied, ToSet(steps') \subseteq ToSet(steps),
         \A c \in Calls : \/ call'[c] = call[c]
                          \/ call[c] = "pending" /\ call'[c] \in {"timeout", "unavailable"}
  PROVE  Page'
<1>1. \A c \in Calls : /\ Sent(c) => Sent(c)'
                       /\ Undecided(c) => Undecided(c)'
                       /\ call'[c] \in {"ok", "failed"} => call'[c] = call[c]
  BY DEF Sent, Undecided
<1>2. FramesWaitOnce'
  BY <1>1, TypedSets DEF Page, FramesWaitOnce
<1>3. ResultsAreTrue'
  BY <1>1, TypedSets DEF Page, ResultsAreTrue, Results
<1>4. EffectsWereSent' /\ AnswersAreTruthful'
  BY <1>1, TypedSets DEF Page, EffectsWereSent, AnswersAreTruthful
<1> QED BY <1>2, <1>3, <1>4 DEF Page

(* A call that waited is decided: refused, failed or applied. *)
LEMMA Settle ==
  ASSUME Types, Page, NEW c \in Calls, NEW ok \in BOOLEAN, Sent(c), Undecided(c),
         c \notin ToSet(down'), c \notin handlers',
         ToSet(down') \subseteq ToSet(down), Once(down'), handlers' \subseteq handlers,
         ToSet(up') \subseteq ToSet(up) \cup {[call |-> c, ok |-> ok]},
         applied' = IF ok THEN applied \cup {c} ELSE applied,
         ToSet(steps') \subseteq ToSet(steps) \cup (IF ok THEN {c} ELSE {}),
         call' = call
  PROVE  Page'
<1> DEFINE new == [call |-> c, ok |-> ok]
<1>1. new.call = c /\ new.ok = ok
  OBVIOUS
<1>2. \A d \in Calls : Sent(d)' <=> Sent(d)
  BY DEF Sent
<1> HIDE DEF new
<1>3. \A d \in Calls : d # c /\ Undecided(d) => Undecided(d)'
  BY <1>1 DEF Undecided, new
<1>4. FramesWaitOnce'
  BY <1>2, <1>3, TypedSets DEF Page, FramesWaitOnce
<1>5. ResultsAreTrue'
  <2> SUFFICES ASSUME NEW r \in ToSet(up') PROVE Sent(r.call)' /\ (r.ok <=> r.call \in applied')
    BY DEF ResultsAreTrue
  <2>1. CASE r = new
    BY <1>1, <1>2, <2>1 DEF Undecided
  <2>2. CASE r \in ToSet(up)
    <3>1. r.call \in Calls /\ r.call # c
      BY <2>2, TypedSets DEF Undecided, Results
    <3> QED BY <1>2, <2>2, <3>1 DEF Page, ResultsAreTrue
  <2> QED BY <2>1, <2>2 DEF new
<1>6. EffectsWereSent'
  BY <1>2, TypedSets DEF Page, EffectsWereSent
<1>7. AnswersAreTruthful'
  BY DEF Page, AnswersAreTruthful, Undecided
<1> QED BY <1>4, <1>5, <1>6, <1>7 DEF Page

LEMMA DispatchPage ==
  ASSUME Types, Types', Page, Dispatch
  PROVE  Page'
<1>1. PICK n \in Numbers(q) :
        /\ call[<<q, n>>] = "none"
        /\ \/ call' = [call EXCEPT ![<<q, n>>] = "pending"] /\ down' = Append(down, <<q, n>>)
           \/ call' = [call EXCEPT ![<<q, n>>] = "unsent"] /\ down' = down
  BY DEF Dispatch
<1>2. PICK c \in Calls : c = <<q, n>> /\ c \in Frames
  BY CallParts DEF Dispatch, Types, Running, Frames
<1>3. UNCHANGED <<up, handlers, applied, steps>>
  BY DEF Dispatch, page, panel
<1>4. c \notin applied /\ c \notin handlers /\ c \notin ToSet(down) /\ \A r \in ToSet(up) : r.call # c
  <2>1. ~Sent(c)
    BY <1>1, <1>2 DEF Sent
  <2> QED BY <1>2, <2>1 DEF Page, FramesWaitOnce, EffectsWereSent, ResultsAreTrue
<1>5. \A d \in Calls : d # c => call'[d] = call[d]
  BY <1>1, <1>2 DEF Types, TypeOK
<1>6. \A d \in Calls : d # c => (Sent(d)' <=> Sent(d)) /\ (Undecided(d)' <=> Undecided(d))
  BY <1>3, <1>5 DEF Sent, Undecided
<1>7. call'[c] \in {"pending", "unsent"}
  BY <1>1, <1>2 DEF Types, TypeOK
<1>8. FramesWaitOnce'
  <2>1. CASE down' = Append(down, c) /\ call'[c] = "pending"
    <3>1. Once(down') /\ ToSet(down') = ToSet(down) \cup {c}
      <4>1. down \in Seq(Frames) /\ Once(down)
        BY DEF Page, FramesWaitOnce, Types, TypeOK
      <4>2. Once(Append(down, c)) /\ ToSet(Append(down, c)) = ToSet(down) \cup {c}
        BY <1>2, <1>4, <4>1, OnceAppend, SetOfAppend
      <4> QED BY <2>1, <4>2
    <3>2. Sent(c)' /\ Undecided(c)'
      BY <1>3, <1>4, <2>1 DEF Sent, Undecided
    <3> QED BY <1>3, <1>4, <1>6, <3>1, <3>2, TypedSets DEF Page, FramesWaitOnce
  <2>2. CASE down' = down
    BY <1>3, <1>4, <1>6, <2>2, TypedSets DEF Page, FramesWaitOnce
  <2> QED BY <1>1, <1>2, <2>1, <2>2 DEF Types, TypeOK
<1>9. ResultsAreTrue'
  BY <1>3, <1>4, <1>6, TypedSets DEF Page, ResultsAreTrue, Results
<1>10. EffectsWereSent' /\ AnswersAreTruthful'
  BY <1>3, <1>4, <1>5, <1>6, <1>7, TypedSets DEF Page, EffectsWereSent, AnswersAreTruthful
<1> QED BY <1>8, <1>9, <1>10 DEF Page

(* The model is told what the result says, and the result is true. *)
LEMMA DeliverPage ==
  ASSUME Types, Types', Page, Deliver
  PROVE  Page'
<1> DEFINE r == Head(up)
<1>1. /\ r \in Results /\ ToSet(up) = {r} \cup ToSet(up')
      /\ UNCHANGED <<down, handlers, applied, steps>>
  BY SetOfTail DEF Deliver, Types, TypeOK, Results, panel, page
<1>2. r.call \in Calls /\ r.ok \in BOOLEAN /\ Sent(r.call) /\ (r.ok <=> r.call \in applied)
  BY <1>1 DEF Results, Page, ResultsAreTrue
<1>3. /\ \A d \in Calls : d # r.call => call'[d] = call[d]
      /\ call'[r.call] = IF call[r.call] # "pending" THEN call[r.call]
                         ELSE IF r.ok THEN "ok" ELSE "failed"
  BY <1>2 DEF Deliver, Types, TypeOK
<1>4. ~Undecided(r.call)
  BY <1>1 DEF Undecided
<1> HIDE DEF r
<1>5. \A d \in Calls : Sent(d) => Sent(d)'
  BY <1>3 DEF Sent
<1>6. \A d \in Calls : Undecided(d) => Undecided(d)'
  BY <1>1, <1>3, <1>4 DEF Undecided
<1>7. FramesWaitOnce'
  BY <1>1, <1>5, <1>6, TypedSets DEF Page, FramesWaitOnce
<1>8. ResultsAreTrue'
  BY <1>1, <1>5, TypedSets DEF Page, ResultsAreTrue, Results
<1>9. EffectsWereSent'
  BY <1>1, <1>5, TypedSets DEF Page, EffectsWereSent
<1>10. AnswersAreTruthful'
  BY <1>1, <1>2, <1>3 DEF Page, AnswersAreTruthful
<1> QED BY <1>7, <1>8, <1>9, <1>10 DEF Page

LEMMA FinishPage ==
  ASSUME Types, Types', Page, DoneFollowsRow, Finish
  PROVE  Page'
<1>1. q \in Questions /\ UNCHANGED <<call, handlers, applied, steps>>
  BY DEF Finish, Types, Running, panel, page
<1>2. PICK f \in Frames : f = DoneFrame(q) /\ f \notin Calls
  BY <1>1, FrameKinds
<1>3. Once(down') /\ ToSet(down') = ToSet(down) \cup {f}
  <2>1. f \notin ToSet(down)
    BY <1>1, <1>2 DEF Finish, Running, DoneFollowsRow
  <2>2. down \in Seq(Frames) /\ Once(down) /\ down' = Append(down, f)
    BY <1>2 DEF Finish, Page, FramesWaitOnce, Types, TypeOK
  <2> QED BY <2>1, <2>2, OnceAppend, SetOfAppend
<1>4. ToSet(up') = {}
  BY EmptySet DEF Finish
<1>5. \A d \in Calls : (Sent(d)' <=> Sent(d)) /\ (Undecided(d) => Undecided(d)')
  BY <1>1, <1>4 DEF Sent, Undecided
<1>6. FramesWaitOnce'
  BY <1>1, <1>2, <1>3, <1>5, TypedSets DEF Page, FramesWaitOnce
<1> QED BY <1>1, <1>4, <1>5, <1>6, TypedSets
        DEF Page, ResultsAreTrue, EffectsWereSent, AnswersAreTruthful

LEMMA ReceiveCallPage ==
  ASSUME Types, Types', Page, ReceiveCall
  PROVE  Page'
<1> DEFINE c == Head(down)
<1>1. c \in Calls /\ c \in ToSet(down) /\ ToSet(down') \subseteq ToSet(down)
  BY SetOfTail DEF ReceiveCall, Types, TypeOK
<1>2. Once(down') /\ c \notin ToSet(down')
  BY OnceTail DEF ReceiveCall, Page, FramesWaitOnce, Types, TypeOK
<1>3. Sent(c) /\ Undecided(c) /\ c \notin handlers /\ call' = call
  BY <1>1 DEF ReceiveCall, Page, FramesWaitOnce
<1>4. CASE UNCHANGED <<up, page, steps>>
  BY <1>1, <1>2, <1>3, <1>4, PageFrame DEF page, Types, TypeOK, CallStatus
<1>5. CASE Reply(c, FALSE) /\ UNCHANGED <<page, steps>>
  <2>1. ToSet(up') \subseteq ToSet(up) \cup {[call |-> c, ok |-> FALSE]}
    BY <1>1, <1>5, ReplyType
  <2> HIDE DEF c
  <2> QED BY <1>1, <1>2, <1>3, <1>5, <2>1, Settle DEF page
<1>6. CASE (\E ok \in BOOLEAN : Apply(c, ok)) /\ UNCHANGED <<handlers, replay>>
  <2> HIDE DEF c
  <2>1. PICK ok \in BOOLEAN : Apply(c, ok)
    BY <1>6
  <2>2. /\ ToSet(up') \subseteq ToSet(up) \cup {[call |-> c, ok |-> ok]}
        /\ applied' = IF ok THEN applied \cup {c} ELSE applied
        /\ ToSet(steps') \subseteq ToSet(steps) \cup (IF ok THEN {c} ELSE {})
    <3>1. Reply(c, ok)
      BY <2>1 DEF Apply
    <3> QED BY <1>1, <2>1, <3>1, ApplyType, ReplyType
  <2> QED BY <1>1, <1>2, <1>3, <1>6, <2>2, Settle
<1>7. CASE handlers' = handlers \cup {c} /\ UNCHANGED <<up, painted, applied, steps, replay>>
  <2> HIDE DEF c
  <2>1. \A d \in Calls : (Sent(d)' <=> Sent(d)) /\ (Undecided(d)' <=> Undecided(d))
    BY <1>3, <1>7 DEF Sent, Undecided
  <2>2. FramesWaitOnce'
    BY <1>1, <1>2, <1>3, <1>7, <2>1, TypedSets DEF Page, FramesWaitOnce
  <2> QED BY <1>3, <1>7, <2>1, <2>2, TypedSets
          DEF Page, ResultsAreTrue, EffectsWereSent, AnswersAreTruthful, Results
<1> QED BY <1>4, <1>5, <1>6, <1>7 DEF ReceiveCall

LEMMA ResumePage ==
  ASSUME Types, Types', Page, Resume
  PROVE  Page'
<1>1. PICK c \in handlers : handlers' = handlers \ {c} /\ \E ok \in BOOLEAN : Apply(c, ok)
  BY DEF Resume
<1>2. PICK ok \in BOOLEAN : Apply(c, ok)
  BY <1>1
<1>3. c \in Calls /\ Sent(c) /\ Undecided(c) /\ c \notin ToSet(down)
  BY TypedSets DEF Page, FramesWaitOnce
<1>4. /\ ToSet(up') \subseteq ToSet(up) \cup {[call |-> c, ok |-> ok]}
      /\ applied' = IF ok THEN applied \cup {c} ELSE applied
      /\ ToSet(steps') \subseteq ToSet(steps) \cup (IF ok THEN {c} ELSE {})
  <2>1. Reply(c, ok)
    BY <1>2 DEF Apply
  <2> QED BY <1>2, <1>3, <2>1, ApplyType, ReplyType
<1>5. UNCHANGED <<down, call>> /\ Once(down)
  BY DEF Resume, Page, FramesWaitOnce
<1> QED BY <1>1, <1>3, <1>4, <1>5, Settle

LEMMA StepPage ==
  ASSUME Types, Types', Page, DoneFollowsRow, [Next]_vars
  PROVE  Page'
<1> USE EmptySet
<1>1. Once(down) /\ call' \in [Calls -> CallStatus]
  BY DEF Page, FramesWaitOnce, Types, TypeOK, CallStatus
<1>2. CASE Timeout \/ ReaderEnds
  <2>1. \A c \in Calls : \/ call'[c] = call[c]
                         \/ call[c] = "pending" /\ call'[c] \in {"timeout", "unavailable"}
    BY <1>2 DEF Timeout, ReaderEnds, Types, TypeOK
  <2> QED BY <1>1, <1>2, <2>1, PageFrame DEF Timeout, ReaderEnds, panel, page
<1>3. CASE \/ Ask \/ ReceiveDone \/ SocketClosed \/ ShowOnDiff \/ ReplayStep
           \/ ToggleMute \/ Unmount \/ LinkLost \/ UNCHANGED vars
  <2>1. /\ UNCHANGED <<call, handlers, applied>>
        /\ down' \in {down, <<>>} /\ up' \in {up, <<>>} /\ steps' \in {steps, <<>>}
    BY <1>3 DEF Ask, ReceiveDone, SocketClosed, ShowOnDiff, ReplayStep,
           ToggleMute, Unmount, LinkLost, vars, panel, page
  <2> QED BY <1>1, <2>1, PageFrame
<1> QED
  BY <1>2, <1>3, DispatchPage, DeliverPage, FinishPage, ReceiveCallPage, ResumePage
     DEF Next, Daemon, Extension

-----------------------------------------------------------------------------
(* The record of an answer. *)

Record == DoneFollowsRow /\ PlacedSurvivesReload

NoDoneFrame == \A a \in Questions : DoneFrame(a) \notin ToSet(down)

(* Steps that send no call once `done` is on its way. *)
LEMMA RecordFrame ==
  ASSUME Record, recorded \subseteq recorded', placed' = placed,
         \/ NoDoneFrame'
         \/ /\ ToSet(down') \subseteq ToSet(down) /\ q' = q
            /\ turn = "idle" => turn' = "idle"
            /\ \A c \in Calls : Sent(c)' => Sent(c)
  PROVE  Record'
<1>1. PlacedSurvivesReload'
  BY DEF Record, PlacedSurvivesReload
<1>2. DoneFollowsRow'
  <2>1. CASE NoDoneFrame'
    BY <2>1 DEF NoDoneFrame, DoneFollowsRow, DoneFrame
  <2>2. CASE /\ ToSet(down') \subseteq ToSet(down) /\ q' = q
             /\ turn = "idle" => turn' = "idle"
             /\ \A c \in Calls : Sent(c)' => Sent(c)
    BY <2>2 DEF Record, DoneFollowsRow, DoneFrame
  <2> QED BY <2>1, <2>2
<1> QED BY <1>1, <1>2 DEF Record

LEMMA RunningHasNoDone == Record /\ Running => NoDoneFrame
BY DEF Record, DoneFollowsRow, Running, NoDoneFrame

LEMMA FinishRecord ==
  ASSUME Types, Record, Finish
  PROVE  Record'
<1>1. q \in Questions /\ UNCHANGED <<q, call, placed>> /\ turn' = "idle" /\ recorded \subseteq recorded'
  BY DEF Finish, Types, Running, panel
<1>2. ASSUME NEW c \in Calls, c[1] = q, Sent(c)
      PROVE  c \in recorded'
  <2>1. c[2] \in Numbers(q) /\ c = <<q, c[2]>>
    BY <1>2, CallParts
  <2>2. call[c] # "pending" /\ c[2] <= CallsOf[q]
    BY <2>1 DEF Finish, Numbers
  <2>3. c \in Traced(CallsOf[q])
    BY <1>2, <2>2 DEF Traced, Ended, Sent
  <2> QED BY <2>3 DEF Finish
<1>3. ToSet(down') = ToSet(down) \cup {DoneFrame(q)}
  BY <1>1, FrameKinds, SetOfAppend DEF Finish, Types, TypeOK
<1>4. NoDoneFrame
  BY RunningHasNoDone DEF Finish
<1>5. \A a \in Questions : DoneFrame(a)' \in ToSet(down') => a = q
  BY <1>3, <1>4 DEF NoDoneFrame, DoneFrame
<1>6. \A c \in Calls : Sent(c)' <=> Sent(c)
  BY <1>1 DEF Sent
<1>7. DoneFollowsRow'
  BY <1>1, <1>2, <1>5, <1>6 DEF DoneFollowsRow
<1>8. PlacedSurvivesReload'
  BY <1>1 DEF Record, PlacedSurvivesReload
<1> QED BY <1>7, <1>8 DEF Record

(* The steps an answer keeps have effects, and what has an effect was sent. *)
LEMMA ReceiveDoneRecord ==
  ASSUME Types, Page, Record, ReceiveDone
  PROVE  Record'
<1>1. q \in Questions /\ DoneFrame(q) \in ToSet(down)
  <2>1. Head(down) \in ToSet(down) /\ Head(down) \in Frames
    BY SetOfTail DEF ReceiveDone, Types, TypeOK
  <2>2. \A a \in Questions : DoneFrame(0) # DoneFrame(a)
    BY PresentationAssumption DEF DoneFrame, Questions
  <2>3. DoneFrame(0) \notin Calls
    BY CallParts DEF DoneFrame, Questions
  <2> QED BY <2>1, <2>2, <2>3 DEF ReceiveDone, Types, TypeOK, Frames
<1>2. \A c \in ToSet(steps) : c[1] = q => c \in recorded
  BY <1>1, TypedSets DEF Record, DoneFollowsRow, Page, EffectsWereSent
<1>3. UNCHANGED recorded /\ \A a \in Questions : placed'[a] = IF a = q THEN steps ELSE placed[a]
  BY DEF ReceiveDone, Types, TypeOK
<1>4. PlacedSurvivesReload'
  BY <1>2, <1>3 DEF Record, PlacedSurvivesReload
<1>5. DoneFollowsRow'
  BY EmptySet DEF ReceiveDone, DoneFollowsRow
<1> QED BY <1>4, <1>5 DEF Record

LEMMA StepRecord ==
  ASSUME Types, Page, Record, [Next]_vars
  PROVE  Record'
<1>1. CASE Dispatch
  <2>1. PICK n \in Numbers(q) : down' \in {down, Append(down, <<q, n>>)}
    BY <1>1 DEF Dispatch
  <2>2. <<q, n>> \in Calls /\ <<q, n>> \in Frames
    BY <1>1, CallParts DEF Dispatch, Types, Running, Frames
  <2>3. ToSet(Append(down, <<q, n>>)) = ToSet(down) \cup {<<q, n>>}
    BY <2>2, SetOfAppend DEF Types, TypeOK
  <2>4. NoDoneFrame
    BY <1>1, RunningHasNoDone DEF Dispatch, Running
  <2>5. \A a \in Questions : DoneFrame(a)' # <<q, n>> /\ DoneFrame(a)' = DoneFrame(a)
    BY <2>2, FrameKinds DEF DoneFrame
  <2>6. NoDoneFrame'
    BY <2>1, <2>3, <2>4, <2>5 DEF NoDoneFrame
  <2> QED BY <1>1, <2>6, RecordFrame DEF Dispatch, panel
<1>2. CASE Deliver \/ Timeout \/ ReaderEnds
  <2>1. /\ UNCHANGED <<q, down, placed>> /\ recorded \subseteq recorded' /\ turn # "idle"
    BY <1>2 DEF Deliver, Timeout, ReaderEnds, panel, Running
  <2>2. NoDoneFrame'
    BY <2>1, RunningHasNoDone DEF Running, NoDoneFrame, DoneFrame
  <2> QED BY <2>1, <2>2, RecordFrame
<1>3. CASE Finish
  BY <1>3, FinishRecord
<1>4. CASE ReceiveDone
  BY <1>4, ReceiveDoneRecord
<1>5. CASE Ask
  BY <1>5, EmptySet, RecordFrame DEF Ask, NoDoneFrame
<1>6. CASE ReceiveCall
  <2>1. ToSet(down') \subseteq ToSet(down)
    BY <1>6, SetOfTail DEF ReceiveCall, Types, TypeOK
  <2> QED BY <1>6, <2>1, RecordFrame DEF ReceiveCall, Sent
<1>7. CASE \/ Resume \/ SocketClosed \/ ShowOnDiff \/ ReplayStep
           \/ ToggleMute \/ Unmount \/ LinkLost \/ UNCHANGED vars
  <2>1. UNCHANGED <<q, placed, recorded, turn, call>> /\ down' \in {down, <<>>}
    BY <1>7 DEF Resume, SocketClosed, ShowOnDiff, ReplayStep, ToggleMute, Unmount,
           LinkLost, vars, panel, page
  <2> QED BY <2>1, EmptySet, RecordFrame DEF Sent
<1> QED BY <1>1, <1>2, <1>3, <1>4, <1>5, <1>6, <1>7 DEF Next, Daemon, Extension

LEMMA InitInv == Init => Inv
<1> SUFFICES ASSUME Init PROVE Inv
  OBVIOUS
<1>1. ToSet(down) = {} /\ ToSet(up) = {} /\ ToSet(steps) = {} /\ Once(down)
  BY EmptySet DEF Init
<1>2. PlacedSurvivesReload
  BY EmptySet DEF Init, PlacedSurvivesReload
<1> QED BY <1>1, <1>2, InitTypes
        DEF Init, Inv, FramesWaitOnce, ResultsAreTrue, EffectsWereSent, DoneFollowsRow,
            AnswersAreTruthful

LEMMA Invariance == Spec => []Inv
<1>1. Inv /\ [Next]_vars => Inv'
  <2> SUFFICES ASSUME Inv, [Next]_vars PROVE Inv'
    OBVIOUS
  <2>1. Types /\ Page /\ Record
    BY DEF Inv, Page, Record
  <2>2. Types'
    BY <2>1, DaemonTypes, ExtensionTypes, OtherTypes DEF Next
  <2>3. Page'
    BY <2>1, <2>2, StepPage DEF Record
  <2>4. Record'
    BY <2>1, StepRecord
  <2> QED BY <2>2, <2>3, <2>4 DEF Inv, Page, Record
<1> QED BY InitInv, <1>1, PTL DEF Spec

(* For any number of questions and calls, deadlines in any order, results that
   are late or lost, a muted or closed panel: the model hears ok only of a call
   that had its effect, and failed only of one that never will. *)
THEOREM Truthful == Spec => []AnswersAreTruthful
<1>1. Inv => AnswersAreTruthful
  BY DEF Inv
<1> QED BY Invariance, <1>1, PTL

(* Every call that an answer placed and kept is in the turn's row, so a reload
   shows it again. *)
THEOREM PlacedIsRecorded == Spec => []PlacedSurvivesReload
<1>1. Inv => PlacedSurvivesReload
  BY DEF Inv
<1> QED BY Invariance, <1>1, PTL
=============================================================================
