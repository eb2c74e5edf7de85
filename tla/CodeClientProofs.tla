-------------------------- MODULE CodeClientProofs --------------------------
(* The two ends of the pipe.  What CodeClient keeps for any number of calls, any
   capacity and budget, and any number of deaths of the child, and that it is an
   at-most-once call; what CodeServer answers on one connection, for any
   requests, permits and size of its channel; and what its read_file and grep
   make of any repository. *)
EXTENDS CodeClient, ReadAnswers, SequenceTheorems, FiniteSetTheorems,
        WellFoundedInduction, TLAPS

-----------------------------------------------------------------------------
(* The inductive invariant.  An answer finds its caller by the id alone, so
   what is in flight (a reply the actor owes, a request the child has, a line
   of the pipe) carries an id that belongs to one call and was given out. *)

Answered == ToSet(pipe) \cap Entries

InFlight == pending \cup requests \cup Answered

OneIdPerCall ==
  \A x, y \in InFlight : x.id = y.id <=> x.call = y.call

IdsAreGivenOut == \A x \in InFlight : x.id <= nextId

(* Nothing has been done for a call until the actor takes it. *)
Untouched(c) == executed[c] = 0 /\ \A x \in InFlight : x.call # c

QueuedOnce ==
  /\ \A i, j \in 1..Len(channel) : channel[i] = channel[j] => i = j
  /\ \A c \in ToSet(channel) : Untouched(c)
  /\ \A c \in Calls : caller[c] \in {"idle", "sending"} => c \notin ToSet(channel) /\ Untouched(c)

(* The child executes what it has once, and has executed what it answered. *)
ExecutedOnce ==
  /\ \A c \in Calls : executed[c] \in {0, 1}
  /\ \A r \in requests : executed[r.call] = 0
  /\ \A a \in Answered : executed[a.call] = 1

Flight == OneIdPerCall /\ IdsAreGivenOut /\ QueuedOnce /\ ExecutedOnce

Types == TypeOK /\ IsFiniteSet(requests) /\ (half => pipe # <<>>)

Inv == Types /\ OwnAnswer /\ WaitersAreKnown /\ NoReplyOutlivesConnection /\ Flight

-----------------------------------------------------------------------------
(* Sequences as the sets of their elements. *)

LEMMA SetOf ==
  ASSUME NEW S, NEW s \in Seq(S)
  PROVE  /\ \A x : x \in ToSet(s) <=> \E i \in 1..Len(s) : x = s[i]
         /\ ToSet(s) \subseteq S
<1>1. DOMAIN s = 1..Len(s)
  BY LenProperties
<1> QED BY <1>1, ElementOfSeq DEF ToSet

LEMMA SetOfAppend ==
  ASSUME NEW S, NEW s \in Seq(S), NEW e \in S
  PROVE  /\ Append(s, e) \in Seq(S) /\ Append(s, e) # <<>>
         /\ ToSet(Append(s, e)) = ToSet(s) \cup {e}
<1> DEFINE t == Append(s, e)
<1>1. Len(s) \in Nat
  BY LenProperties
<1>2. /\ t \in Seq(S) /\ t # <<>>
      /\ Len(t) = Len(s) + 1
      /\ \A i \in 1..Len(s) : t[i] = s[i]
      /\ t[Len(s) + 1] = e
  BY AppendProperties
<1> HIDE DEF t
<1>3. \A x : x \in ToSet(t) <=> \E i \in 1..Len(t) : x = t[i]
  BY <1>2, SetOf
<1>4. \A x : x \in ToSet(s) <=> \E i \in 1..Len(s) : x = s[i]
  BY SetOf
<1>5. ToSet(t) = ToSet(s) \cup {e}
  BY <1>1, <1>2, <1>3, <1>4
<1> QED BY <1>2, <1>5 DEF t

LEMMA SetOfTail ==
  ASSUME NEW S, NEW s \in Seq(S), s # <<>>
  PROVE  /\ Head(s) \in S /\ Tail(s) \in Seq(S)
         /\ ToSet(s) = {Head(s)} \cup ToSet(Tail(s))
<1> DEFINE t == Tail(s)
<1>1. Len(s) \in Nat \ {0}
  BY EmptySeq
<1>2. /\ Head(s) \in S /\ t \in Seq(S)
      /\ Len(t) = Len(s) - 1
      /\ \A i \in 1..Len(t) : t[i] = s[i + 1]
  BY HeadTailProperties
<1>3. Head(s) = s[1]
  OBVIOUS
<1> HIDE DEF t
<1>4. \A x : x \in ToSet(t) <=> \E i \in 1..Len(t) : x = t[i]
  BY <1>2, SetOf
<1>5. \A x : x \in ToSet(s) <=> \E i \in 1..Len(s) : x = s[i]
  BY SetOf
<1>6. \A i \in 1..Len(s) : i = 1 \/ \E j \in 1..Len(t) : i = j + 1
  <2> SUFFICES ASSUME NEW i \in 1..Len(s), i # 1 PROVE \E j \in 1..Len(t) : i = j + 1
    OBVIOUS
  <2>1. i - 1 \in 1..Len(t) /\ i = (i - 1) + 1
    BY <1>1, <1>2
  <2> QED BY <2>1
<1>7. \A i \in 1..Len(t) : i + 1 \in 1..Len(s)
  BY <1>1, <1>2
<1>8. ToSet(s) \subseteq {Head(s)} \cup ToSet(t)
  <2> SUFFICES ASSUME NEW i \in 1..Len(s), i # 1 PROVE s[i] \in ToSet(t)
    BY <1>3, <1>5
  <2>1. PICK j \in 1..Len(t) : i = j + 1
    BY <1>6
  <2> QED BY <1>2, <1>4, <2>1
<1>9. {Head(s)} \cup ToSet(t) \subseteq ToSet(s)
  BY <1>1, <1>2, <1>3, <1>4, <1>5, <1>7
<1> QED BY <1>2, <1>8, <1>9 DEF t

(* A line that a cancelled read has spoilt is no answer. *)
LEMMA Spoilt ==
  ASSUME TypeOK, half => pipe # <<>>, pipe' = PipeAfterCancel
  PROVE  pipe' \in Seq(Lines) /\ Answered' \subseteq Answered
<1>1. CASE ~half
  BY <1>1 DEF PipeAfterCancel, TypeOK, Answered
<1>2. CASE half
  <2> DEFINE g == [garbage |-> TRUE]
  <2>1. g \in Lines /\ <<g>> \in Seq(Lines)
    BY DEF Lines
  <2>2. g \notin Entries
    <3>1. DOMAIN g = {"garbage"}
      OBVIOUS
    <3>2. \A x \in Entries : DOMAIN x = {"id", "call"}
      BY DEF Entries
    <3> QED BY <3>1, <3>2
  <2> DEFINE t == Tail(pipe)
              u == <<g>> \o t
  <2>3. t \in Seq(Lines) /\ ToSet(t) \subseteq ToSet(pipe)
    BY <1>2, SetOfTail DEF TypeOK
  <2>4. pipe' = u
    BY <1>2 DEF PipeAfterCancel
  <2>5. Len(<<g>>) = 1 /\ <<g>>[1] = g
    OBVIOUS
  <2>6. /\ u \in Seq(Lines) /\ Len(u) = Len(<<g>>) + Len(t)
        /\ \A i \in 1..(Len(<<g>>) + Len(t)) :
             u[i] = IF i <= Len(<<g>>) THEN <<g>>[i] ELSE t[i - Len(<<g>>)]
    BY <2>1, <2>3, ConcatProperties
  <2>7. Len(t) \in Nat
    BY <2>3, LenProperties
  <2> HIDE DEF t, u, g
  <2>8. ToSet(u) \subseteq {g} \cup ToSet(t)
    <3> SUFFICES ASSUME NEW i \in 1..Len(u) PROVE u[i] = g \/ u[i] \in ToSet(t)
      BY <2>6, SetOf
    <3>1. CASE i > 1
      <4>1. i - 1 \in 1..Len(t) /\ u[i] = t[i - 1]
        BY <2>5, <2>6, <2>7, <3>1
      <4> QED BY <2>3, <4>1, SetOf
    <3>2. CASE i = 1
      BY <2>5, <2>6, <2>7, <3>2
    <3> QED BY <2>5, <2>6, <2>7, <3>1, <3>2
  <2> QED BY <2>2, <2>3, <2>4, <2>6, <2>8 DEF Answered
<1> QED BY <1>1, <1>2

-----------------------------------------------------------------------------
(* Types. *)

Status == {"idle", "sending", "waiting", "ok", "unavailable", "timeout"}

LEMMA DisconnectType ==
  ASSUME Types, NEW C, Disconnect(C)
  PROVE  /\ caller' \in [Calls -> Status]
         /\ actor' = "down" /\ connected' = FALSE /\ alive' = FALSE
         /\ pending' = {} /\ requests' = {} /\ pipe' = <<>> /\ half' = FALSE
BY DEF Disconnect, Unavailable, Types, TypeOK, Status

LEMMA CallerTypes ==
  ASSUME Types, NEW c \in Calls, Caller(c)
  PROVE  Types'
<1>1. CASE Submit(c)
  BY <1>1 DEF Submit, child, Types, TypeOK
<1>2. CASE Enqueue(c)
  <2>1. channel' \in Seq(Calls)
    BY <1>2, SetOfAppend DEF Enqueue, Types, TypeOK
  <2> QED BY <1>2, <2>1 DEF Enqueue, child, Types, TypeOK
<1>3. CASE Timeout(c)
  BY <1>3 DEF Timeout, child, Types, TypeOK
<1> QED BY <1>1, <1>2, <1>3 DEF Caller

LEMMA TakeRequestTypes == Types /\ TakeRequest => Types'
<1> SUFFICES ASSUME Types, TakeRequest PROVE Types'
  OBVIOUS
<1> DEFINE c == Head(channel)
           e == [id |-> nextId + 1, call |-> c]
<1>1. c \in Calls /\ channel' \in Seq(Calls)
  BY SetOfTail DEF TakeRequest, Types, TypeOK
<1>2. e \in Entries /\ nextId' = nextId + 1 /\ nextId' \in Nat
  BY <1>1 DEF TakeRequest, Types, TypeOK, Entries
<1>3. CASE Disconnect(PendingCalls \cup {c})
  <2> HIDE DEF c, e
  <2>1. UNCHANGED <<answers, recent, executed, faults>>
    BY DEF TakeRequest
  <2> QED BY <1>1, <1>2, <1>3, <2>1, DisconnectType, EmptySeq, FS_EmptySet
          DEF Types, TypeOK, Status
<1>4. CASE /\ pending' = pending \cup {e}
           /\ requests' = IF alive THEN requests \cup {e} ELSE requests
           /\ pipe' = PipeAfterCancel /\ half' = FALSE
           /\ UNCHANGED <<caller, actor, connected, alive>>
  <2>1. pipe' \in Seq(Lines)
    BY <1>4, Spoilt DEF Types
  <2>2. pending' \subseteq Entries /\ requests' \subseteq Entries /\ IsFiniteSet(requests')
    BY <1>2, <1>4, FS_AddElement DEF Types, TypeOK
  <2> QED BY <1>1, <1>2, <1>4, <2>1, <2>2 DEF TakeRequest, Types, TypeOK
<1> QED BY <1>2, <1>3, <1>4 DEF TakeRequest

LEMMA ActorTypes ==
  ASSUME Types, Actor
  PROVE  Types'
<1> USE ClientAssumption
<1>1. CASE TakeRequest
  BY <1>1, TakeRequestTypes
<1>2. CASE ReadPart
  BY <1>2 DEF ReadPart, Types, TypeOK
<1>3. CASE ReadLine
  <2>1. pipe' \in Seq(Lines)
    BY <1>3, SetOfTail DEF ReadLine, Types, TypeOK
  <2>2. answers' \subseteq Calls \X Calls
    <3> DEFINE line == Head(pipe)
               matched == {p \in pending : line \in Entries /\ p.id = line.id}
               takers == {p.call : p \in {r \in matched : caller[r.call] = "waiting"}}
    <3>1. answers' = answers \cup {<<d, line.call>> : d \in takers}
      BY <1>3 DEF ReadLine
    <3>2. \A d \in takers : d \in Calls /\ line.call \in Calls
      BY DEF Types, TypeOK, Entries
    <3> HIDE DEF line, takers
    <3> QED BY <3>1, <3>2 DEF Types, TypeOK
  <2>3. pending' \subseteq Entries /\ caller' \in [Calls -> Status]
    BY <1>3 DEF ReadLine, Types, TypeOK, Status
  <2> QED BY <1>3, <2>1, <2>2, <2>3 DEF ReadLine, Types, TypeOK, Status
<1>4. CASE ReadEof
  BY <1>4, DisconnectType, FS_EmptySet DEF ReadEof, Types, TypeOK, Status
<1>5. CASE GiveUp
  <2>1. caller' \in [Calls -> Status]
    BY <1>5 DEF GiveUp, Types, TypeOK, Status
  <2> QED BY <1>5, <2>1, EmptySeq DEF GiveUp, child, Types, TypeOK, Status
<1>6. CASE Restart
  BY <1>6 DEF Restart, child, Types, TypeOK
<1>7. CASE Opened
  BY <1>7 DEF Opened, Types, TypeOK
<1>8. CASE OpenFails
  <2>1. faults' \in Nat
    BY <1>8 DEF OpenFails, Types, TypeOK
  <2> QED BY <1>8, <2>1 DEF OpenFails, child, Types, TypeOK
<1> QED
  BY <1>1, <1>2, <1>3, <1>4, <1>5, <1>6, <1>7, <1>8 DEF Actor

LEMMA ChildTypes ==
  ASSUME Types, Respond \/ Die
  PROVE  Types'
<1>1. CASE Respond
  <2>1. PICK r \in requests : /\ requests' = requests \ {r}
                              /\ executed' = [executed EXCEPT ![r.call] = @ + 1]
                              /\ pipe' = Append(pipe, r)
    BY <1>1 DEF Respond
  <2>2. r \in Entries /\ r \in Lines /\ r.call \in Calls
    BY DEF Types, TypeOK, Entries, Lines
  <2>3. pipe' \in Seq(Lines) /\ pipe' # <<>>
    BY <2>1, <2>2, SetOfAppend DEF Types, TypeOK
  <2>4. IsFiniteSet(requests')
    BY <2>1, FS_RemoveElement DEF Types
  <2> QED BY <1>1, <2>1, <2>2, <2>3, <2>4 DEF Respond, Types, TypeOK
<1>2. CASE Die
  <2>1. executed' \in [Calls -> Nat]
    <3>1. PICK E \in SUBSET requests :
            executed' = [c \in Calls |-> executed[c] + Cardinality({r \in E : r.call = c})]
      BY <1>2 DEF Die
    <3>2. ASSUME NEW c \in Calls
          PROVE  executed[c] + Cardinality({r \in E : r.call = c}) \in Nat
      <4>1. Cardinality({r \in E : r.call = c}) \in Nat
        BY FS_Subset, FS_CardinalityType DEF Types
      <4> QED BY <4>1 DEF Types, TypeOK
    <3> QED BY <3>1, <3>2
  <2>2. faults' \in Nat
    BY <1>2 DEF Die, Types, TypeOK
  <2> QED BY <1>2, <2>1, <2>2, FS_EmptySet DEF Die, Types, TypeOK
<1> QED BY <1>1, <1>2

LEMMA PruneTypes ==
  ASSUME Types, Prune
  PROVE  Types'
BY ClientAssumption DEF Prune, child, Types, TypeOK

LEMMA TypesInit == Init => Types
<1> SUFFICES ASSUME Init PROVE Types
  OBVIOUS
<1>1. channel \in Seq(Calls) /\ pipe \in Seq(Lines) /\ recent \in 0..MaxRestarts
  BY EmptySeq, ClientAssumption DEF Init
<1>2. IsFiniteSet(requests)
  BY FS_EmptySet DEF Init
<1> QED BY <1>1, <1>2 DEF Init, Types, TypeOK

(* Every variable of the client keeps its type, whatever dies and overlaps; the
   budget's window holds no more restarts than it may. *)
THEOREM TypeCorrect == Spec => []TypeOK
<1>1. Types /\ [Next]_vars => Types'
  <2> SUFFICES ASSUME Types, [Next]_vars PROVE Types'
    OBVIOUS
  <2>1. CASE UNCHANGED vars
    BY <2>1 DEF vars, child, Types, TypeOK
  <2> QED BY <2>1, CallerTypes, ActorTypes, ChildTypes, PruneTypes DEF Next
<1>2. Types => TypeOK
  BY DEF Types
<1> QED BY TypesInit, <1>1, <1>2, PTL DEF Spec

-----------------------------------------------------------------------------
(* What is in flight. *)

LEMMA SameEntry == \A x, y \in Entries : x.id = y.id /\ x.call = y.call => x = y
BY DEF Entries

(* Steps that put nothing new in flight and execute nothing. *)
LEMMA FlightFrame ==
  ASSUME Types, Types', Flight,
         pending' \subseteq pending, requests' \subseteq requests,
         Answered' \subseteq Answered,
         channel' = channel \/ channel' = <<>>,
         UNCHANGED <<nextId, executed>>,
         \A c \in Calls : caller'[c] \in {"idle", "sending"} => caller[c] \in {"idle", "sending"}
  PROVE  Flight'
<1>1. InFlight' \subseteq InFlight
  BY DEF InFlight
<1>2. OneIdPerCall' /\ IdsAreGivenOut' /\ ExecutedOnce'
  BY <1>1 DEF Flight, OneIdPerCall, IdsAreGivenOut, ExecutedOnce
<1>3. \A c \in Calls : Untouched(c) => Untouched(c)'
  BY <1>1 DEF Untouched
<1>4. CASE channel' = channel
  <2>1. ToSet(channel) \subseteq Calls
    BY SetOf DEF Types, TypeOK
  <2> QED BY <1>2, <1>3, <1>4, <2>1 DEF Flight, QueuedOnce
<1>5. CASE channel' = <<>>
  <2>1. ToSet(channel') = {}
    BY <1>5 DEF ToSet
  <2>2. \A i \in 1..Len(channel') : FALSE
    BY <1>5
  <2> QED BY <1>2, <1>3, <2>1, <2>2 DEF Flight, QueuedOnce
<1> QED BY <1>2, <1>4, <1>5 DEF Flight

LEMMA CallerFlight ==
  ASSUME Types, Types', Flight, NEW c \in Calls, Caller(c)
  PROVE  Flight'
<1>1. CASE Submit(c) \/ Timeout(c)
  <2>1. \A d \in Calls : caller'[d] \in {"idle", "sending"} => caller[d] \in {"idle", "sending"}
    BY <1>1 DEF Submit, Timeout, Types, TypeOK
  <2> QED BY <1>1, <2>1, FlightFrame DEF Submit, Timeout, child, Answered
<1>2. CASE Enqueue(c)
  <2>1. UNCHANGED <<pending, requests, pipe, nextId, executed>>
    BY <1>2 DEF Enqueue, child
  <2>2. OneIdPerCall' /\ IdsAreGivenOut' /\ ExecutedOnce'
    BY <2>1 DEF Flight, OneIdPerCall, IdsAreGivenOut, ExecutedOnce, InFlight, Answered
  <2>3. \A d \in Calls : Untouched(d)' <=> Untouched(d)
    BY <2>1 DEF Untouched, InFlight, Answered
  <2>4. c \notin ToSet(channel) /\ Untouched(c)
    BY <1>2 DEF Enqueue, Flight, QueuedOnce
  <2>5. channel' = Append(channel, c) /\ ToSet(channel') = ToSet(channel) \cup {c}
    BY <1>2, SetOfAppend DEF Enqueue, Types, TypeOK
  <2>6. \A i, j \in 1..Len(channel') : channel'[i] = channel'[j] => i = j
    <3>1. /\ Len(channel) \in Nat /\ Len(channel') = Len(channel) + 1
          /\ \A i \in 1..Len(channel) : channel'[i] = channel[i]
          /\ channel'[Len(channel) + 1] = c
      BY <2>5, AppendProperties, LenProperties DEF Types, TypeOK
    <3>2. \A i \in 1..Len(channel) : channel[i] # c
      BY <2>4, SetOf DEF Types, TypeOK
    <3> QED BY <3>1, <3>2 DEF Flight, QueuedOnce
  <2>7. /\ caller'[c] = "waiting"
        /\ \A d \in Calls : d # c => caller'[d] = caller[d]
    BY <1>2 DEF Enqueue, Types, TypeOK
  <2>8. QueuedOnce'
    <3>1. \A d \in ToSet(channel') : Untouched(d)'
      <4>1. ToSet(channel) \subseteq Calls
        BY SetOf DEF Types, TypeOK
      <4> QED BY <2>3, <2>4, <2>5, <4>1 DEF Flight, QueuedOnce
    <3>2. \A d \in Calls : caller'[d] \in {"idle", "sending"} => d \notin ToSet(channel') /\ Untouched(d)'
      BY <2>3, <2>5, <2>7 DEF Flight, QueuedOnce
    <3> QED BY <2>6, <3>1, <3>2 DEF QueuedOnce
  <2> QED BY <2>2, <2>8 DEF Flight
<1> QED BY <1>1, <1>2 DEF Caller

LEMMA TakeRequestFlight ==
  ASSUME Types, Types', Flight, TakeRequest
  PROVE  Flight'
<1> DEFINE c == Head(channel)
           e == [id |-> nextId + 1, call |-> c]
<1>1. /\ c \in Calls /\ channel' = Tail(channel) /\ channel' \in Seq(Calls)
      /\ ToSet(channel) = {c} \cup ToSet(channel')
  BY SetOfTail DEF TakeRequest, Types, TypeOK
<1>2. /\ nextId' = nextId + 1 /\ nextId \in Nat /\ executed' = executed
      /\ e \in Entries /\ e.id = nextId + 1 /\ e.call = c
  BY <1>1 DEF TakeRequest, Types, TypeOK, Entries
<1>3. /\ \A i, j \in 1..Len(channel') : channel'[i] = channel'[j] => i = j
      /\ c \notin ToSet(channel')
  <2>1. /\ Len(channel) \in Nat \ {0} /\ Len(channel') = Len(channel) - 1
        /\ \A i \in 1..Len(channel') : channel'[i] = channel[i + 1]
        /\ c = channel[1]
    BY HeadTailProperties, EmptySeq DEF TakeRequest, Types, TypeOK
  <2>2. \A i \in 1..Len(channel') : i + 1 \in 1..Len(channel) /\ i + 1 # 1
    BY <2>1
  <2>3. \A i \in 1..Len(channel') : channel'[i] # c
    BY <2>1, <2>2 DEF Flight, QueuedOnce
  <2>4. \A i, j \in 1..Len(channel') : channel'[i] = channel'[j] => i = j
    BY <2>1, <2>2 DEF Flight, QueuedOnce
  <2>5. \A x : x \in ToSet(channel') => \E i \in 1..Len(channel') : x = channel'[i]
    BY <1>1, SetOf
  <2> QED BY <2>3, <2>4, <2>5
<1>4. Untouched(c)
  BY <1>1 DEF Flight, QueuedOnce
<1>5. /\ InFlight' \subseteq InFlight \cup {e} /\ Answered' \subseteq Answered
      /\ requests' \subseteq requests \cup {e}
      /\ \A d \in Calls : caller'[d] \in {"idle", "sending"} => caller[d] \in {"idle", "sending"}
  <2>1. CASE Disconnect(PendingCalls \cup {c})
    <3>1. Answered' = {}
      BY <2>1 DEF Disconnect, Answered, ToSet
    <3>2. pending' = {} /\ requests' = {}
      BY <2>1 DEF Disconnect
    <3>3. \A d \in Calls : caller'[d] \in {"idle", "sending"} => caller[d] \in {"idle", "sending"}
      BY <2>1 DEF Disconnect, Unavailable
    <3> QED BY <3>1, <3>2, <3>3 DEF InFlight
  <2>2. CASE /\ pending' = pending \cup {e}
             /\ requests' = IF alive THEN requests \cup {e} ELSE requests
             /\ pipe' = PipeAfterCancel
             /\ UNCHANGED caller
    <3>1. Answered' \subseteq Answered
      BY <2>2, Spoilt DEF Types
    <3> QED BY <2>2, <3>1 DEF InFlight
  <2> QED BY <1>2, <2>1, <2>2 DEF TakeRequest
<1> HIDE DEF c, e
<1>6. InFlight \subseteq Entries
  BY DEF InFlight, Answered, Types, TypeOK
<1>7. OneIdPerCall' /\ IdsAreGivenOut'
  <2>1. \A x \in InFlight : x.id \in Nat /\ x.id # e.id /\ x.call # e.call
    BY <1>2, <1>4, <1>6 DEF Flight, IdsAreGivenOut, Untouched, Entries
  <2>2. OneIdPerCall'
    BY <1>5, <2>1 DEF Flight, OneIdPerCall
  <2>3. IdsAreGivenOut'
    BY <1>2, <1>5, <2>1 DEF Flight, IdsAreGivenOut
  <2> QED BY <2>2, <2>3
<1>8. ExecutedOnce'
  BY <1>2, <1>4, <1>5 DEF Flight, ExecutedOnce, Untouched
<1>9. QueuedOnce'
  <2>1. \A d \in Calls : d # c /\ Untouched(d) => Untouched(d)'
    BY <1>2, <1>5 DEF Untouched
  <2>2. \A d \in ToSet(channel') : d \in Calls /\ d # c /\ Untouched(d)
    BY <1>1, <1>3, SetOf DEF Flight, QueuedOnce
  <2>3. \A d \in Calls : caller'[d] \in {"idle", "sending"}
          => d # c /\ d \notin ToSet(channel') /\ Untouched(d)
    BY <1>1, <1>5 DEF Flight, QueuedOnce
  <2> QED BY <1>3, <2>1, <2>2, <2>3 DEF QueuedOnce
<1> QED BY <1>7, <1>8, <1>9 DEF Flight

LEMMA ActorFlight ==
  ASSUME Types, Types', Flight, Actor
  PROVE  Flight'
<1>1. CASE TakeRequest
  BY <1>1, TakeRequestFlight
<1>2. CASE ReadPart \/ Restart \/ Opened \/ OpenFails
  BY <1>2, FlightFrame DEF ReadPart, Restart, Opened, OpenFails, child, Answered
<1>3. CASE ReadLine
  <2>1. Answered' \subseteq Answered
    BY <1>3, SetOfTail DEF ReadLine, Answered, Types, TypeOK
  <2>2. /\ pending' \subseteq pending
        /\ \A c \in Calls : caller'[c] = caller[c] \/ caller'[c] = "ok"
    BY <1>3 DEF ReadLine
  <2> QED BY <1>3, <2>1, <2>2, FlightFrame DEF ReadLine
<1>4. CASE ReadEof
  <2>1. Answered' = {} /\ pending' = {} /\ requests' = {}
    BY <1>4 DEF ReadEof, Disconnect, Answered, ToSet
  <2>2. \A c \in Calls : caller'[c] = caller[c] \/ caller'[c] = "unavailable"
    BY <1>4 DEF ReadEof, Disconnect, Unavailable
  <2> QED BY <1>4, <2>1, <2>2, FlightFrame DEF ReadEof
<1>5. CASE GiveUp
  <2>1. \A c \in Calls : caller'[c] \in {caller[c], "waiting", "unavailable"}
    BY <1>5 DEF GiveUp
  <2> QED BY <1>5, <2>1, FlightFrame DEF GiveUp, child, Answered
<1> QED BY <1>1, <1>2, <1>3, <1>4, <1>5 DEF Actor

LEMMA RespondFlight ==
  ASSUME Types, Types', Flight, Respond
  PROVE  Flight'
<1>1. PICK r \in requests : /\ requests' = requests \ {r}
                            /\ executed' = [executed EXCEPT ![r.call] = @ + 1]
                            /\ pipe' = Append(pipe, r)
  BY DEF Respond
<1>2. r \in Entries /\ r \in Lines /\ r.call \in Calls /\ r \in InFlight
  BY DEF Types, TypeOK, Entries, Lines, InFlight
<1>3. Answered' = Answered \cup {r}
  BY <1>1, <1>2, SetOfAppend DEF Answered, Types, TypeOK
<1>4. UNCHANGED <<caller, channel, pending, nextId>>
  BY DEF Respond
<1>5. InFlight' \subseteq InFlight
  BY <1>1, <1>2, <1>3, <1>4 DEF InFlight
<1>6. executed[r.call] = 0 /\ \A c \in Calls : executed'[c] = IF c = r.call THEN 1 ELSE executed[c]
  BY <1>1, <1>2 DEF Flight, ExecutedOnce, Types, TypeOK
<1>7. \A x \in requests : x.call = r.call => x = r
  BY <1>2, SameEntry DEF Flight, OneIdPerCall, InFlight, Types, TypeOK
<1>8. OneIdPerCall' /\ IdsAreGivenOut'
  BY <1>4, <1>5 DEF Flight, OneIdPerCall, IdsAreGivenOut
<1>9. ExecutedOnce'
  <2>1. \A x \in requests' : x.call \in Calls /\ executed'[x.call] = 0
    BY <1>1, <1>6, <1>7 DEF Flight, ExecutedOnce, Types, TypeOK, Entries
  <2>2. \A x \in Answered' : executed'[x.call] = 1
    BY <1>3, <1>6 DEF Flight, ExecutedOnce, Answered, Entries
  <2> QED BY <1>6, <2>1, <2>2 DEF Flight, ExecutedOnce
<1>10. \A c \in Calls : Untouched(c) => Untouched(c)'
  BY <1>2, <1>5, <1>6 DEF Untouched
<1>11. QueuedOnce'
  BY <1>4, <1>10, SetOf DEF Flight, QueuedOnce, Types, TypeOK
<1> QED BY <1>8, <1>9, <1>11 DEF Flight

(* Of the requests it had, the child that died executed each once or never. *)
LEMMA DieExecutes ==
  ASSUME Types, Flight, Die
  PROVE  \A c \in Calls : \/ executed'[c] = executed[c]
                          \/ /\ executed[c] = 0 /\ executed'[c] = 1
                             /\ \E r \in requests : r.call = c
<1>1. PICK E \in SUBSET requests :
        executed' = [c \in Calls |-> executed[c] + Cardinality({r \in E : r.call = c})]
  BY DEF Die
<1> SUFFICES ASSUME NEW c \in Calls
             PROVE  \/ executed'[c] = executed[c]
                    \/ /\ executed[c] = 0 /\ executed'[c] = 1
                       /\ \E r \in requests : r.call = c
  OBVIOUS
<1> DEFINE own == {r \in E : r.call = c}
<1>2. executed'[c] = executed[c] + Cardinality(own) /\ executed[c] \in Nat
  BY <1>1 DEF Types, TypeOK
<1>3. CASE own = {}
  <2>1. Cardinality(own) = 0
    BY <1>3, FS_EmptySet
  <2> QED BY <1>2, <2>1
<1>4. CASE own # {}
  <2>1. PICK r \in own : TRUE
    BY <1>4
  <2>2. \A x \in own : x = r
    BY <2>1, SameEntry DEF Flight, OneIdPerCall, InFlight, Types, TypeOK
  <2>3. own = {r}
    BY <2>1, <2>2
  <2>4. Cardinality(own) = 1
    BY <2>3, FS_Singleton
  <2>5. executed[c] = 0
    BY <2>1 DEF Flight, ExecutedOnce
  <2> QED BY <1>2, <2>1, <2>4, <2>5
<1> QED BY <1>3, <1>4

LEMMA DieFlight ==
  ASSUME Types, Types', Flight, Die
  PROVE  Flight'
<1>1. requests' = {} /\ UNCHANGED <<caller, channel, nextId, pending, pipe>>
  BY DEF Die
<1>2. InFlight' \subseteq InFlight /\ Answered' = Answered
  BY <1>1 DEF InFlight, Answered
<1>3. OneIdPerCall' /\ IdsAreGivenOut'
  BY <1>1, <1>2 DEF Flight, OneIdPerCall, IdsAreGivenOut
<1>4. \A c \in Calls : Untouched(c) => Untouched(c)'
  BY <1>2, DieExecutes DEF Untouched, InFlight
<1>5. ExecutedOnce'
  <2>1. \A a \in Answered : a.call \in Calls
    BY DEF Answered, Entries
  <2> QED BY <1>1, <1>2, <2>1, DieExecutes DEF Flight, ExecutedOnce
<1>6. QueuedOnce'
  BY <1>1, <1>4, SetOf DEF Flight, QueuedOnce, Types, TypeOK
<1> QED BY <1>3, <1>5, <1>6 DEF Flight

-----------------------------------------------------------------------------
(* The callers. *)

Callers == OwnAnswer /\ WaitersAreKnown /\ NoReplyOutlivesConnection

Ends == {"ok", "unavailable", "timeout"}

(* A lost connection: every waiter whose reply the actor owed is told, the
   others are in the channel still. *)
LEMMA DisconnectCallers ==
  ASSUME Types, Types', Callers, NEW C, actor = "serving", Disconnect(C), PendingCalls \subseteq C,
         ToSet(channel) \subseteq C \cup ToSet(channel'),
         answers' = answers
  PROVE  Callers'
<1>1. \A c \in Calls : caller'[c] = IF c \in C /\ caller[c] = "waiting" THEN "unavailable"
                                                                        ELSE caller[c]
  BY DEF Disconnect, Unavailable
<1>2. OwnAnswer'
  BY <1>1 DEF Callers, OwnAnswer
<1>3. NoReplyOutlivesConnection'
  BY DEF Disconnect, NoReplyOutlivesConnection
<1>4. ASSUME NEW c \in Calls, caller'[c] = "waiting"
      PROVE  c \in ToSet(channel')
  BY <1>1, <1>4 DEF Callers, WaitersAreKnown
<1> QED BY <1>2, <1>3, <1>4 DEF Callers, WaitersAreKnown

LEMMA CallerCallers ==
  ASSUME Types, Types', Callers, NEW c \in Calls, Caller(c)
  PROVE  Callers'
<1>1. UNCHANGED <<answers, actor, pending, connected>>
  BY DEF Caller, Submit, Enqueue, Timeout
<1>2. /\ \A d \in Calls : d # c => caller'[d] = caller[d]
      /\ caller'[c] = "ok" <=> caller[c] = "ok"
      /\ ToSet(channel) \subseteq ToSet(channel')
      /\ caller'[c] = "waiting" => c \in ToSet(channel')
  <2>1. CASE Submit(c) \/ Timeout(c)
    BY <2>1 DEF Submit, Timeout, Types, TypeOK
  <2>2. CASE Enqueue(c)
    BY <2>2, SetOfAppend DEF Enqueue, Types, TypeOK
  <2> QED BY <2>1, <2>2 DEF Caller
<1>3. PendingCalls' = PendingCalls
  BY <1>1 DEF PendingCalls
<1>4. OwnAnswer'
  BY <1>1, <1>2 DEF Callers, OwnAnswer
<1>5. WaitersAreKnown'
  BY <1>1, <1>2, <1>3 DEF Callers, WaitersAreKnown
<1> QED BY <1>1, <1>4, <1>5 DEF Callers, NoReplyOutlivesConnection

LEMMA TakeRequestCallers ==
  ASSUME Types, Types', Callers, TakeRequest
  PROVE  Callers'
<1> DEFINE c == Head(channel)
           e == [id |-> nextId + 1, call |-> c]
<1>1. ToSet(channel) = {c} \cup ToSet(channel') /\ answers' = answers /\ actor = "serving"
  BY SetOfTail DEF TakeRequest, Types, TypeOK
<1>2. CASE Disconnect(PendingCalls \cup {c})
  BY <1>1, <1>2, DisconnectCallers
<1>3. CASE pending' = pending \cup {e} /\ UNCHANGED <<caller, actor, connected>>
  <2>1. PendingCalls' = PendingCalls \cup {c}
    <3>1. e.call = c /\ pending' = pending \cup {e}
      BY <1>3
    <3> HIDE DEF c, e
    <3> QED BY <3>1 DEF PendingCalls
  <2>2. WaitersAreKnown'
    BY <1>1, <1>3, <2>1 DEF Callers, WaitersAreKnown
  <2> QED BY <1>1, <1>3, <2>2 DEF Callers, OwnAnswer, NoReplyOutlivesConnection
<1> QED BY <1>2, <1>3 DEF TakeRequest

(* The answer of a line goes to the call that the line's id was given to. *)
LEMMA ReadLineTakers ==
  ASSUME Types, Flight, ReadLine
  PROVE  \/ UNCHANGED <<caller, answers>> /\ \A p \in pending \ pending' : caller[p.call] # "waiting"
         \/ \E c \in Calls :
              /\ caller[c] = "waiting" /\ executed[c] = 1
              /\ caller' = [caller EXCEPT ![c] = "ok"]
              /\ answers' = answers \cup {<<c, c>>}
              /\ \A p \in pending \ pending' : p.call = c
<1> DEFINE line == Head(pipe)
           matched == {p \in pending : line \in Entries /\ p.id = line.id}
           takers == {p.call : p \in {r \in matched : caller[r.call] = "waiting"}}
<1>1. /\ pending' = pending \ matched
      /\ caller' = [d \in Calls |-> IF d \in takers THEN "ok" ELSE caller[d]]
      /\ answers' = answers \cup {<<d, line.call>> : d \in takers}
  BY DEF ReadLine
<1>2. line \in ToSet(pipe)
  BY SetOfTail DEF ReadLine, Types, TypeOK
<1>3. line \in Entries => line \in Answered
  BY <1>2 DEF Answered
<1>4. \A p \in matched : line \in Answered /\ p.call = line.call
  BY <1>3 DEF Flight, OneIdPerCall, InFlight
<1> HIDE DEF line
<1>5. CASE takers = {}
  <2>1. caller' = caller
    BY <1>1, <1>5 DEF Types, TypeOK
  <2>2. answers' = answers
    BY <1>1, <1>5
  <2>3. \A p \in matched : caller[p.call] # "waiting"
    BY <1>5
  <2>4. pending \ pending' \subseteq matched
    BY <1>1
  <2> QED BY <2>1, <2>2, <2>3, <2>4
<1>6. CASE takers # {}
  <2>1. PICK p \in matched : caller[p.call] = "waiting"
    BY <1>6
  <2>2. p.call \in Calls /\ p.call = line.call /\ executed[p.call] = 1
    BY <1>4, <2>1 DEF Flight, ExecutedOnce, Types, TypeOK, Entries
  <2>3. takers = {p.call}
    BY <1>4, <2>1
  <2> HIDE DEF takers, matched
  <2>4. caller' = [caller EXCEPT ![p.call] = "ok"]
    BY <1>1, <2>2, <2>3 DEF Types, TypeOK
  <2>5. answers' = answers \cup {<<p.call, p.call>>}
    BY <1>1, <2>2, <2>3
  <2>6. \A x \in pending \ pending' : x.call = p.call
    BY <1>1, <1>4, <2>2
  <2> QED BY <2>1, <2>2, <2>4, <2>5, <2>6
<1> QED BY <1>5, <1>6

LEMMA ReadLineCallers ==
  ASSUME Types, Types', Callers, Flight, ReadLine
  PROVE  Callers'
<1>1. actor = "serving" /\ UNCHANGED <<actor, channel, connected>>
  BY DEF ReadLine
<1>2. \A c \in Calls : c \in PendingCalls /\ caller'[c] = "waiting" => c \in PendingCalls'
  <2> SUFFICES ASSUME NEW p \in pending, p.call \in Calls, caller'[p.call] = "waiting",
                      p \notin pending'
               PROVE  FALSE
    BY DEF PendingCalls
  <2> QED BY ReadLineTakers DEF Types, TypeOK
<1>3. \A c \in Calls : caller'[c] = "waiting" => caller[c] = "waiting"
  BY ReadLineTakers DEF Types, TypeOK
<1>4. WaitersAreKnown'
  BY <1>1, <1>2, <1>3 DEF Callers, WaitersAreKnown
<1>5. OwnAnswer'
  <2>1. CASE UNCHANGED <<caller, answers>>
    BY <2>1 DEF Callers, OwnAnswer
  <2>2. ASSUME NEW c \in Calls, caller' = [caller EXCEPT ![c] = "ok"],
               answers' = answers \cup {<<c, c>>}
        PROVE  OwnAnswer'
    BY <2>2 DEF Callers, OwnAnswer, Types, TypeOK
  <2> QED BY <2>1, <2>2, ReadLineTakers
<1> QED BY <1>1, <1>4, <1>5 DEF Callers, NoReplyOutlivesConnection

LEMMA ActorCallers ==
  ASSUME Types, Types', Callers, Flight, Actor
  PROVE  Callers'
<1>1. CASE TakeRequest
  BY <1>1, TakeRequestCallers
<1>2. CASE ReadLine
  BY <1>2, ReadLineCallers
<1>3. CASE ReadEof
  BY <1>3, DisconnectCallers DEF ReadEof
<1>4. CASE GiveUp
  <2>1. \A c \in Calls : caller'[c] = "ok" <=> caller[c] = "ok"
    BY <1>4 DEF GiveUp
  <2>2. OwnAnswer'
    BY <1>4, <2>1 DEF GiveUp, Callers, OwnAnswer
  <2> QED BY <1>4, <2>2 DEF GiveUp, Callers, WaitersAreKnown, NoReplyOutlivesConnection
<1>5. CASE ReadPart \/ Restart \/ Opened \/ OpenFails
  <2>1. UNCHANGED <<caller, answers, channel, pending>> /\ actor # "stopped"
    BY <1>5 DEF ReadPart, Restart, Opened, OpenFails
  <2>2. OwnAnswer' /\ WaitersAreKnown'
    BY <2>1 DEF Callers, OwnAnswer, WaitersAreKnown, PendingCalls
  <2>3. NoReplyOutlivesConnection'
    BY <1>5, <2>1 DEF ReadPart, Restart, Opened, OpenFails, Callers, NoReplyOutlivesConnection
  <2> QED BY <2>2, <2>3 DEF Callers
<1> QED BY <1>1, <1>2, <1>3, <1>4, <1>5 DEF Actor

LEMMA InitInv == Init => Inv
<1> SUFFICES ASSUME Init PROVE Inv
  OBVIOUS
<1>1. ToSet(channel) = {} /\ InFlight = {} /\ Answered = {}
  BY DEF Init, InFlight, Answered, ToSet
<1>2. Flight
  BY <1>1 DEF Init, Flight, OneIdPerCall, IdsAreGivenOut, QueuedOnce, Untouched, ExecutedOnce
<1> QED BY <1>2, TypesInit
        DEF Init, Inv, OwnAnswer, WaitersAreKnown, NoReplyOutlivesConnection

LEMMA StepInv == Inv /\ [Next]_vars => Inv'
<1> SUFFICES ASSUME Inv, [Next]_vars PROVE Inv'
  OBVIOUS
<1>0. Types /\ Callers /\ Flight
  BY DEF Inv, Callers
<1>1. Types'
  <2>1. CASE UNCHANGED vars
    BY <1>0, <2>1 DEF vars, Types, TypeOK
  <2> QED BY <1>0, <2>1, CallerTypes, ActorTypes, ChildTypes, PruneTypes DEF Next
<1>2. Flight'
  <2>1. CASE UNCHANGED vars \/ Prune
    BY <1>0, <1>1, <2>1, FlightFrame DEF vars, Prune, child, Answered
  <2> QED BY <1>0, <1>1, <2>1, CallerFlight, ActorFlight, RespondFlight, DieFlight DEF Next
<1>3. Callers'
  <2>1. CASE UNCHANGED vars \/ Prune \/ Respond \/ Die
    <3>1. UNCHANGED <<caller, answers, channel, actor, pending, connected>>
      BY <2>1 DEF vars, Prune, Respond, Die
    <3> QED BY <1>0, <3>1 DEF Callers, OwnAnswer, WaitersAreKnown,
                              NoReplyOutlivesConnection, PendingCalls
  <2> QED BY <1>0, <1>1, <2>1, CallerCallers, ActorCallers DEF Next
<1> QED BY <1>1, <1>2, <1>3 DEF Inv, Callers

LEMMA Invariance == Spec => []Inv
BY InitInv, StepInv, PTL DEF Spec

(* For any number of calls, answers in any order, timeouts, deaths of the child
   and restarts: an answer reaches the caller that asked, once; while the actor
   runs it knows every caller that waits; and it owes no reply over a
   connection that is gone. *)
THEOREM CallsAccounted == Spec => []CallsAreAccountedFor
<1>1. Inv => CallsAreAccountedFor
  BY DEF Inv, Types, CallsAreAccountedFor
<1> QED BY Invariance, <1>1, PTL

-----------------------------------------------------------------------------
(* The client is an at-most-once call. *)

LEMMA FailsAndLeaves ==
  ASSUME NEW F \in SUBSET {c \in Calls : Outcome[c] = "none"},
         NEW E \in SUBSET {c \in Calls : executed[c] = 0},
         Outcome' = [c \in Calls |-> IF c \in F THEN "failed" ELSE Outcome[c]],
         executed' = [c \in Calls |-> IF c \in E THEN 1 ELSE executed[c]]
  PROVE  Abstract!Fail
<1> HIDE DEF Outcome
<1> QED BY Zenon DEF Abstract!Fail

(* Callers that learn nothing keep their outcome, and others may fail at once. *)
LEMMA SomeFail ==
  ASSUME Types, UNCHANGED executed,
         \A c \in Calls : \/ Outcome'[c] = Outcome[c]
                          \/ Outcome[c] = "none" /\ Outcome'[c] = "failed"
  PROVE  Abstract!Fail
<1> DEFINE F == {c \in Calls : Outcome[c] = "none" /\ Outcome'[c] = "failed"}
<1>1. F \in SUBSET {c \in Calls : Outcome[c] = "none"}
  OBVIOUS
<1>2. Outcome' = [c \in Calls |-> IF c \in F THEN "failed" ELSE Outcome[c]]
  <2>1. Outcome' = [c \in Calls |-> Outcome'[c]]
    BY DEF Outcome
  <2> QED BY <2>1
<1>3. executed' = [c \in Calls |-> IF c \in {} THEN 1 ELSE executed[c]]
  BY DEF Types, TypeOK
<1>4. {} \in SUBSET {c \in Calls : executed[c] = 0}
  OBVIOUS
<1> HIDE DEF F
<1> QED BY <1>1, <1>2, <1>3, <1>4, FailsAndLeaves, Zenon

LEMMA ChildImplements ==
  ASSUME Inv, Respond \/ Die
  PROVE  (\E c \in Calls : Abstract!Execute(c)) \/ Abstract!Fail
<1>0. UNCHANGED Outcome /\ DOMAIN executed = Calls
  BY DEF Respond, Die, Outcome, Inv, Types, TypeOK
<1>1. CASE Respond
  <2>1. PICK x \in requests : executed' = [executed EXCEPT ![x.call] = @ + 1]
    BY <1>1 DEF Respond
  <2>2. x.call \in Calls /\ executed[x.call] = 0
    BY DEF Inv, Flight, ExecutedOnce, Types, TypeOK, Entries
  <2>3. executed' = [executed EXCEPT ![x.call] = 1]
    BY <2>1, <2>2
  <2> QED BY <1>0, <2>2, <2>3 DEF Abstract!Execute
<1>2. CASE Die
  <2> DEFINE E == {c \in Calls : executed[c] = 0 /\ executed'[c] = 1}
  <2>1. executed' = [c \in Calls |-> executed'[c]]
    BY <1>2 DEF Die
  <2>2. executed' = [c \in Calls |-> IF c \in E THEN 1 ELSE executed[c]]
    BY <1>2, <2>1, DieExecutes DEF Inv
  <2>3. Outcome' = [c \in Calls |-> IF c \in {} THEN "failed" ELSE Outcome[c]]
    BY <1>0 DEF Outcome
  <2>4. E \in SUBSET {c \in Calls : executed[c] = 0}
    OBVIOUS
  <2> HIDE DEF E
  <2>5. {} \in SUBSET {c \in Calls : Outcome[c] = "none"}
    OBVIOUS
  <2> QED BY <2>2, <2>3, <2>4, <2>5, FailsAndLeaves, Zenon
<1> QED BY <1>1, <1>2

LEMMA ActorImplements ==
  ASSUME Inv, Inv', Actor
  PROVE  \/ Abstract!Fail \/ UNCHANGED <<Outcome, executed>>
         \/ \E c \in Calls : Abstract!Answer(c)
<1>0. Types /\ UNCHANGED executed
  BY DEF Inv, Actor, TakeRequest, ReadPart, ReadLine, ReadEof, GiveUp, Restart, Opened,
         OpenFails, child
<1>1. CASE ReadLine
  <2>1. CASE UNCHANGED <<caller, answers>>
    BY <1>0, <2>1 DEF Outcome
  <2>2. ASSUME NEW c \in Calls, caller[c] = "waiting", executed[c] = 1,
               caller' = [caller EXCEPT ![c] = "ok"]
        PROVE  Abstract!Answer(c)
    <3>1. Outcome[c] = "none"
      BY <2>2 DEF Outcome
    <3>2. Outcome' = [Outcome EXCEPT ![c] = "ok"]
      BY <1>0, <2>2 DEF Outcome, Types, TypeOK
    <3> QED BY <1>0, <2>2, <3>1, <3>2 DEF Abstract!Answer
  <2> QED BY <1>1, <2>1, <2>2, ReadLineTakers DEF Inv
<1>2. CASE ~ReadLine
  <2>1. \A c \in Calls : \/ caller'[c] = caller[c]
                         \/ /\ caller[c] \in {"sending", "waiting"}
                            /\ caller'[c] \in {"waiting", "unavailable"}
    <3>1. CASE GiveUp
      BY <3>1 DEF GiveUp
    <3>2. CASE TakeRequest \/ ReadEof
      BY <3>2 DEF TakeRequest, ReadEof, Disconnect, Unavailable
    <3>3. CASE ReadPart \/ Restart \/ Opened \/ OpenFails
      BY <3>3 DEF ReadPart, Restart, Opened, OpenFails
    <3> QED BY <1>2, <3>1, <3>2, <3>3 DEF Actor
  <2>2. \A c \in Calls : \/ Outcome'[c] = Outcome[c]
                         \/ Outcome[c] = "none" /\ Outcome'[c] = "failed"
    BY <2>1 DEF Outcome
  <2> QED BY <1>0, <2>2, SomeFail
<1> QED BY <1>1, <1>2

LEMMA CallerImplements ==
  ASSUME Inv, NEW c \in Calls, Caller(c)
  PROVE  Abstract!Fail
<1>1. Types /\ UNCHANGED executed
  BY DEF Inv, Caller, Submit, Enqueue, Timeout, child
<1>2. \A d \in Calls : d # c => caller'[d] = caller[d]
  BY <1>1 DEF Caller, Submit, Enqueue, Timeout, Types, TypeOK
<1>3. /\ caller[c] \in {"idle", "sending", "waiting"}
      /\ caller'[c] \in {"sending", "waiting", "timeout", "unavailable"}
  BY <1>1 DEF Caller, Submit, Enqueue, Timeout, Types, TypeOK
<1>4. \A d \in Calls : \/ Outcome'[d] = Outcome[d]
                       \/ Outcome[d] = "none" /\ Outcome'[d] = "failed"
  BY <1>2, <1>3 DEF Outcome
<1> QED BY <1>1, <1>4, SomeFail

(* Whatever is lost, late, reordered or restarted, the client promises its
   callers what AtMostOnce says: each call is executed at most once and has one
   outcome, and an answer comes from its own execution. *)
THEOREM Refinement == Spec => ImplementsAtMostOnce
<1>1. Init => Abstract!Init
  BY DEF Init, Abstract!Init, Outcome
<1>2. Inv /\ Inv' /\ [Next]_vars => [Abstract!Next]_<<Outcome, executed>>
  <2> SUFFICES ASSUME Inv, Inv', [Next]_vars
               PROVE  Abstract!Next \/ UNCHANGED <<Outcome, executed>>
    OBVIOUS
  <2>1. CASE UNCHANGED vars \/ Prune
    BY <2>1 DEF vars, Prune, child, Outcome
  <2> QED BY <2>1, CallerImplements, ActorImplements, ChildImplements
          DEF Next, Abstract!Next
<1> QED BY Invariance, <1>1, <1>2, PTL DEF Spec, ImplementsAtMostOnce, Abstract!Spec

-----------------------------------------------------------------------------
(* The other end of the pipe: the server of the code daemon on one           *)
(* connection, a state machine beside the client's with variables of its     *)
(* own.                                                                      *)
CONSTANTS Histories, Checkouts, Permits, ChannelSize, MaxServerFaults
VARIABLES next, reader, inline, task, left, reply, outgoing, writer, repos, dest, serverFaults
Server ==
  INSTANCE CodeServer WITH channel <- outgoing, faults <- serverFaults,
                           MaxFaults <- MaxServerFaults

(* What was answered: written, or queued for the writer in this order. *)
Out == sent \o outgoing
OutPlaces == {Out[k].to : k \in DOMAIN Out}

Due(i) == input[i].form = "garbage" \/ Server!WantsReply(i)

LinesOf(h) == {h[i] : i \in DOMAIN h}

ServerShape ==
  /\ input \in Seq(LinesOf(input)) /\ next \in 1 .. (Len(input) + 1)
  /\ DOMAIN task = DOMAIN input /\ DOMAIN reply = DOMAIN input
  /\ \A i \in DOMAIN input : i >= next => task[i] = "none"
  /\ \E S : sent \in Seq(S) /\ outgoing \in Seq(S)

OutOnce == \A k, l \in DOMAIN Out : Out[k].to = Out[l].to => k = l

OutIsDue ==
  \A i \in OutPlaces : i \in DOMAIN input /\ i < next /\ task[i] \in {"none", "done"} /\ Due(i)

TasksHoldTheirs == \A i \in DOMAIN input : task[i] = "sending" => reply[i].to = i /\ Due(i)

InlineIsLast ==
  reader = "answering" =>
    /\ inline.to = next - 1 /\ inline.to \in DOMAIN input
    /\ task[inline.to] \in {"none", "done"} /\ Due(inline.to)
    /\ inline.to \notin OutPlaces

(* While somebody writes, a handshake that was read is answered or about to be; and it
   stands in the answers before all that was read after it. *)
Handshake(i) == Server!WantsReply(i) /\ Server!Method(i) = "initialize"
HandshakesFirst ==
  \A i \in 1 .. (next - 1) : Handshake(i) =>
    /\ writer = "up" => i \in OutPlaces \/ (reader = "answering" /\ inline.to = i)
    /\ \A l \in DOMAIN Out : i < Out[l].to => \E k \in 1 .. (l - 1) : Out[k].to = i

ServerInv ==
  ServerShape /\ OutOnce /\ OutIsDue /\ TasksHoldTheirs /\ InlineIsLast /\ HandshakesFirst

LEMMA ServerInit ==
  ASSUME Server!HistoriesAssumption
  PROVE  Server!Init => ServerInv
<1> SUFFICES ASSUME Server!Init PROVE ServerInv
  OBVIOUS
<1> USE DEF Server!Init
<1>1. input \in Seq(LinesOf(input)) /\ Len(input) \in Nat
  BY DEF Server!HistoriesAssumption, LinesOf
<1>2. sent \in Seq({}) /\ outgoing \in Seq({}) /\ Out = <<>>
  BY DEF Out
<1>3. DOMAIN Out = {} /\ OutPlaces = {}
  BY <1>2 DEF OutPlaces
<1>4. ServerShape
  BY <1>1, <1>2 DEF ServerShape
<1>5. OutOnce /\ OutIsDue /\ TasksHoldTheirs /\ InlineIsLast /\ HandshakesFirst
  BY <1>3 DEF OutOnce, OutIsDue, TasksHoldTheirs, InlineIsLast, HandshakesFirst
<1> QED BY <1>4, <1>5 DEF ServerInv

(* The answers, as one sequence. *)
LEMMA OutIs ==
  ASSUME ServerShape
  PROVE  /\ Len(sent) \in Nat /\ Len(outgoing) \in Nat
         /\ DOMAIN Out = 1 .. (Len(sent) + Len(outgoing))
         /\ \A k \in 1 .. Len(sent) : Out[k] = sent[k]
         /\ DOMAIN sent = 1 .. Len(sent)
         /\ DOMAIN input = 1 .. Len(input) /\ Len(input) \in Nat /\ next \in Nat
BY DEF ServerShape, Out

LEMMA OutGrows ==
  ASSUME ServerShape, NEW a, outgoing' = Append(outgoing, a), UNCHANGED sent
  PROVE  /\ \E S : sent' \in Seq(S) /\ outgoing' \in Seq(S)
         /\ Out' = Append(Out, a)
         /\ DOMAIN Out' = DOMAIN Out \cup {Len(Out) + 1}
         /\ DOMAIN Out = 1 .. Len(Out) /\ Len(Out) \in Nat
         /\ \A k \in DOMAIN Out : Out'[k] = Out[k]
         /\ Out'[Len(Out) + 1] = a
         /\ OutPlaces' = OutPlaces \cup {a.to}
<1>1. PICK S : sent \in Seq(S) /\ outgoing \in Seq(S)
  BY DEF ServerShape
<1> DEFINE T == S \cup {a}
<1>2. sent \in Seq(T) /\ outgoing \in Seq(T) /\ a \in T
  BY <1>1
<1>3. sent' \in Seq(T) /\ outgoing' \in Seq(T)
  BY <1>2
<1>4. Out \in Seq(T)
  BY <1>2 DEF Out
<1>5. Out' = Append(Out, a)
  BY <1>2 DEF Out
<1>6. /\ DOMAIN Out' = DOMAIN Out \cup {Len(Out) + 1}
      /\ DOMAIN Out = 1 .. Len(Out) /\ Len(Out) \in Nat
      /\ \A k \in DOMAIN Out : Out'[k] = Out[k]
      /\ Out'[Len(Out) + 1] = a
  BY <1>4, <1>5
<1>7. OutPlaces' = OutPlaces \cup {a.to}
  BY <1>6 DEF OutPlaces
<1> QED BY <1>3, <1>5, <1>6, <1>7

(* A task goes on, and queues nothing. *)
LEMMA ServerTaskMoves ==
  ASSUME ServerInv, NEW i \in DOMAIN input, task[i] \notin {"none", "done"}, NEW v,
         task' = [task EXCEPT ![i] = v],
         DOMAIN reply' = DOMAIN reply, \A j \in DOMAIN input \ {i} : reply'[j] = reply[j],
         v = "sending" => reply'[i].to = i /\ Due(i),
         UNCHANGED <<input, next, reader, inline, outgoing, writer, sent>>
  PROVE  ServerInv'
<1>1. Out' = Out /\ OutPlaces' = OutPlaces /\ \A j : Due(j)' = Due(j)
  BY DEF Out, OutPlaces, Due, Server!WantsReply
<1>2. /\ task'[i] = v /\ DOMAIN task' = DOMAIN input
      /\ \A j \in DOMAIN input \ {i} : task'[j] = task[j]
  BY DEF ServerInv, ServerShape
<1>3. i < next /\ i \notin OutPlaces /\ (reader = "answering" => inline.to # i)
  BY OutIs DEF ServerInv, ServerShape, OutIsDue, InlineIsLast
<1>4. ServerShape'
  BY <1>2, <1>3 DEF ServerInv, ServerShape, LinesOf
<1>5. OutOnce' /\ OutIsDue'
  BY <1>1, <1>2, <1>3 DEF ServerInv, OutOnce, OutIsDue
<1>6. TasksHoldTheirs'
  BY <1>1, <1>2 DEF ServerInv, TasksHoldTheirs
<1>7. InlineIsLast'
  BY <1>1, <1>2, <1>3 DEF ServerInv, InlineIsLast
<1>8. HandshakesFirst'
  BY <1>1 DEF ServerInv, HandshakesFirst, Handshake, Server!WantsReply, Server!Method
<1> QED BY <1>4, <1>5, <1>6, <1>7, <1>8 DEF ServerInv

(* An answer is queued: nothing was said to that request, and no earlier handshake waits. *)
LEMMA ServerQueues ==
  ASSUME ServerInv, NEW a, a.to \in DOMAIN input, a.to < next, a.to \notin OutPlaces, Due(a.to),
         outgoing' = Append(outgoing, a), UNCHANGED <<input, next, writer, sent>>,
         DOMAIN task' = DOMAIN task, task'[a.to] \in {"none", "done"},
         \A j \in DOMAIN input \ {a.to} : task'[j] = task[j],
         \A h \in 1 .. (next - 1) : Handshake(h) /\ h < a.to => h \in OutPlaces
  PROVE  /\ OutOnce' /\ OutIsDue' /\ OutPlaces' = OutPlaces \cup {a.to}
         /\ \E S : sent' \in Seq(S) /\ outgoing' \in Seq(S)
         /\ \A h \in 1 .. (next - 1) : Handshake(h) =>
              \A l \in DOMAIN Out' : h < Out'[l].to => \E k \in 1 .. (l - 1) : Out'[k].to = h
<1>1. ServerShape
  BY DEF ServerInv
<1>2. /\ \E S : sent' \in Seq(S) /\ outgoing' \in Seq(S)
      /\ DOMAIN Out' = DOMAIN Out \cup {Len(Out) + 1}
      /\ DOMAIN Out = 1 .. Len(Out) /\ Len(Out) \in Nat
      /\ \A k \in DOMAIN Out : Out'[k] = Out[k]
      /\ Out'[Len(Out) + 1] = a
      /\ OutPlaces' = OutPlaces \cup {a.to}
  BY <1>1, OutGrows
<1>3. \A j : Due(j)' = Due(j)
  BY DEF Due, Server!WantsReply
<1>4. \A k \in DOMAIN Out : Out[k].to # a.to
  BY DEF OutPlaces
<1>5. OutOnce'
  BY <1>2, <1>4 DEF ServerInv, OutOnce
<1>6. OutIsDue'
  BY <1>2, <1>3 DEF ServerInv, OutIsDue
<1>7. ASSUME NEW h \in 1 .. (next - 1), Handshake(h), NEW l \in DOMAIN Out', h < Out'[l].to
      PROVE  \E k \in 1 .. (l - 1) : Out'[k].to = h
  <2>1. CASE l \in DOMAIN Out
    <3>1. PICK k \in 1 .. (l - 1) : Out[k].to = h
      BY <1>2, <1>7, <2>1 DEF ServerInv, HandshakesFirst
    <3>2. k \in DOMAIN Out
      BY <1>2, <2>1
    <3> QED BY <1>2, <3>1, <3>2
  <2>2. CASE l = Len(Out) + 1
    <3>1. h \in OutPlaces
      BY <1>2, <1>7, <2>2
    <3>2. PICK k \in DOMAIN Out : Out[k].to = h
      BY <3>1 DEF OutPlaces
    <3>3. k \in 1 .. (l - 1)
      BY <1>2, <2>2, <3>2
    <3> QED BY <1>2, <3>2, <3>3
  <2> QED BY <1>2, <1>7, <2>1, <2>2
<1> QED BY <1>2, <1>5, <1>6, <1>7

LEMMA ServerSends ==
  ASSUME ServerInv, NEW i \in DOMAIN input, Server!SendAnswer(i)
  PROVE  ServerInv'
<1> USE DEF Server!SendAnswer
<1>1. /\ task[i] = "sending" /\ reply[i].to = i /\ Due(i) /\ i \notin OutPlaces /\ i < next
      /\ (reader = "answering" => inline.to # i /\ i < inline.to)
  BY OutIs DEF ServerInv, ServerShape, TasksHoldTheirs, OutIsDue, InlineIsLast
<1>2. /\ DOMAIN task' = DOMAIN task /\ task'[i] = "done"
      /\ \A j \in DOMAIN input \ {i} : task'[j] = task[j] /\ reply'[j] = reply[j]
      /\ DOMAIN reply' = DOMAIN reply
  BY DEF ServerInv, ServerShape
<1>3. CASE writer = "gone" /\ UNCHANGED outgoing
  <2>1. DOMAIN reply' = DOMAIN reply /\ task' = [task EXCEPT ![i] = "done"]
    BY <1>2
  <2> QED BY <1>1, <1>2, <1>3, <2>1, ServerTaskMoves
<1>4. CASE writer = "up" /\ outgoing' = Append(outgoing, reply[i])
  <2>1. \A h \in 1 .. (next - 1) : Handshake(h) /\ h < i => h \in OutPlaces
    BY <1>1, <1>4, OutIs DEF ServerInv, HandshakesFirst
  <2>2. /\ OutOnce' /\ OutIsDue' /\ OutPlaces' = OutPlaces \cup {i}
        /\ \E S : sent' \in Seq(S) /\ outgoing' \in Seq(S)
        /\ \A h \in 1 .. (next - 1) : Handshake(h) =>
             \A l \in DOMAIN Out' : h < Out'[l].to => \E k \in 1 .. (l - 1) : Out'[k].to = h
    BY <1>1, <1>2, <1>4, <2>1, ServerQueues
  <2>3. ServerShape'
    BY <1>1, <1>2, <2>2, OutIs DEF ServerInv, ServerShape, LinesOf
  <2>4. \A j : Due(j)' = Due(j)
    BY DEF Due, Server!WantsReply
  <2>5. TasksHoldTheirs'
    BY <1>2, <2>4 DEF ServerInv, TasksHoldTheirs
  <2>6. InlineIsLast'
    BY <1>1, <1>2, <2>2, <2>4 DEF ServerInv, InlineIsLast
  <2>7. HandshakesFirst'
    BY <2>2 DEF ServerInv, HandshakesFirst, Handshake, Server!WantsReply, Server!Method
  <2> QED BY <2>2, <2>3, <2>5, <2>6, <2>7 DEF ServerInv
<1> QED BY <1>3, <1>4 DEF Server!Queue

LEMMA ServerAnswersInline ==
  ASSUME ServerInv, Server!AnswerInline
  PROVE  ServerInv'
<1> USE DEF Server!AnswerInline
<1> DEFINE m == inline.to
<1>1. /\ reader = "answering" /\ m = next - 1 /\ m \in DOMAIN input /\ m \notin OutPlaces
      /\ task[m] \in {"none", "done"} /\ Due(m)
  BY DEF ServerInv, InlineIsLast
<1>2. \A j : Due(j)' = Due(j)
  BY DEF Due, Server!WantsReply
<1>3. reader' = "reading" /\ TasksHoldTheirs' /\ InlineIsLast'
  BY <1>2 DEF ServerInv, TasksHoldTheirs, InlineIsLast
<1>4. CASE writer = "gone" /\ UNCHANGED outgoing
  <2>1. Out' = Out /\ OutPlaces' = OutPlaces
    BY <1>4 DEF Out, OutPlaces
  <2>2. ServerShape' /\ OutOnce' /\ OutIsDue'
    BY <1>2, <1>4, <2>1 DEF ServerInv, ServerShape, OutOnce, OutIsDue, LinesOf
  <2>3. HandshakesFirst'
    BY <1>4, <2>1 DEF ServerInv, HandshakesFirst, Handshake, Server!WantsReply, Server!Method
  <2> QED BY <1>3, <2>2, <2>3 DEF ServerInv
<1>5. CASE writer = "up" /\ outgoing' = Append(outgoing, inline)
  <2>1. m < next /\ \A h \in 1 .. (next - 1) : Handshake(h) /\ h < m => h \in OutPlaces
    BY <1>1, <1>5, OutIs DEF ServerInv, HandshakesFirst
  <2>2. /\ OutOnce' /\ OutIsDue' /\ OutPlaces' = OutPlaces \cup {m}
        /\ \E S : sent' \in Seq(S) /\ outgoing' \in Seq(S)
        /\ \A h \in 1 .. (next - 1) : Handshake(h) =>
             \A l \in DOMAIN Out' : h < Out'[l].to => \E k \in 1 .. (l - 1) : Out'[k].to = h
    BY <1>1, <1>5, <2>1, ServerQueues
  <2>3. ServerShape'
    BY <2>2 DEF ServerInv, ServerShape, LinesOf
  <2>4. HandshakesFirst'
    BY <2>2 DEF ServerInv, HandshakesFirst, Handshake, Server!WantsReply, Server!Method
  <2> QED BY <1>3, <2>2, <2>3, <2>4 DEF ServerInv
<1> QED BY <1>4, <1>5 DEF Server!Queue

(* What the answers are made of stays. *)
LEMMA ServerUnmoved ==
  ASSUME ServerInv,
         UNCHANGED <<input, next, reader, inline, task, reply, outgoing, writer, sent>>
  PROVE  ServerInv'
<1>1. ServerShape'
  BY DEF ServerInv, ServerShape, LinesOf
<1>2. Out' = Out /\ OutPlaces' = OutPlaces
  BY DEF Out, OutPlaces
<1>3. (\A j : Due(j)' = Due(j)) /\ (\A j : Handshake(j)' <=> Handshake(j))
  BY DEF Due, Handshake, Server!WantsReply, Server!Method
<1>4. OutOnce' /\ OutIsDue' /\ TasksHoldTheirs' /\ InlineIsLast' /\ HandshakesFirst'
  BY <1>2, <1>3 DEF ServerInv, OutOnce, OutIsDue, TasksHoldTheirs, InlineIsLast, HandshakesFirst
<1> QED BY <1>1, <1>4 DEF ServerInv

(* The lines that are read. *)
LEMMA ServerReads ==
  ASSUME ServerInv, Server!Reads("blank") \/ Server!Reads("garbage") \/ Server!Reads("request"),
         UNCHANGED <<input, outgoing, sent, writer, reply>>
  PROVE  /\ reader = "reading" /\ next \in DOMAIN input /\ next \notin OutPlaces
         /\ next' = next + 1 /\ next = next' - 1
         /\ Out' = Out /\ OutPlaces' = OutPlaces /\ OutOnce'
         /\ \A j : Due(j)' = Due(j)
         /\ \A j : Handshake(j)' <=> Handshake(j)
<1>1. Out' = Out /\ OutPlaces' = OutPlaces
  BY DEF Out, OutPlaces
<1>2. next \in DOMAIN input /\ next \notin OutPlaces /\ reader = "reading" /\ next' = next + 1
  BY OutIs DEF ServerInv, ServerShape, OutIsDue, Server!Reads
<1>3. (\A j : Due(j)' = Due(j)) /\ (\A j : Handshake(j)' <=> Handshake(j))
  BY DEF Due, Handshake, Server!WantsReply, Server!Method
<1>4. next = next' - 1
  BY <1>2, OutIs DEF ServerInv
<1>5. OutOnce'
  BY <1>1 DEF ServerInv, OutOnce
<1> QED BY <1>1, <1>2, <1>3, <1>4, <1>5

(* A line is read; the state of its request is v, and what it queues inline is about it. *)
LEMMA ServerReadsOn ==
  ASSUME ServerInv, Server!Reads("blank") \/ Server!Reads("garbage") \/ Server!Reads("request"),
         UNCHANGED <<input, outgoing, sent, writer, reply>>,
         NEW v \in {"none", "done", "waiting"}, DOMAIN task' = DOMAIN task, task'[next] = v,
         \A j \in DOMAIN input \ {next} : task'[j] = task[j],
         \/ UNCHANGED <<reader, inline>> /\ ~Handshake(next)
         \/ reader' = "answering" /\ inline'.to = next /\ Due(next) /\ v \in {"none", "done"}
  PROVE  ServerInv'
<1>1. /\ reader = "reading" /\ next \in DOMAIN input /\ next \notin OutPlaces
      /\ next' = next + 1 /\ next = next' - 1
      /\ Out' = Out /\ OutPlaces' = OutPlaces /\ OutOnce'
      /\ \A j : Due(j)' = Due(j)
      /\ \A j : Handshake(j)' <=> Handshake(j)
  BY ServerReads
<1>2. /\ Len(input) \in Nat /\ next \in Nat /\ DOMAIN input = 1 .. Len(input)
      /\ DOMAIN task' = DOMAIN input /\ task'[next] = v
      /\ \A j \in DOMAIN input \ {next} : task'[j] = task[j]
  BY <1>1, OutIs DEF ServerInv, ServerShape
<1>3. ServerShape'
  <2>1. next' \in 1 .. (Len(input) + 1) /\ DOMAIN reply' = DOMAIN input
    BY <1>1, <1>2 DEF ServerInv, ServerShape
  <2>2. \A j \in DOMAIN input : j >= next' => task'[j] = "none"
    BY <1>1, <1>2 DEF ServerInv, ServerShape
  <2> QED BY <1>2, <2>1, <2>2 DEF ServerInv, ServerShape, LinesOf
<1>4. OutIsDue'
  BY <1>1, <1>2 DEF ServerInv, OutIsDue
<1>5. TasksHoldTheirs'
  BY <1>1, <1>2 DEF ServerInv, TasksHoldTheirs
<1>6. InlineIsLast'
  BY <1>1, <1>2 DEF ServerInv, InlineIsLast
<1>7. ASSUME NEW h \in 1 .. (next' - 1), Handshake(h)
      PROVE  /\ writer = "up" => h \in OutPlaces \/ (reader' = "answering" /\ inline'.to = h)
             /\ \A l \in DOMAIN Out : h < Out[l].to => \E k \in 1 .. (l - 1) : Out[k].to = h
  <2>1. CASE h = next
    <3>1. \A l \in DOMAIN Out : Out[l].to \in OutPlaces
      BY DEF OutPlaces
    <3>2. \A l \in DOMAIN Out : ~(h < Out[l].to)
      BY <1>2, <2>1, <3>1 DEF ServerInv, OutIsDue
    <3> QED BY <1>7, <2>1, <3>2
  <2>2. CASE h # next
    <3>1. h \in 1 .. (next - 1)
      BY <1>1, <1>2, <2>2
    <3> QED BY <1>1, <1>7, <3>1 DEF ServerInv, HandshakesFirst
  <2> QED BY <2>1, <2>2
<1>8. HandshakesFirst'
  BY <1>1, <1>7 DEF HandshakesFirst
<1> QED BY <1>1, <1>3, <1>4, <1>5, <1>6, <1>8 DEF ServerInv

LEMMA ServerReaderSteps ==
  ASSUME ServerInv,
         \/ Server!ReadBlank \/ Server!ReadGarbage \/ Server!ReadInitialize \/ Server!ReadRequest
  PROVE  ServerInv'
<1> USE DEF Server!connVars, Server!repoVars
<1>1. ASSUME Server!ReadBlank PROVE ServerInv'
  <2>1. task[next] = "none" /\ ~Handshake(next)
    BY <1>1, OutIs
       DEF ServerInv, ServerShape, Server!ReadBlank, Server!Reads, Handshake, Server!WantsReply
  <2> QED BY <1>1, <2>1, ServerReadsOn DEF Server!ReadBlank
<1>2. ASSUME Server!ReadGarbage PROVE ServerInv'
  <2>0. Server!Reads("garbage") /\ Due(next) /\ next \in 1 .. Len(input)
    <3>1. Server!Reads("garbage")
      BY <1>2 DEF Server!ReadGarbage
    <3>2. Due(next) /\ next <= Len(input)
      BY <3>1 DEF Server!Reads, Due
    <3> QED BY <3>1, <3>2 DEF ServerInv, ServerShape
  <2>1. task[next] = "none" /\ Due(next) /\ Server!Reads("garbage")
    BY <2>0, OutIs DEF ServerInv, ServerShape
  <2>2. /\ reader' = "answering" /\ inline'.to = next
        /\ UNCHANGED <<input, outgoing, sent, writer, reply, task>>
    BY <1>2 DEF Server!ReadGarbage, Server!Reply
  <2> QED BY <2>1, <2>2, ServerReadsOn
<1>3. ASSUME Server!ReadInitialize PROVE ServerInv'
  <2>1. /\ Server!Reads("request") /\ UNCHANGED <<input, outgoing, sent, writer, reply>>
        /\ Due(next) <=> Server!WantsReply(next)
    BY <1>3 DEF Server!ReadInitialize, Server!Reads, Due
  <2>2. /\ DOMAIN task' = DOMAIN task /\ task'[next] = "done"
        /\ \A j \in DOMAIN input \ {next} : task'[j] = task[j]
    BY <1>3, <2>1, ServerReads DEF ServerInv, ServerShape, Server!ReadInitialize
  <2>3. CASE Server!WantsReply(next)
    <3>1. reader' = "answering" /\ inline'.to = next
      BY <1>3, <2>3 DEF Server!ReadInitialize, Server!PlainReply, Server!Reply
    <3> QED BY <2>1, <2>2, <2>3, <3>1, ServerReadsOn
  <2>4. CASE ~Server!WantsReply(next)
    <3>1. UNCHANGED <<reader, inline>> /\ ~Handshake(next)
      BY <1>3, <2>4 DEF Server!ReadInitialize, Handshake
    <3> QED BY <2>1, <2>2, <3>1, ServerReadsOn
  <2> QED BY <2>3, <2>4
<1>4. ASSUME Server!ReadRequest PROVE ServerInv'
  <2>1. /\ Server!Reads("request")
        /\ UNCHANGED <<input, outgoing, sent, writer, reply, reader, inline>>
    BY <1>4 DEF Server!ReadRequest
  <2>2. /\ DOMAIN task' = DOMAIN task /\ task'[next] = "waiting"
        /\ \A j \in DOMAIN input \ {next} : task'[j] = task[j]
    BY <1>4, <2>1, ServerReads DEF ServerInv, ServerShape, Server!ReadRequest
  <2>3. ~Handshake(next)
    BY <1>4 DEF Server!ReadRequest, Handshake
  <2> QED BY <2>1, <2>2, <2>3, ServerReadsOn
<1> QED BY <1>1, <1>2, <1>3, <1>4

(* The reader ends: its client has closed its end, or a read fails and the tasks are dropped. *)
LEMMA ServerReaderEnds ==
  ASSUME ServerInv, Server!Eof \/ Server!Drained \/ Server!ReadFails
  PROVE  ServerInv'
<1>1. /\ reader \in {"reading", "draining"} /\ reader' \in {"draining", "gone"}
      /\ UNCHANGED <<input, next, outgoing, sent, writer, reply>>
      /\ \/ task' = task
         \/ task' = [i \in DOMAIN input |->
                       IF task[i] \in {"none", "done"} THEN task[i] ELSE "aborted"]
  BY DEF Server!Eof, Server!Drained, Server!ReadFails
<1>2. /\ DOMAIN task' = DOMAIN input
      /\ \A i \in DOMAIN input :
           \/ task'[i] = task[i]
           \/ task[i] \notin {"none", "done"} /\ task'[i] = "aborted"
  BY <1>1 DEF ServerInv, ServerShape
<1>3. /\ Out' = Out /\ OutPlaces' = OutPlaces
      /\ \A j : Due(j)' = Due(j)
      /\ \A j : Handshake(j)' <=> Handshake(j)
  BY <1>1 DEF Out, OutPlaces, Due, Handshake, Server!WantsReply, Server!Method
<1>4. ServerShape'
  BY <1>1, <1>2 DEF ServerInv, ServerShape, LinesOf
<1>5. OutOnce' /\ OutIsDue'
  BY <1>1, <1>2, <1>3 DEF ServerInv, OutOnce, OutIsDue
<1>6. TasksHoldTheirs' /\ InlineIsLast'
  BY <1>1, <1>2, <1>3 DEF ServerInv, TasksHoldTheirs, InlineIsLast
<1>7. HandshakesFirst'
  BY <1>1, <1>3 DEF ServerInv, HandshakesFirst
<1> QED BY <1>4, <1>5, <1>6, <1>7 DEF ServerInv

(* What a tool or a method answers goes to the request it was called for. *)
LEMMA ServerAnswers ==
  ASSUME ServerInv, NEW i \in DOMAIN input, task[i] \notin {"none", "done"},
         NEW a, a.to = i, Server!Answered(i, a),
         UNCHANGED <<input, next, reader, inline, outgoing, writer, sent>>
  PROVE  ServerInv'
<1> DEFINE v == IF Server!WantsReply(i) THEN "sending" ELSE "done"
<1>1. task' = [task EXCEPT ![i] = v]
  BY DEF Server!Answered
<1>2. DOMAIN reply' = DOMAIN reply /\ \A j \in DOMAIN input \ {i} : reply'[j] = reply[j]
  BY DEF Server!Answered, ServerInv, ServerShape
<1>3. v = "sending" => reply'[i].to = i /\ Due(i)
  BY DEF Server!Answered, ServerInv, ServerShape, Due
<1> HIDE DEF v
<1> QED BY <1>1, <1>2, <1>3, ServerTaskMoves

LEMMA ServerTaskSteps ==
  ASSUME ServerInv, NEW i \in DOMAIN input,
         Server!Acquire(i) \/ Server!Task(i) \/ Server!CloneFails(i)
  PROVE  ServerInv'
<1> DEFINE Rest == UNCHANGED <<input, next, reader, inline, outgoing, writer, sent>>
<1>1. \A r : Server!ToolReply(i, r).to = i
  BY DEF Server!ToolReply, Server!Reply
<1>2. Server!PlainReply(i).to = i
  BY DEF Server!PlainReply, Server!Reply
<1> USE DEF Server!connVars, Server!repoVars, Server!Running, Server!Cloning
<1>3. CASE Server!HandlePlain(i)
  <2>1. task[i] = "running" /\ Rest /\ Server!Answered(i, Server!PlainReply(i))
    BY <1>3 DEF Server!HandlePlain
  <2> QED BY <1>2, <2>1, ServerAnswers
<1>4. CASE \/ Server!CallRejected(i) \/ Server!CallRead(i) \/ Server!CallDiscover(i)
          \/ Server!ScanEnds(i)
          \/ Server!ClonePresent(i) \/ Server!CloneRefused(i) \/ Server!CloneEnds(i)
          \/ Server!CloneFails(i) \/ Server!CloneUnparseable(i)
  <2>1. task[i] \notin {"none", "done"} /\ Rest /\ \E r : Server!Answered(i, Server!ToolReply(i, r))
    <3>1. CASE Server!CallRejected(i)
      BY <3>1 DEF Server!CallRejected
    <3>2. CASE Server!CallRead(i)
      BY <3>2 DEF Server!CallRead
    <3>3. CASE Server!CallDiscover(i)
      BY <3>3 DEF Server!CallDiscover
    <3>4. CASE Server!ScanEnds(i)
      BY <3>4 DEF Server!ScanEnds
    <3>5. CASE Server!ClonePresent(i)
      BY <3>5 DEF Server!ClonePresent
    <3>6. CASE Server!CloneRefused(i)
      BY <3>6 DEF Server!CloneRefused
    <3>7. CASE Server!CloneEnds(i)
      BY <3>7 DEF Server!CloneEnds
    <3>8. CASE Server!CloneFails(i)
      BY <3>8 DEF Server!CloneFails
    <3>9. CASE Server!CloneUnparseable(i)
      BY <3>9 DEF Server!CloneUnparseable
    <3> QED BY <1>4, <3>1, <3>2, <3>3, <3>4, <3>5, <3>6, <3>7, <3>8, <3>9
  <2> QED BY <1>1, <2>1, ServerAnswers
<1>5. CASE Server!Acquire(i) \/ Server!CallScan(i) \/ Server!CloneBegins(i) \/ Server!GitStarts(i)
  <2>1. /\ task[i] \notin {"none", "done"} /\ Rest /\ UNCHANGED reply
        /\ \E v \in {"running", "scanning", "cloning", "fetching"} : task' = [task EXCEPT ![i] = v]
    BY <1>5 DEF Server!Acquire, Server!CallScan, Server!CloneBegins, Server!GitStarts
  <2> QED BY <2>1, ServerTaskMoves
<1>6. CASE Server!ScanRegisters(i)
  <2>1. Rest /\ UNCHANGED <<task, reply>>
    BY <1>6 DEF Server!ScanRegisters
  <2> QED BY <2>1, ServerUnmoved
<1>7. CASE Server!SendAnswer(i)
  BY <1>7, ServerSends
<1> QED BY <1>3, <1>4, <1>5, <1>6, <1>7 DEF Server!Task

LEMMA ServerWrites ==
  ASSUME ServerInv, Server!Write
  PROVE  ServerInv'
<1> USE DEF Server!Write
<1>1. Out' = Out /\ \E S : sent' \in Seq(S) /\ outgoing' \in Seq(S)
  <2>1. PICK S : sent \in Seq(S) /\ outgoing \in Seq(S)
    BY DEF ServerInv, ServerShape
  <2>2. /\ outgoing # << >> /\ sent' = Append(sent, Head(outgoing)) /\ outgoing' = Tail(outgoing)
        /\ sent' \in Seq(S) /\ outgoing' \in Seq(S)
    BY <2>1
  <2>3. sent' \o outgoing' = sent \o outgoing
    BY <2>1, <2>2
  <2> QED BY <2>2, <2>3 DEF Out
<1>2. OutPlaces' = OutPlaces
  BY <1>1 DEF OutPlaces
<1>3. (\A j : Due(j)' = Due(j)) /\ (\A j : Handshake(j)' <=> Handshake(j))
  BY DEF Due, Handshake, Server!WantsReply, Server!Method
<1>4. ServerShape'
  BY <1>1 DEF ServerInv, ServerShape, LinesOf
<1>5. OutOnce' /\ OutIsDue' /\ TasksHoldTheirs' /\ InlineIsLast'
  BY <1>1, <1>2, <1>3 DEF ServerInv, OutOnce, OutIsDue, TasksHoldTheirs, InlineIsLast
<1>6. HandshakesFirst'
  BY <1>1, <1>2, <1>3 DEF ServerInv, HandshakesFirst
<1> QED BY <1>4, <1>5, <1>6 DEF ServerInv

LEMMA ServerWriteFails ==
  ASSUME ServerInv, Server!WriteFails
  PROVE  ServerInv'
<1> USE DEF Server!WriteFails
<1>1. /\ \E S : sent' \in Seq(S) /\ outgoing' \in Seq(S)
      /\ Out' = sent /\ DOMAIN Out' \subseteq DOMAIN Out
      /\ \A k \in DOMAIN Out' : Out'[k] = Out[k] /\ \A l \in 1 .. (k - 1) : l \in DOMAIN Out'
  <2>1. PICK S : sent \in Seq(S) /\ outgoing \in Seq(S)
    BY DEF ServerInv, ServerShape
  <2>2. sent' \in Seq(S) /\ outgoing' \in Seq(S) /\ Out' = sent
    BY <2>1 DEF Out
  <2> QED BY <2>1, <2>2, OutIs DEF ServerInv
<1>2. OutPlaces' \subseteq OutPlaces
  BY <1>1 DEF OutPlaces
<1>3. (\A j : Due(j)' = Due(j)) /\ (\A j : Handshake(j)' <=> Handshake(j))
  BY DEF Due, Handshake, Server!WantsReply, Server!Method
<1>4. ServerShape'
  BY <1>1 DEF ServerInv, ServerShape, LinesOf
<1>5. OutOnce' /\ OutIsDue' /\ TasksHoldTheirs' /\ InlineIsLast'
  BY <1>1, <1>2, <1>3 DEF ServerInv, OutOnce, OutIsDue, TasksHoldTheirs, InlineIsLast
<1>6. HandshakesFirst'
  BY <1>1, <1>3 DEF ServerInv, HandshakesFirst
<1> QED BY <1>4, <1>5, <1>6 DEF ServerInv

LEMMA ServerStep ==
  ASSUME ServerInv, [Server!Next]_(Server!vars)
  PROVE  ServerInv'
<1>1. CASE Server!Next
  BY <1>1, ServerReaderSteps, ServerReaderEnds, ServerAnswersInline, ServerTaskSteps,
     ServerWrites, ServerWriteFails
     DEF Server!Next, Server!Step, Server!Reader
<1>2. CASE UNCHANGED Server!vars
  BY <1>2, ServerUnmoved DEF Server!vars
<1> QED BY <1>1, <1>2

LEMMA ServerAnswersOnce ==
  ASSUME ServerInv
  PROVE  AnsweredOnce
<1>1. /\ DOMAIN sent = 1 .. Len(sent) /\ DOMAIN sent \subseteq DOMAIN Out
      /\ \A k \in DOMAIN sent : Out[k] = sent[k] /\ sent[k].to \in OutPlaces
      /\ \A l \in DOMAIN sent : \A k \in 1 .. (l - 1) : k \in DOMAIN sent
  BY OutIs DEF ServerInv, OutPlaces
<1>2. \A k, l \in DOMAIN sent : sent[k].to = sent[l].to => k = l
  BY <1>1 DEF ServerInv, OutOnce
<1>3. \A k \in DOMAIN sent : input[sent[k].to].form = "garbage" \/ WantsReply(sent[k].to)
  BY <1>1 DEF ServerInv, OutIsDue, Due, Server!WantsReply, WantsReply
<1>4. ASSUME NEW i \in DOMAIN input, NEW l \in DOMAIN sent, i < sent[l].to,
             WantsReply(i), Method(i) = "initialize"
      PROVE  i \in Places
  <2>0. Handshake(i)
    BY <1>4 DEF Handshake, WantsReply, Method, Server!WantsReply, Server!Method
  <2>1. Handshake(i) /\ sent[l].to \in DOMAIN input /\ sent[l].to < next
    BY <1>1, <2>0 DEF ServerInv, OutIsDue
  <2>2. i \in 1 .. (next - 1)
    BY <1>4, <2>1, OutIs DEF ServerInv
  <2>3. \E k \in 1 .. (l - 1) : Out[k].to = i
    BY <1>1, <1>4, <2>1, <2>2 DEF ServerInv, HandshakesFirst
  <2> QED BY <1>1, <2>3 DEF Places
<1> QED BY <1>2, <1>3, <1>4 DEF AnsweredOnce

(* Whatever requests come and however their tasks, the reader and the writer
   interleave, fail or end, no request is answered twice, none that wants no
   answer is answered, and what was read after a handshake is answered after it
   (server.rs:7-9, 112-114). *)
THEOREM RequestsAnsweredOnce ==
  ASSUME Server!HistoriesAssumption
  PROVE  Server!Spec => []AnsweredOnce
<1>1. Server!Init => ServerInv
  BY ServerInit
<1>2. ServerInv /\ [Server!Next]_(Server!vars) => ServerInv'
  BY ServerStep
<1>3. ServerInv => AnsweredOnce
  BY ServerAnswersOnce
<1> QED BY <1>1, <1>2, <1>3, PTL DEF Server!Spec

-----------------------------------------------------------------------------
(* What a search finds is the beginning of all there is to find.             *)

LEMMA LeastOf ==
  ASSUME NEW S \in SUBSET Nat, S # {}
  PROVE  \E m \in S : \A n \in S : m <= n
<1> DEFINE R == {ss \in Nat \X Nat : ss[1] < ss[2]}
<1>1. OpToRel(<, Nat) = R
  BY Zenon DEF OpToRel
<1>2. IsWellFoundedOn(R, Nat)
  BY <1>1, NatLessThanWellFounded, Zenon
<1>3. \A a, b \in Nat : a < b => <<a, b>> \in R
  OBVIOUS
<1> HIDE DEF R
<1>4. PICK x \in S : \A y \in S : <<y, x>> \notin R
  BY <1>2, WFMin, Zenon
<1>5. x \in Nat /\ \A y \in S : y \in Nat /\ ~(y < x)
  BY <1>3, <1>4
<1> QED BY <1>5

(* The sequences that FlattenSeq puts together, each longer than the one before. *)
Flats(f, parts, n) == f = [i \in 1..n |-> IF i = 1 THEN parts[i] ELSE f[i - 1] \o parts[i]]

LEMMA FlatsExist ==
  ASSUME NEW parts, NEW n \in Nat
  PROVE  \E f : Flats(f, parts, n)
<1> DEFINE Bad == {m \in Nat : ~\E f : Flats(f, parts, m)}
<1> SUFFICES ASSUME Bad # {} PROVE FALSE
  OBVIOUS
<1>1. PICK m \in Bad : \A k \in Bad : m <= k
  <2>1. Bad \in SUBSET Nat
    OBVIOUS
  <2> HIDE DEF Bad
  <2> QED BY <2>1, LeastOf
<1>2. m \in Nat /\ ~\E f : Flats(f, parts, m)
  OBVIOUS
<1>3. m # 0
  <2>1. ASSUME m = 0 PROVE FALSE
    <3> DEFINE f == [i \in 1..0 |-> i]
    <3>1. Flats(f, parts, 0)
      BY DEF Flats
    <3> QED BY <1>2, <2>1, <3>1
  <2> QED BY <2>1
<1>4. PICK f : Flats(f, parts, m - 1)
  <2>1. m - 1 \in Nat /\ ~(m <= m - 1)
    BY <1>2, <1>3
  <2> QED BY <1>1, <2>1
<1> DEFINE g == [i \in 1..m |->
                  IF i < m THEN f[i] ELSE IF m = 1 THEN parts[m] ELSE f[m - 1] \o parts[m]]
<1>5. \A i \in 1..m : g[i] = IF i = 1 THEN parts[i] ELSE g[i - 1] \o parts[i]
  <2> SUFFICES ASSUME NEW i \in 1..m
               PROVE  g[i] = IF i = 1 THEN parts[i] ELSE g[i - 1] \o parts[i]
    OBVIOUS
  <2>1. CASE i < m
    <3>1. i \in 1..(m - 1) /\ g[i] = f[i] /\ (i # 1 => g[i - 1] = f[i - 1])
      BY <1>2, <2>1
    <3>2. f[i] = IF i = 1 THEN parts[i] ELSE f[i - 1] \o parts[i]
      BY <1>4, <3>1 DEF Flats
    <3> QED BY <3>1, <3>2
  <2>2. CASE i = m
    BY <1>2, <2>2
  <2> QED BY <1>2, <2>1, <2>2
<1>6. Flats(g, parts, m)
  <2>1. g = [i \in 1..m |-> g[i]]
    OBVIOUS
  <2> HIDE DEF g
  <2>2. [i \in 1..m |-> g[i]] = [i \in 1..m |-> IF i = 1 THEN parts[i] ELSE g[i - 1] \o parts[i]]
    BY <1>5
  <2> QED BY <2>1, <2>2 DEF Flats
<1> QED BY <1>2, <1>6

LEMMA FlattenIs ==
  ASSUME NEW parts, Len(parts) \in Nat \ {0}
  PROVE  \E f : Flats(f, parts, Len(parts)) /\ FlattenSeq(parts) = f[Len(parts)]
<1> DEFINE f == CHOOSE g : Flats(g, parts, Len(parts))
<1>1. Flats(f, parts, Len(parts))
  BY FlatsExist
<1>2. FlattenSeq(parts) = f[Len(parts)]
  BY Zenon DEF FlattenSeq, Flats
<1> QED BY <1>1, <1>2

LEMMA FlatsAre ==
  ASSUME NEW S, NEW parts \in Seq(Seq(S)), Len(parts) # 0
  PROVE  \E f : /\ FlattenSeq(parts) = f[Len(parts)]
                /\ \A i \in 1..Len(parts) :
                     f[i] \in Seq(S) /\ f[i] = IF i = 1 THEN parts[i] ELSE f[i - 1] \o parts[i]
<1>1. Len(parts) \in Nat \ {0} /\ \A i \in 1..Len(parts) : parts[i] \in Seq(S)
  OBVIOUS
<1>2. PICK f : Flats(f, parts, Len(parts)) /\ FlattenSeq(parts) = f[Len(parts)]
  BY <1>1, FlattenIs
<1>3. \A i \in 1..Len(parts) : f[i] = IF i = 1 THEN parts[i] ELSE f[i - 1] \o parts[i]
  BY <1>2 DEF Flats
<1>4. \A i \in 1..Len(parts) : f[i] \in Seq(S)
  <2> DEFINE Bad == {i \in 1..Len(parts) : f[i] \notin Seq(S)}
  <2> SUFFICES ASSUME Bad # {} PROVE FALSE
    OBVIOUS
  <2>1. PICK m \in Bad : \A k \in Bad : m <= k
    <3>1. Bad \in SUBSET Nat
      OBVIOUS
    <3> HIDE DEF Bad
    <3> QED BY <3>1, LeastOf
  <2>2. m \in 1..Len(parts) /\ f[m] \notin Seq(S) /\ parts[m] \in Seq(S)
    BY <1>1
  <2>3. m # 1
    BY <1>3, <2>2
  <2>4. m - 1 \in 1..Len(parts) /\ ~(m <= m - 1)
    BY ONLY <1>1, <2>2, <2>3
  <2>5. f[m - 1] \in Seq(S)
    BY <2>1, <2>4
  <2> QED BY <1>3, <2>2, <2>3, <2>5, ConcatProperties
<1> QED BY <1>2, <1>3, <1>4

LEMMA FlatType ==
  ASSUME NEW S, NEW parts \in Seq(Seq(S))
  PROVE  FlattenSeq(parts) \in Seq(S)
<1>1. CASE Len(parts) = 0
  <2>1. FlattenSeq(parts) = <<>>
    BY <1>1 DEF FlattenSeq
  <2> QED BY <2>1
<1>2. CASE Len(parts) # 0
  <2>1. Len(parts) \in 1..Len(parts)
    BY <1>2
  <2> QED BY <1>2, <2>1, FlatsAre
<1> QED BY <1>1, <1>2

Begins(s, t) == Len(s) <= Len(t) /\ \A i \in 1..Len(s) : s[i] = t[i]

LEMMA BeginsIsPrefix ==
  ASSUME NEW S, NEW s \in Seq(S), NEW t \in Seq(S), Begins(s, t)
  PROVE  IsPrefix(s, t)
BY DEF Begins, IsPrefix

(* A search that has seen the matches of `flat`. *)
Seen(S, acc, flat, max) ==
  /\ acc.matches \in Seq(S) /\ Begins(acc.matches, flat) /\ Len(acc.matches) <= max
  /\ ~acc.truncated => acc.matches = flat /\ Len(flat) < max

LEMMA TakenIs ==
  ASSUME NEW S, NEW found \in Seq(S), NEW hits \in Seq(S), NEW max \in Nat, Len(found) < max
  PROVE  /\ Taken(found, hits, max) \in Seq(S)
         /\ Begins(Taken(found, hits, max), hits)
         /\ Len(found) + Len(Taken(found, hits, max)) <= max
         /\ Len(found) + Len(Taken(found, hits, max)) < max => Taken(found, hits, max) = hits
<1> DEFINE room == max - Len(found)
           n == IF Len(hits) < room THEN Len(hits) ELSE room
<1>1. Len(found) \in Nat /\ Len(hits) \in Nat
  OBVIOUS
<1>2. n \in 0..Len(hits) /\ Len(found) + n <= max /\ (Len(found) + n < max => n = Len(hits))
  BY ONLY <1>1, max \in Nat, Len(found) < max
<1>3. Taken(found, hits, max) = SubSeq(hits, 1, n)
  BY DEF Taken
<1> HIDE DEF n
<1>4. /\ SubSeq(hits, 1, n) \in Seq(S) /\ Len(SubSeq(hits, 1, n)) = n
      /\ \A i \in 1..n : SubSeq(hits, 1, n)[i] = hits[i]
  BY <1>1, <1>2
<1>5. n = Len(hits) => SubSeq(hits, 1, n) = hits
  BY <1>1
<1> QED BY <1>2, <1>3, <1>4, <1>5 DEF Begins

LEMMA BeginsConcat ==
  ASSUME NEW S, NEW a \in Seq(S), NEW b \in Seq(S), NEW c \in Seq(S)
  PROVE  /\ Begins(b, c) => Begins(a \o b, a \o c)
         /\ Begins(a, b) => Begins(a, b \o c)
BY DEF Begins

LEMMA VisitSees ==
  ASSUME NEW S, NEW args, NEW acc, NEW file, NEW flat \in Seq(S),
         Matching(Repo, args, file) \in Seq(S), MaxMatches(Repo, args) \in Nat,
         Seen(S, acc, flat, MaxMatches(Repo, args))
  PROVE  Seen(S, Visit(Repo, args, acc, file), flat \o Matching(Repo, args, file),
              MaxMatches(Repo, args))
<1> DEFINE hits == Matching(Repo, args, file)
           max == MaxMatches(Repo, args)
           taken == Taken(acc.matches, hits, max)
           found == acc.matches \o taken
<1>1. hits \in Seq(S) /\ max \in Nat /\ acc.matches \in Seq(S)
  BY DEF Seen
<1>2. CASE acc.truncated
  <2>1. Visit(Repo, args, acc, file) = acc
    BY <1>2 DEF Visit
  <2>2. Begins(acc.matches, flat \o hits)
    BY <1>1, BeginsConcat DEF Seen
  <2> QED BY <1>2, <2>1, <2>2 DEF Seen
<1>3. CASE ~acc.truncated
  <2>1. acc.matches = flat /\ Len(flat) < max
    BY <1>3 DEF Seen
  <2>2. Visit(Repo, args, acc, file) = [matches |-> found, truncated |-> Len(found) >= max]
    BY <1>3 DEF Visit
  <2> HIDE DEF hits, max
  <2>3. /\ taken \in Seq(S) /\ Begins(taken, hits) /\ Len(flat) + Len(taken) <= max
        /\ Len(flat) + Len(taken) < max => taken = hits
    BY <1>1, <2>1, TakenIs
  <2> HIDE DEF taken
  <2>4. /\ found \in Seq(S) /\ Len(found) = Len(flat) + Len(taken) /\ Len(found) \in Nat
        /\ found = flat \o taken
    BY <1>1, <2>1, <2>3
  <2>5. Begins(found, flat \o hits)
    BY <1>1, <2>3, <2>4, BeginsConcat
  <2> HIDE DEF found
  <2>6. Len(found) <= max /\ (~(Len(found) >= max) => taken = hits)
    <3>1. Len(flat) \in Nat /\ Len(taken) \in Nat
      BY <2>3
    <3> QED BY <1>1, <2>3, <2>4, <3>1
  <2>7. ~(Len(found) >= max) => found = flat \o hits /\ Len(flat \o hits) < max
    BY <1>1, <2>4, <2>6
  <2> DEFINE acc1 == Visit(Repo, args, acc, file)
             full == Len(found) >= max
  <2>8. acc1.matches = found /\ acc1.truncated = full
    <3>1. acc1 = [matches |-> found, truncated |-> full]
      BY <2>2, Zenon
    <3> HIDE DEF acc1, full
    <3> QED BY <3>1
  <2> HIDE DEF acc1
  <2>9. Seen(S, acc1, flat \o hits, max)
    BY <2>4, <2>5, <2>6, <2>7, <2>8 DEF Seen
  <2> QED BY <2>9 DEF acc1, hits, max
<1> QED BY <1>2, <1>3

Walks(f, args, n) ==
  f = [k \in 0 .. n |->
         IF k = 0 THEN [matches |-> << >>, truncated |-> MaxMatches(Repo, args) = 0]
                  ELSE Visit(Repo, args, f[k - 1], Repo.walk[k])]

LEMMA WalksExist ==
  ASSUME NEW args, NEW n \in Nat
  PROVE  \E f : Walks(f, args, n)
<1> DEFINE Bad == {m \in Nat : ~\E f : Walks(f, args, m)}
           base == [matches |-> << >>, truncated |-> MaxMatches(Repo, args) = 0]
<1> SUFFICES ASSUME Bad # {} PROVE FALSE
  OBVIOUS
<1>1. PICK m \in Bad : \A k \in Bad : m <= k
  <2>1. Bad \in SUBSET Nat
    OBVIOUS
  <2> HIDE DEF Bad
  <2> QED BY <2>1, LeastOf
<1>2. m \in Nat /\ ~\E f : Walks(f, args, m)
  OBVIOUS
<1> HIDE DEF base
<1>3. m # 0
  <2>1. ASSUME m = 0 PROVE FALSE
    <3> DEFINE f == [k \in 0 .. 0 |-> base]
    <3>1. \A k \in 0 .. 0 : base = IF k = 0 THEN base ELSE Visit(Repo, args, f[k - 1], Repo.walk[k])
      OBVIOUS
    <3>2. f = [k \in 0 .. 0 |-> IF k = 0 THEN base ELSE Visit(Repo, args, f[k - 1], Repo.walk[k])]
      BY <3>1, Zenon
    <3> HIDE DEF f
    <3>3. Walks(f, args, 0)
      BY <3>2, Zenon DEF Walks, base
    <3> QED BY <1>2, <2>1, <3>3
  <2> QED BY <2>1
<1>4. PICK f : Walks(f, args, m - 1)
  <2>1. m - 1 \in Nat /\ ~(m <= m - 1)
    BY <1>2, <1>3
  <2> QED BY <1>1, <2>1
<1>5. f = [k \in 0 .. (m - 1) |-> IF k = 0 THEN base ELSE Visit(Repo, args, f[k - 1], Repo.walk[k])]
  BY <1>4, Zenon DEF Walks, base
<1> DEFINE g == [k \in 0 .. m |-> IF k < m THEN f[k] ELSE Visit(Repo, args, f[m - 1], Repo.walk[m])]
<1>6. \A k \in 0 .. m : g[k] = IF k = 0 THEN base ELSE Visit(Repo, args, g[k - 1], Repo.walk[k])
  <2> SUFFICES ASSUME NEW k \in 0 .. m
               PROVE  g[k] = IF k = 0 THEN base ELSE Visit(Repo, args, g[k - 1], Repo.walk[k])
    OBVIOUS
  <2>1. CASE k < m
    <3>1. k \in 0 .. (m - 1) /\ g[k] = f[k] /\ (k # 0 => g[k - 1] = f[k - 1])
      BY <1>2, <2>1
    <3>2. f[k] = IF k = 0 THEN base ELSE Visit(Repo, args, f[k - 1], Repo.walk[k])
      BY <1>5, <3>1
    <3> QED BY <3>1, <3>2
  <2>2. CASE k = m
    BY <1>2, <1>3, <2>2
  <2> QED BY <1>2, <2>1, <2>2
<1>7. Walks(g, args, m)
  <2>1. g = [k \in 0 .. m |-> g[k]]
    OBVIOUS
  <2> HIDE DEF g
  <2>2. [k \in 0 .. m |-> g[k]]
          = [k \in 0 .. m |-> IF k = 0 THEN base ELSE Visit(Repo, args, g[k - 1], Repo.walk[k])]
    BY <1>6
  <2>3. g = [k \in 0 .. m |-> IF k = 0 THEN base ELSE Visit(Repo, args, g[k - 1], Repo.walk[k])]
    BY <2>1, <2>2
  <2> QED BY <2>3, Zenon DEF Walks, base
<1> QED BY <1>2, <1>7

LEMMA GrepIs ==
  ASSUME NEW args, Len(Repo.walk) \in Nat, ~Unparsable(args)
  PROVE  \E f : Walks(f, args, Len(Repo.walk)) /\ Grep(Repo, args) = Ok(f[Len(Repo.walk)])
<1> DEFINE f == CHOOSE g : Walks(g, args, Len(Repo.walk))
<1>1. Walks(f, args, Len(Repo.walk))
  BY WalksExist
<1>2. Grep(Repo, args) = Ok(f[Len(Repo.walk)])
  BY Zenon DEF Grep, Walks
<1> QED BY <1>1, <1>2

(* The repository. *)
FileHits == [file : DOMAIN Repo.work, line : Nat]

LEMMA RepoIs ==
  /\ \A k \in DOMAIN Repo.walk : Repo.walk[k] \in DOMAIN Repo.work
  /\ DOMAIN Repo.walk = 1..Len(Repo.walk) /\ Len(Repo.walk) \in Nat
  /\ \A tree \in Trees : \A file \in DOMAIN tree :
       DOMAIN tree[file] = 1..Len(tree[file]) /\ Len(tree[file]) \in Nat
<1>1. IsSequence(Repo.walk) /\ ToSet(Repo.walk) \subseteq DOMAIN Repo.work
  BY RepoAssumption
<1>2. ASSUME NEW s, IsSequence(s)
      PROVE  DOMAIN s = 1..Len(s) /\ Len(s) \in Nat
  BY <1>2 DEF IsSequence
<1>3. \A k \in DOMAIN Repo.walk : Repo.walk[k] \in DOMAIN Repo.work
  BY <1>1 DEF ToSet
<1> QED BY <1>1, <1>2, <1>3, RepoAssumption

LEMMA MatchingType ==
  ASSUME NEW args, NEW file \in DOMAIN Repo.work
  PROVE  Matching(Repo, args, file) \in Seq(FileHits)
<1> DEFINE lines == Repo.work[file]
           hit(i) == <<[file |-> file, line |-> i]>>
           parts == [i \in DOMAIN lines |-> IF lines[i] \in Matched(args) THEN hit(i) ELSE << >>]
<1>1. DOMAIN lines = 1..Len(lines) /\ Len(lines) \in Nat
  <2>1. Repo.work \in Trees
    BY DEF Trees
  <2> QED BY <2>1, RepoIs
<1>2. \A i \in DOMAIN lines : hit(i) \in Seq(FileHits)
  BY <1>1 DEF FileHits
<1>3. << >> \in Seq(FileHits)
  OBVIOUS
<1> HIDE DEF lines, hit
<1>4. parts \in Seq(Seq(FileHits))
  BY <1>1, <1>2, <1>3
<1>5. Hits(Repo, args, file) = FlattenSeq(parts)
  BY Zenon DEF Hits, lines, hit
<1>6. Hits(Repo, args, file) \in Seq(FileHits)
  <2> HIDE DEF parts
  <2> QED BY <1>4, <1>5, FlatType
<1> QED BY <1>3, <1>6 DEF Matching

LEMMA MaxMatchesType == ASSUME NEW args PROVE MaxMatches(Repo, args) \in Nat
BY RepoAssumption DEF MaxMatches, Num, IsNum

(* Whatever a search is asked for, what it answers is the beginning of all the matches,
   within the cap, and all of them unless it says otherwise. *)
LEMMA GrepFinds ==
  ASSUME NEW args
  PROVE  GrepIsPrefix(Repo, args, Grep(Repo, args))
<1>0. CASE Unparsable(args)
  <2>1. Grep(Repo, args) = Err("validation_failed")
    BY <1>0, Zenon DEF Grep
  <2>2. ~Grep(Repo, args).ok
    BY <2>1 DEF Err
  <2> QED BY <2>2, Zenon DEF GrepIsPrefix
<1> SUFFICES ASSUME ~Unparsable(args) PROVE GrepIsPrefix(Repo, args, Grep(Repo, args))
  BY <1>0
<1> DEFINE n == Len(Repo.walk)
           max == MaxMatches(Repo, args)
           parts == [k \in DOMAIN Repo.walk |-> Matching(Repo, args, Repo.walk[k])]
           all == FlattenSeq(parts)
           S == FileHits
<1>1. n \in Nat /\ DOMAIN Repo.walk = 1..n /\ max \in Nat
  BY RepoIs, MaxMatchesType
<1>2. \A k \in 1..n : Matching(Repo, args, Repo.walk[k]) \in Seq(S)
  BY RepoIs, MatchingType
<1>3. /\ parts \in Seq(Seq(S)) /\ Len(parts) = n
      /\ \A k \in 1..n : parts[k] = Matching(Repo, args, Repo.walk[k])
  <2>1. parts = [k \in 1..n |-> Matching(Repo, args, Repo.walk[k])]
    BY <1>1
  <2> HIDE DEF parts, n, S
  <2> QED BY <1>1, <1>2, <2>1
<1>4. PICK w : Walks(w, args, n) /\ Grep(Repo, args) = Ok(w[n])
  BY <1>1, GrepIs
<1>5. /\ w[0] = [matches |-> << >>, truncated |-> max = 0]
      /\ \A k \in 1..n : w[k] = Visit(Repo, args, w[k - 1], Repo.walk[k])
  <2>1. \A k \in 0..n : w[k] = IF k = 0 THEN [matches |-> << >>, truncated |-> max = 0]
                                         ELSE Visit(Repo, args, w[k - 1], Repo.walk[k])
    BY <1>4 DEF Walks
  <2>2. 0 \in 0..n /\ \A k \in 1..n : k \in 0..n /\ k # 0
    BY <1>1
  <2> HIDE DEF n, max
  <2> QED BY <2>1, <2>2, Zenon
<1> HIDE DEF n, max, parts, S
<1>6. \E flat : /\ flat[0] = << >> /\ flat[n] = all
                /\ \A k \in 1..n : flat[k] = flat[k - 1] \o parts[k]
                /\ \A k \in 0..n : flat[k] \in Seq(S)
  <2>1. CASE n = 0
    <3>1. all = << >>
      BY <1>3, <2>1 DEF FlattenSeq
    <3> DEFINE flat == [k \in 0..0 |-> << >>]
    <3>2. flat[0] = << >> /\ flat[n] = all /\ \A k \in 0..n : flat[k] \in Seq(S)
      BY <2>1, <3>1
    <3> HIDE DEF flat
    <3> QED BY <2>1, <3>2
  <2>2. CASE n # 0
    <3>1. PICK f : /\ all = f[n]
                   /\ \A i \in 1..n :
                        f[i] \in Seq(S) /\ f[i] = IF i = 1 THEN parts[i] ELSE f[i - 1] \o parts[i]
      <4>1. parts \in Seq(Seq(S)) /\ Len(parts) # 0
        BY <1>3, <2>2
      <4>2. PICK f : /\ FlattenSeq(parts) = f[Len(parts)]
                     /\ \A i \in 1..Len(parts) :
                          f[i] \in Seq(S) /\ f[i] = IF i = 1 THEN parts[i] ELSE f[i - 1] \o parts[i]
        BY <4>1, FlatsAre
      <4> QED BY <1>3, <4>2
    <3> HIDE DEF all
    <3> DEFINE flat == [k \in 0..n |-> IF k = 0 THEN << >> ELSE f[k]]
    <3>2. flat[0] = << >> /\ \A k \in 1..n : flat[k] = f[k]
      BY <1>1
    <3>3. flat[n] = all
      BY <1>1, <2>2, <3>1, <3>2
    <3>4. \A k \in 0..n : flat[k] \in Seq(S)
      BY <1>1, <3>1
    <3> HIDE DEF flat
    <3>5. ASSUME NEW k \in 1..n PROVE flat[k] = flat[k - 1] \o parts[k]
      <4>1. parts[k] \in Seq(S) /\ flat[k] = f[k]
        BY <1>2, <1>3, <3>2
      <4>2. CASE k = 1
        <5>1. flat[k - 1] = << >> /\ flat[k] = parts[k]
          BY <3>1, <3>2, <4>2
        <5> QED BY <4>1, <5>1, ConcatEmptySeq
      <4>3. CASE k # 1
        <5>1. k - 1 \in 1..n
          BY <1>1, <4>3
        <5> QED BY <3>1, <3>2, <4>1, <4>3, <5>1
      <4> QED BY <4>2, <4>3
    <3> QED BY <3>2, <3>3, <3>4, <3>5
  <2> QED BY <2>1, <2>2
<1>7. PICK flat : /\ flat[0] = << >> /\ flat[n] = all
                  /\ \A k \in 1..n : flat[k] = flat[k - 1] \o parts[k]
                  /\ \A k \in 0..n : flat[k] \in Seq(S)
  BY <1>6
<1> HIDE DEF all
<1>8. Seen(S, w[0], flat[0], max)
  <2> DEFINE zero == max = 0
  <2>1. w[0] = [matches |-> << >>, truncated |-> zero]
    BY <1>5, Zenon
  <2> HIDE DEF zero
  <2>2. w[0].matches = << >> /\ w[0].truncated = zero
    BY <2>1
  <2>3. Len(<< >>) = 0 /\ << >> \in Seq(S) /\ 0 <= max /\ 1..0 = {} /\ (~zero => 0 < max)
    BY <1>1 DEF zero
  <2>4. Begins(<< >>, << >>)
    BY <2>3 DEF Begins
  <2> QED BY <1>7, <2>2, <2>3, <2>4 DEF Seen
<1>9. \A k \in 0..n : Seen(S, w[k], flat[k], max)
  <2> DEFINE Bad == {k \in 0..n : ~Seen(S, w[k], flat[k], max)}
  <2> SUFFICES ASSUME Bad # {} PROVE FALSE
    OBVIOUS
  <2>1. PICK m \in Bad : \A k \in Bad : m <= k
    <3>1. Bad \in SUBSET Nat
      OBVIOUS
    <3> HIDE DEF Bad
    <3> QED BY <3>1, LeastOf
  <2>2. m \in 0..n /\ ~Seen(S, w[m], flat[m], max)
    OBVIOUS
  <2>3. m # 0
    BY <1>8, <2>2
  <2>4. m \in 1..n /\ m - 1 \in 0..n /\ ~(m <= m - 1)
    BY ONLY <1>1, <2>2, <2>3
  <2>5. Seen(S, w[m - 1], flat[m - 1], max)
    BY <2>1, <2>4
  <2>6. flat[m] = flat[m - 1] \o Matching(Repo, args, Repo.walk[m]) /\ flat[m - 1] \in Seq(S)
    BY <1>3, <1>7, <2>4
  <2>7. Seen(S, Visit(Repo, args, w[m - 1], Repo.walk[m]),
             flat[m - 1] \o Matching(Repo, args, Repo.walk[m]), max)
    BY <1>1, <1>2, <2>4, <2>5, <2>6, VisitSees DEF max
  <2> QED BY <1>5, <2>2, <2>4, <2>6, <2>7
<1>10. Seen(S, w[n], all, max) /\ all \in Seq(S)
  BY <1>1, <1>7, <1>9
<1>11. Grep(Repo, args).val = w[n]
  BY <1>4 DEF Ok
<1>12. /\ IsPrefix(w[n].matches, all) /\ Len(w[n].matches) <= max
       /\ ~w[n].truncated => w[n].matches = all
  BY <1>10, BeginsIsPrefix DEF Seen
<1> QED BY <1>11, <1>12, Zenon DEF GrepIsPrefix, all, parts, max

LEMMA OkErr ==
  /\ \A v : Ok(v).ok = TRUE /\ Ok(v).val = v
  /\ \A code : Err(code).ok = FALSE
BY DEF Ok, Err

LEMMA BytesAreLines ==
  ASSUME NEW args, Bytes(Repo, args).ok
  PROVE  LET lines == Bytes(Repo, args).val
         IN  DOMAIN lines = 1..Len(lines) /\ Len(lines) \in Nat
<1> DEFINE Lined(b) == b.ok => DOMAIN b.val = 1..Len(b.val) /\ Len(b.val) \in Nat
<1>1. ASSUME NEW tree \in Trees, NEW file \in DOMAIN tree PROVE Lined(Ok(tree[file]))
  BY RepoIs, OkErr
<1>2. \A code : Lined(Err(code))
  BY OkErr, Zenon
<1>3. Lined(Ok(TreeObject))
  <2>0. \A x : <<x>> \in Seq({x})
    OBVIOUS
  <2>1. \E S : TreeObject \in Seq(S)
    BY <2>0, Zenon DEF TreeObject
  <2> QED BY <2>1, OkErr
<1>4. ASSUME NEW r, NEW file PROVE Lined(ReadBlobAtRef(Repo, r, file))
  <2> DEFINE tree == Repo.commits[Repo.refs[r]].tree
  <2>1. CASE r \notin DOMAIN Repo.refs
    BY <1>2, <2>1, Zenon DEF ReadBlobAtRef
  <2>2. CASE r \in DOMAIN Repo.refs
    <3>1. tree \in Trees
      BY <2>2, RepoAssumption DEF Trees
    <3> HIDE DEF Lined
    <3>2. CASE file \in DOMAIN tree
      <4>1. Lined(Ok(tree[file]))
        BY <1>1, <3>1, <3>2
      <4>2. ReadBlobAtRef(Repo, r, file) \in {Ok(tree[file]), Ok(TreeObject)}
        BY <2>2, <3>2 DEF ReadBlobAtRef
      <4> QED BY <1>3, <4>1, <4>2, Zenon
    <3>3. CASE file \notin DOMAIN tree
      BY <1>2, <1>3, <2>2, <3>3, Zenon DEF ReadBlobAtRef
    <3> QED BY <3>2, <3>3
  <2> QED BY <2>1, <2>2
<1>5. ASSUME NEW file PROVE Lined(ReadWorkingTree(Repo, file))
  <2>1. Repo.work \in Trees
    BY DEF Trees
  <2> DEFINE p == SafeJoin(Repo, file)
  <2> HIDE DEF Lined
  <2>2. CASE p.ok /\ p.val \in DOMAIN Repo.work \ Repo.unreadable
    BY <1>1, <2>1, <2>2, Zenon DEF ReadWorkingTree
  <2>3. CASE ~(p.ok /\ p.val \in DOMAIN Repo.work \ Repo.unreadable)
    BY <1>2, <2>3, Zenon DEF ReadWorkingTree
  <2> QED BY <2>2, <2>3
<1>6. Lined(Bytes(Repo, args))
  <2> HIDE DEF Lined
  <2> QED BY <1>4, <1>5, Zenon DEF Bytes
<1> QED BY <1>6

(* Whatever lines of a file are asked for, each is answered under its own number and none
   is missing. *)
LEMMA ReadFileReads ==
  ASSUME NEW args
  PROVE  ReadFileExact(Repo, args, ReadFile(Repo, args))
<1> DEFINE bytes == Bytes(Repo, args)
           lines == bytes.val
           total == Len(lines)
           from  == Num(args, "start_line", 1)
           to    == Num(args, "end_line", total)
           start == AtLeast(from, 1)
           end   == AtLeast(to, from)
           last  == IF end < total THEN end ELSE total
           content == Numbered(lines, start, last)
           r == ReadFile(Repo, args)
<1>1. CASE ~bytes.ok
  <2>1. r = bytes
    BY <1>1, Zenon DEF ReadFile
  <2> QED BY <1>1, <2>1, Zenon DEF ReadFileExact
<1>2. CASE bytes.ok
  <2>1. r = Ok([content |-> content, total_lines |-> total])
    BY <1>2, Zenon DEF ReadFile
  <2>2. r.val.content = content
    <3> HIDE DEF content, total, r
    <3>1. r.val = [content |-> content, total_lines |-> total]
      BY <2>1, OkErr, Zenon
    <3> QED BY <3>1
  <2>3. DOMAIN lines = 1..total /\ total \in Nat
    BY <1>2, BytesAreLines
  <2>4. from \in Nat /\ to \in Nat
    <3> HIDE DEF total
    <3> QED BY <2>3 DEF Num, IsNum
  <2> HIDE DEF from, to, total, lines, r
  <2>5. start \in Nat /\ start >= 1 /\ start >= from /\ (start = from \/ start = 1)
    BY <2>4 DEF AtLeast
  <2>6. end \in Nat /\ end >= to
    BY <2>4 DEF AtLeast
  <2> HIDE DEF start, end
  <2>7. last \in Nat /\ last <= total /\ \A n \in 1..total : n <= to => n <= last
    BY <2>3, <2>4, <2>6
  <2> HIDE DEF last
  <2> DEFINE size == AtLeast(last - start + 1, 0)
  <2>8. content = [i \in 1..size |-> <<start + i - 1, lines[start + i - 1]>>]
    BY DEF Numbered
  <2>9. size \in Nat /\ (last - start + 1 <= size) /\ (size > 0 => size = last - start + 1)
    BY <2>5, <2>7 DEF AtLeast
  <2> HIDE DEF size
  <2>10. /\ DOMAIN content = 1..size
         /\ \A k \in 1..size :
              content[k][1] = start + k - 1 /\ content[k][2] = lines[start + k - 1]
    BY <2>8
  <2> HIDE DEF content
  <2>11. \A k \in DOMAIN content :
           /\ lines[content[k][1]] = content[k][2]
           /\ k > 1 => content[k][1] = content[k - 1][1] + 1
    BY <2>5, <2>9, <2>10
  <2>12. ASSUME NEW n \in DOMAIN lines, from <= n, n <= to
         PROVE  <<n, lines[n]>> \in ToSet(content)
    <3>1. n \in 1..total /\ start <= n /\ n <= last
      BY <2>3, <2>4, <2>5, <2>7, <2>12
    <3>2. n - start + 1 \in 1..size /\ start + (n - start + 1) - 1 = n
      BY <2>5, <2>7, <2>9, <3>1
    <3>3. content[n - start + 1] = <<n, lines[n]>>
      <4> DEFINE k == n - start + 1
      <4>1. content[k] = <<start + k - 1, lines[start + k - 1]>>
        BY <2>8, <3>2
      <4> QED BY <3>2, <4>1
    <3> QED BY <2>10, <3>2, <3>3 DEF ToSet
  <2> QED BY <2>2, <2>11, <2>12, Zenon DEF ReadFileExact, lines, from, to, total, r
<1> QED BY <1>1, <1>2

-----------------------------------------------------------------------------
(* The server's answers.  Its tools are those above.                         *)

LEMMA SameArguments ==
  /\ \A args, key : Server!Given(args, key) = Given(args, key)
  /\ \A args, key, default : Server!Num(args, key, default) = Num(args, key, default)
BY Zenon DEF Server!Given, Given, Server!Num, Num, Server!IsNum, IsNum

LEMMA SameResults ==
  /\ \A v : Server!Ok(v) = Ok(v)
  /\ \A code : Server!Err(code) = Err(code)
BY Zenon DEF Server!Ok, Ok, Server!Err, Err

LEMMA SameGrep ==
  ASSUME NEW args
  PROVE  Server!Grep(Repo, args) = Grep(Repo, args)
BY Zenon DEF Server!Grep, Grep, Server!Visit, Visit, Server!MaxMatches, MaxMatches,
   Server!Taken, Taken, Server!Matching, Matching, Server!Searched, Searched, Server!Hits, Hits,
   Server!Unparsable, Unparsable, Server!Matched, Matched, Server!Field, Field, Server!Err, Err,
   Server!FlattenSeq, FlattenSeq, Server!IsPrefix, IsPrefix, Server!Given, Given,
   Server!Num, Num, Server!IsNum, IsNum, Server!Ok, Ok

LEMMA SameSafeJoin ==
  ASSUME NEW file
  PROVE  Server!SafeJoin(Repo, file) = SafeJoin(Repo, file)
<1>1. \A p : Server!NormalizeNoFollow(p) = NormalizeNoFollow(p)
  BY Zenon DEF Server!NormalizeNoFollow, NormalizeNoFollow, Server!FoldLeft, FoldLeft,
     Server!MapThenFoldSet, MapThenFoldSet, Server!Max, Max, Server!Front, Front
<1>2. Server!Root = Root
  BY Zenon DEF Server!Root, Root
<1>3. \A s, t : Server!IsPrefix(s, t) = IsPrefix(s, t)
  BY Zenon DEF Server!IsPrefix, IsPrefix
<1> QED BY <1>1, <1>2, <1>3, SameResults, Zenon DEF Server!SafeJoin, SafeJoin

LEMMA SameReadFile ==
  ASSUME NEW args
  PROVE  Server!ReadFile(Repo, args) = ReadFile(Repo, args)
<1>1. Server!ReadBlobAtRef(Repo, args.ref, args.file) = ReadBlobAtRef(Repo, args.ref, args.file)
  BY Zenon DEF Server!ReadBlobAtRef, ReadBlobAtRef, Server!IsDir, IsDir,
     Server!IsStrictPrefix, IsStrictPrefix, Server!IsPrefix, IsPrefix,
     Server!TreeObject, TreeObject, Server!Ok, Ok, Server!Err, Err
<1>2. Server!ReadWorkingTree(Repo, args.file) = ReadWorkingTree(Repo, args.file)
  <2> DEFINE p == SafeJoin(Repo, args.file)
             q == Server!SafeJoin(Repo, args.file)
  <2>1. p = q
    BY SameSafeJoin
  <2> HIDE DEF p, q
  <2>2. ReadWorkingTree(Repo, args.file)
          = IF p.ok /\ p.val \in DOMAIN Repo.work \ Repo.unreadable THEN Ok(Repo.work[p.val]) ELSE Err("not_in_workspace")
    BY Zenon DEF ReadWorkingTree, p
  <2>3. Server!ReadWorkingTree(Repo, args.file)
          = IF q.ok /\ q.val \in DOMAIN Repo.work \ Repo.unreadable THEN Ok(Repo.work[q.val]) ELSE Err("not_in_workspace")
    BY Zenon DEF Server!ReadWorkingTree, q, Server!Ok, Ok, Server!Err, Err
  <2> QED BY <2>1, <2>2, <2>3, Zenon
<1>3. Server!Bytes(Repo, args) = Bytes(Repo, args)
  BY <1>1, <1>2, SameArguments, Zenon DEF Server!Bytes, Bytes
<1>4. \A a, b : Server!AtLeast(a, b) = AtLeast(a, b)
  BY Zenon DEF Server!AtLeast, AtLeast
<1>5. \A lines, start, last : Server!Numbered(lines, start, last) = Numbered(lines, start, last)
  BY <1>4, Zenon DEF Server!Numbered, Numbered
<1> QED BY <1>3, <1>4, <1>5, SameArguments, SameResults, Zenon DEF Server!ReadFile, ReadFile

(* An answer of read_file or grep is what they make of the repository. *)
Truth(a) ==
  a.code = "ok" =>
    /\ IsTool(a.to, "read_file") => a.res = ReadFile(Repo, input[a.to].args)
    /\ IsTool(a.to, "grep") => a.res = Grep(Repo, input[a.to].args)

TasksAreOfTools ==
  \A i \in DOMAIN input :
    /\ task[i] = "scanning" => IsTool(i, "scan_for_repos")
    /\ task[i] \in {"cloning", "fetching"} => IsTool(i, "clone_repo")

TasksAreTrue   == \A i \in DOMAIN input : task[i] = "sending" => Truth(reply[i])
InlineIsTrue   == reader = "answering" => Truth(inline)
OutgoingIsTrue == \A k \in DOMAIN outgoing : Truth(outgoing[k])
SentIsTrue     == \A k \in DOMAIN sent : Truth(sent[k])

ReadsInv ==
  /\ input \in Histories
  /\ TasksAreOfTools /\ TasksAreTrue /\ InlineIsTrue /\ OutgoingIsTrue /\ SentIsTrue

LEMMA ReadsStart == Server!Init => ReadsInv
<1> SUFFICES ASSUME Server!Init PROVE ReadsInv
  OBVIOUS
<1> USE DEF Server!Init
<1>1. DOMAIN outgoing = {} /\ DOMAIN sent = {}
  OBVIOUS
<1> QED BY <1>1 DEF ReadsInv, TasksAreOfTools, TasksAreTrue, InlineIsTrue, OutgoingIsTrue, SentIsTrue

LEMMA TruthStays ==
  ASSUME UNCHANGED input
  PROVE  /\ \A a : Truth(a)' <=> Truth(a)
         /\ \A i, tool : IsTool(i, tool)' <=> IsTool(i, tool)
BY DEF Truth, IsTool, Method

(* Where nothing is queued, and no task sets out on something long or has an answer. *)
LEMMA ReadsUnmoved ==
  ASSUME ReadsInv, UNCHANGED <<input, outgoing, sent>>, InlineIsTrue',
         \A i \in DOMAIN input :
           task'[i] \in {"scanning", "cloning", "fetching", "sending"} =>
             task'[i] = task[i] /\ reply'[i] = reply[i]
  PROVE  ReadsInv'
<1>1. TasksAreOfTools'
  BY TruthStays DEF ReadsInv, TasksAreOfTools
<1>2. TasksAreTrue'
  BY TruthStays DEF ReadsInv, TasksAreTrue
<1>3. OutgoingIsTrue' /\ SentIsTrue'
  BY TruthStays DEF ReadsInv, OutgoingIsTrue, SentIsTrue
<1> QED BY <1>1, <1>2, <1>3 DEF ReadsInv

LEMMA PlainIsTrue ==
  ASSUME NEW i
  PROVE  Server!PlainReply(i).to = i /\ Truth(Server!PlainReply(i))
<1>1. Server!PlainReply(i).to = i
  BY DEF Server!PlainReply, Server!Reply
<1>2. Server!PlainReply(i).code = "ok" => Method(i) # "tools/call"
  BY DEF Server!PlainReply, Server!Reply, Server!Method, Method
<1> QED BY <1>1, <1>2 DEF Truth, IsTool

(* A task of another tool has an answer, or one that is an error. *)
LEMMA ReadsAnswered ==
  ASSUME ServerInv, ReadsInv, NEW i \in DOMAIN input, NEW a, Truth(a), Server!Answered(i, a),
         UNCHANGED <<input, reader, inline, outgoing, sent>>
  PROVE  ReadsInv'
<1>1. /\ \A j \in DOMAIN input \ {i} : task'[j] = task[j] /\ reply'[j] = reply[j]
      /\ task'[i] \in {"sending", "done"} /\ (task'[i] = "sending" => reply'[i] = a)
  BY DEF Server!Answered, ServerInv, ServerShape
<1>2. TasksAreOfTools'
  BY <1>1, TruthStays DEF ReadsInv, TasksAreOfTools
<1>3. TasksAreTrue'
  BY <1>1, TruthStays DEF ReadsInv, TasksAreTrue
<1>4. InlineIsTrue' /\ OutgoingIsTrue' /\ SentIsTrue'
  BY TruthStays DEF ReadsInv, InlineIsTrue, OutgoingIsTrue, SentIsTrue
<1> QED BY <1>2, <1>3, <1>4 DEF ReadsInv

LEMMA ReadsQueued ==
  ASSUME ServerInv, ReadsInv, NEW a, Truth(a), Server!Queue(a), UNCHANGED input
  PROVE  OutgoingIsTrue'
<1>1. CASE UNCHANGED outgoing
  BY <1>1, TruthStays DEF ReadsInv, OutgoingIsTrue
<1>2. CASE outgoing' = Append(outgoing, a)
  <2>1. PICK S : outgoing \in Seq(S)
    BY DEF ServerInv, ServerShape
  <2>2. \A k \in DOMAIN outgoing' : outgoing'[k] = a \/ (k \in DOMAIN outgoing /\ outgoing'[k] = outgoing[k])
    BY <1>2, <2>1
  <2> QED BY <2>2, TruthStays DEF ReadsInv, OutgoingIsTrue
<1> QED BY <1>1, <1>2 DEF Server!Queue

LEMMA ReadsReader ==
  ASSUME ServerInv, ReadsInv, Server!Reader \/ Server!ReadFails
  PROVE  ReadsInv'
<1> USE DEF Server!Reads, Server!connVars, Server!repoVars
<1>1. CASE Server!ReadBlank \/ Server!Eof \/ Server!Drained
  <2>1. UNCHANGED <<input, outgoing, sent, task, reply>> /\ InlineIsTrue'
    BY <1>1, TruthStays DEF Server!ReadBlank, Server!Eof, Server!Drained, ReadsInv, InlineIsTrue
  <2> QED BY <2>1, ReadsUnmoved
<1>2. CASE Server!ReadGarbage
  <2>1. UNCHANGED <<input, outgoing, sent, task, reply>>
    BY <1>2, Zenon DEF Server!ReadGarbage
  <2>2. \E code, r : code # "ok" /\ inline' = Server!Reply(next, code, r)
    BY <1>2, Zenon DEF Server!ReadGarbage
  <2>3. inline'.code # "ok"
    BY <2>2 DEF Server!Reply
  <2>4. InlineIsTrue'
    BY <2>3, Zenon DEF InlineIsTrue, Truth
  <2> QED BY <2>1, <2>4, ReadsUnmoved
<1>3. CASE Server!ReadInitialize
  <2>1. InlineIsTrue'
    <3>1. UNCHANGED input /\ reader = "reading"
      BY <1>3 DEF Server!ReadInitialize
    <3>2. (inline' = Server!PlainReply(next)) \/ (UNCHANGED reader)
      BY <1>3 DEF Server!ReadInitialize
    <3> QED BY <3>1, <3>2, TruthStays, PlainIsTrue DEF InlineIsTrue
  <2>2. /\ UNCHANGED <<input, outgoing, sent, reply>>
        /\ task' = [task EXCEPT ![next] = "done"]
    BY <1>3 DEF Server!ReadInitialize
  <2> QED BY <2>1, <2>2, ReadsUnmoved DEF ServerInv, ServerShape
<1>4. CASE Server!ReadRequest
  <2>1. UNCHANGED <<input, outgoing, sent, reply>> /\ InlineIsTrue'
    BY <1>4, TruthStays DEF Server!ReadRequest, ReadsInv, InlineIsTrue
  <2>2. task' = [task EXCEPT ![next] = "waiting"]
    BY <1>4 DEF Server!ReadRequest
  <2> QED BY <2>1, <2>2, ReadsUnmoved DEF ServerInv, ServerShape
<1>5. CASE Server!AnswerInline
  <2>1. UNCHANGED <<input, sent, task, reply>> /\ reader' = "reading" /\ Truth(inline)
    BY <1>5 DEF Server!AnswerInline, ReadsInv, InlineIsTrue
  <2>2. OutgoingIsTrue'
    BY <1>5, <2>1, ReadsQueued DEF Server!AnswerInline
  <2>3. TasksAreOfTools' /\ TasksAreTrue' /\ InlineIsTrue' /\ SentIsTrue'
    BY <2>1, TruthStays DEF ReadsInv, TasksAreOfTools, TasksAreTrue, InlineIsTrue, SentIsTrue
  <2> QED BY <2>1, <2>2, <2>3 DEF ReadsInv
<1>6. CASE Server!ReadFails
  <2>1. UNCHANGED <<input, outgoing, sent, reply>> /\ InlineIsTrue'
    BY <1>6 DEF Server!ReadFails, InlineIsTrue
  <2>2. task' = [i \in DOMAIN input |-> IF task[i] \in {"none", "done"} THEN task[i] ELSE "aborted"]
    BY <1>6 DEF Server!ReadFails
  <2> QED BY <2>1, <2>2, ReadsUnmoved
<1> QED BY <1>1, <1>2, <1>3, <1>4, <1>5, <1>6 DEF Server!Reader

(* The tools that read: what was worked out for their calls. *)
LEMMA ReadsCallRead ==
  ASSUME ServerInv, ReadsInv, NEW i \in DOMAIN input, Server!CallRead(i)
  PROVE  ReadsInv'
<1> DEFINE c == input[i]
           res == Server!ReadAnswer[c]
           a == Server!ToolReply(i, res)
<1>1. /\ Server!IsTool(i, c.tool) /\ c.tool \in DOMAIN Server!ReadTools \cup DOMAIN Server!Stubs
      /\ Server!ValidateAgainst(Server!Schemas[c.tool], c.args, c.illTyped)
      /\ Server!Answered(i, a)
      /\ UNCHANGED <<input, reader, inline, outgoing, sent>>
  BY DEF Server!CallRead, Server!Running, Server!Rejected, Server!connVars
<1>2. c \in Server!ReadCalls
  <2>1. c \in Server!ToSet(input)
    BY DEF Server!ToSet
  <2>2. c \in UNION {Server!ToSet(h) : h \in Histories}
    BY <2>1 DEF ReadsInv
  <2>3. c.form = "request"
    BY <1>1 DEF Server!IsTool
  <2> HIDE DEF c
  <2> QED BY <1>1, <2>2, <2>3, Zenon DEF Server!ReadCalls
<1>3. res = Server!ReadTool(c.tool, c.args)
  <2> HIDE DEF c
  <2> QED BY <1>2, Zenon DEF Server!ReadAnswer
<1>4. /\ c.tool = "read_file" => res = ReadFile(Repo, c.args)
      /\ c.tool = "grep" => res = Grep(Repo, c.args)
  <2> HIDE DEF c, res
  <2> QED BY <1>3, SameReadFile, SameGrep DEF Server!ReadTool
<1>5. a.to = i /\ a.res = res
  BY DEF Server!ToolReply, Server!Reply
<1>6. Truth(a)
  <2> HIDE DEF res, a
  <2> QED BY <1>4, <1>5 DEF Truth, IsTool
<1> HIDE DEF a
<1> QED BY <1>1, <1>6, ReadsAnswered

LEMMA ErrorIsTrue ==
  ASSUME NEW i, NEW code
  PROVE  Truth(Server!ToolReply(i, Server!Err(code)))
<1>1. Server!Err(code).ok = FALSE
  BY SameResults, OkErr
<1>2. Server!ToolReply(i, Server!Err(code)).code = "isError"
  BY <1>1 DEF Server!ToolReply, Server!Reply
<1> QED BY <1>2 DEF Truth

LEMMA OtherIsTrue ==
  ASSUME NEW i, NEW r, ~IsTool(i, "read_file"), ~IsTool(i, "grep")
  PROVE  Truth(Server!ToolReply(i, r))
<1>1. Server!ToolReply(i, r).to = i
  BY DEF Server!ToolReply, Server!Reply
<1> QED BY <1>1 DEF Truth

LEMMA ReadsTask ==
  ASSUME ServerInv, ReadsInv, NEW i \in DOMAIN input,
         Server!Acquire(i) \/ Server!Task(i) \/ Server!CloneFails(i)
  PROVE  ReadsInv'
<1> DEFINE Rest == UNCHANGED <<input, reader, inline, outgoing, sent>>
           Other == ~IsTool(i, "read_file") /\ ~IsTool(i, "grep")
<1>0. DOMAIN task = DOMAIN input
  BY DEF ServerInv, ServerShape
<1>1. ASSUME NEW tool, tool \notin {"read_file", "grep"}, Server!IsTool(i, tool) \/ IsTool(i, tool)
      PROVE  Other
  BY <1>1 DEF Server!IsTool, Server!Method, IsTool, Method
<1> USE DEF Server!connVars, Server!repoVars, Server!Running, Server!Cloning
<1>2. CASE Server!HandlePlain(i)
  <2>1. Rest /\ Server!Answered(i, Server!PlainReply(i))
    BY <1>2 DEF Server!HandlePlain
  <2> QED BY <2>1, PlainIsTrue, ReadsAnswered
<1>3. CASE Server!CallRejected(i)
  <2>1. Rest /\ Server!Answered(i, Server!ToolReply(i, Server!Err("validation_failed")))
    BY <1>3 DEF Server!CallRejected
  <2> QED BY <2>1, ErrorIsTrue, ReadsAnswered
<1>4. CASE Server!CallRead(i)
  BY <1>4, ReadsCallRead
<1>5. CASE \/ Server!CallDiscover(i) \/ Server!ScanEnds(i) \/ Server!ClonePresent(i)
          \/ Server!CloneRefused(i) \/ Server!CloneEnds(i) \/ Server!CloneFails(i)
          \/ Server!CloneUnparseable(i)
  <2>1. Rest /\ Other /\ \E r : Server!Answered(i, Server!ToolReply(i, r))
    <3>1. CASE Server!CallDiscover(i)
      <4>1. Other
        BY <1>1, <3>1 DEF Server!CallDiscover
      <4> QED BY <3>1, <4>1 DEF Server!CallDiscover
    <3>2. CASE Server!ScanEnds(i)
      <4>1. Other
        BY <1>1, <3>2 DEF Server!ScanEnds, ReadsInv, TasksAreOfTools
      <4> QED BY <3>2, <4>1 DEF Server!ScanEnds
    <3>3. CASE Server!ClonePresent(i)
      <4>1. Other
        BY <1>1, <3>3 DEF Server!ClonePresent
      <4> QED BY <3>3, <4>1 DEF Server!ClonePresent
    <3>4. CASE Server!CloneRefused(i)
      <4>1. Other
        BY <1>1, <3>4 DEF Server!CloneRefused, ReadsInv, TasksAreOfTools
      <4> QED BY <3>4, <4>1 DEF Server!CloneRefused
    <3>5. CASE Server!CloneEnds(i)
      <4>1. Other
        BY <1>1, <3>5 DEF Server!CloneEnds, ReadsInv, TasksAreOfTools
      <4> QED BY <3>5, <4>1 DEF Server!CloneEnds
    <3>6. CASE Server!CloneFails(i)
      <4>1. Other
        BY <1>1, <3>6 DEF Server!CloneFails, ReadsInv, TasksAreOfTools
      <4> QED BY <3>6, <4>1 DEF Server!CloneFails
    <3>7. CASE Server!CloneUnparseable(i)
      <4>1. Other
        BY <1>1, <3>7 DEF Server!CloneUnparseable
      <4> QED BY <3>7, <4>1 DEF Server!CloneUnparseable
    <3> QED BY <1>5, <3>1, <3>2, <3>3, <3>4, <3>5, <3>6, <3>7
  <2> QED BY <2>1, OtherIsTrue, ReadsAnswered
<1>6. CASE Server!Acquire(i)
  <2>1. Rest /\ UNCHANGED reply /\ task' = [task EXCEPT ![i] = "running"]
    BY <1>6 DEF Server!Acquire
  <2>2. InlineIsTrue'
    BY <2>1, TruthStays DEF ReadsInv, InlineIsTrue
  <2> QED BY <1>0, <2>1, <2>2, ReadsUnmoved
<1>7. CASE Server!CallScan(i) \/ Server!CloneBegins(i) \/ Server!GitStarts(i) \/ Server!ScanRegisters(i)
  <2>1. Rest /\ UNCHANGED reply
    BY <1>7 DEF Server!CallScan, Server!CloneBegins, Server!GitStarts, Server!ScanRegisters
  <2>2. \A j \in DOMAIN input \ {i} : task'[j] = task[j]
    BY <1>0, <1>7 DEF Server!CallScan, Server!CloneBegins, Server!GitStarts, Server!ScanRegisters
  <2>3. /\ task'[i] # "sending"
        /\ task'[i] = "scanning" => IsTool(i, "scan_for_repos")
        /\ task'[i] \in {"cloning", "fetching"} => IsTool(i, "clone_repo")
    <3> USE DEF Server!IsTool, Server!Method, IsTool, Method
    <3>1. CASE Server!CallScan(i)
      BY <1>0, <3>1 DEF Server!CallScan
    <3>2. CASE Server!CloneBegins(i)
      BY <1>0, <3>2 DEF Server!CloneBegins
    <3>3. CASE Server!GitStarts(i)
      BY <1>0, <3>3 DEF Server!GitStarts, ReadsInv, TasksAreOfTools
    <3>4. CASE Server!ScanRegisters(i)
      BY <1>0, <3>4 DEF Server!ScanRegisters, ReadsInv, TasksAreOfTools
    <3> QED BY <1>7, <3>1, <3>2, <3>3, <3>4
  <2>4. TasksAreOfTools'
    BY <2>1, <2>2, <2>3, TruthStays DEF ReadsInv, TasksAreOfTools
  <2>5. TasksAreTrue'
    BY <2>1, <2>2, <2>3, TruthStays DEF ReadsInv, TasksAreTrue
  <2>6. InlineIsTrue' /\ OutgoingIsTrue' /\ SentIsTrue'
    BY <2>1, TruthStays DEF ReadsInv, InlineIsTrue, OutgoingIsTrue, SentIsTrue
  <2> QED BY <2>1, <2>4, <2>5, <2>6 DEF ReadsInv
<1>8. CASE Server!SendAnswer(i)
  <2>1. /\ UNCHANGED <<input, reader, inline, sent>> /\ task[i] = "sending"
        /\ Server!Queue(reply[i]) /\ task' = [task EXCEPT ![i] = "done"]
        /\ \A j \in DOMAIN input \ {i} : reply'[j] = reply[j]
    BY <1>8 DEF Server!SendAnswer, ServerInv, ServerShape
  <2>2. Truth(reply[i])
    BY <2>1 DEF ReadsInv, TasksAreTrue
  <2>3. OutgoingIsTrue'
    <3>1. PICK a : a = reply[i]
      OBVIOUS
    <3> QED BY <2>1, <2>2, <3>1, ReadsQueued
  <2>4. TasksAreOfTools' /\ TasksAreTrue'
    BY <1>0, <2>1, TruthStays DEF ReadsInv, TasksAreOfTools, TasksAreTrue
  <2>5. InlineIsTrue' /\ SentIsTrue'
    BY <2>1, TruthStays DEF ReadsInv, InlineIsTrue, SentIsTrue
  <2> QED BY <2>1, <2>3, <2>4, <2>5 DEF ReadsInv
<1> QED BY <1>2, <1>3, <1>4, <1>5, <1>6, <1>7, <1>8 DEF Server!Task

LEMMA ReadsWritten ==
  ASSUME ServerInv, ReadsInv, Server!Write \/ Server!WriteFails
  PROVE  ReadsInv'
<1>1. UNCHANGED <<input, reader, inline, task, reply>>
  BY DEF Server!Write, Server!WriteFails
<1>2. TasksAreOfTools' /\ TasksAreTrue' /\ InlineIsTrue'
  BY <1>1, TruthStays DEF ReadsInv, TasksAreOfTools, TasksAreTrue, InlineIsTrue
<1>3. PICK S : sent \in Seq(S) /\ outgoing \in Seq(S)
  BY DEF ServerInv, ServerShape
<1>4. CASE Server!Write
  <2>1. outgoing # << >> /\ sent' = Append(sent, Head(outgoing)) /\ outgoing' = Tail(outgoing)
    BY <1>4 DEF Server!Write
  <2>2. 1 \in DOMAIN outgoing /\ Head(outgoing) = outgoing[1]
    BY <1>3, <2>1
  <2>3. \A k \in DOMAIN outgoing' : k + 1 \in DOMAIN outgoing /\ outgoing'[k] = outgoing[k + 1]
    BY <1>3, <2>1
  <2>4. \A k \in DOMAIN sent' : sent'[k] = outgoing[1] \/ (k \in DOMAIN sent /\ sent'[k] = sent[k])
    BY <1>3, <2>1, <2>2
  <2>5. OutgoingIsTrue'
    BY <1>1, <2>3, TruthStays DEF ReadsInv, OutgoingIsTrue
  <2>6. SentIsTrue'
    BY <1>1, <2>2, <2>4, TruthStays DEF ReadsInv, OutgoingIsTrue, SentIsTrue
  <2> QED BY <1>1, <1>2, <2>5, <2>6 DEF ReadsInv
<1>5. CASE Server!WriteFails
  <2>1. DOMAIN outgoing' = {} /\ UNCHANGED sent
    BY <1>5 DEF Server!WriteFails
  <2>2. OutgoingIsTrue' /\ SentIsTrue'
    BY <1>1, <2>1, TruthStays DEF ReadsInv, OutgoingIsTrue, SentIsTrue
  <2> QED BY <1>1, <1>2, <2>2 DEF ReadsInv
<1> QED BY <1>4, <1>5

LEMMA ReadsStep ==
  ASSUME ServerInv, ReadsInv, [Server!Next]_(Server!vars)
  PROVE  ReadsInv'
<1>1. CASE Server!Next
  BY <1>1, ReadsReader, ReadsTask, ReadsWritten DEF Server!Next, Server!Step
<1>2. CASE UNCHANGED Server!vars
  <2>1. UNCHANGED <<input, reader, inline, outgoing, sent, task, reply>>
    BY <1>2 DEF Server!vars
  <2>2. InlineIsTrue'
    BY <2>1, TruthStays DEF ReadsInv, InlineIsTrue
  <2> QED BY <2>1, <2>2, ReadsUnmoved
<1> QED BY <1>1, <1>2

LEMMA AnswersAreOfTheRepository ==
  ASSUME ReadsInv
  PROVE  ReadsAreTrue
<1>1. ASSUME NEW k \in Answers("read_file")
      PROVE  ReadFileExact(Repo, Args(k), sent[k].res)
  <2>1. sent[k].res = ReadFile(Repo, Args(k))
    BY DEF Answers, Args, ReadsInv, SentIsTrue, Truth
  <2> QED BY <2>1, ReadFileReads
<1>2. ASSUME NEW k \in Answers("grep")
      PROVE  GrepIsPrefix(Repo, Args(k), sent[k].res)
  <2>1. sent[k].res = Grep(Repo, Args(k))
    BY DEF Answers, Args, ReadsInv, SentIsTrue, Truth
  <2> QED BY <2>1, GrepFinds
<1> QED BY <1>1, <1>2 DEF ReadsAreTrue

(* For every repository, every pattern, cap, path and slice that may be asked for,
   however the requests interleave: an answer of read_file has the lines asked for,
   each under its own number, and an answer of grep is the beginning of all the
   matches within the cap, and says so when it is not all of them
   (fs_tools.rs:60-61, grep.rs:28). *)
THEOREM ReadsTrue ==
  ASSUME Server!HistoriesAssumption
  PROVE  Server!Spec => []ReadsAreTrue
<1>1. Server!Init => ServerInv /\ ReadsInv
  BY ServerInit, ReadsStart
<1>2. ServerInv /\ ReadsInv /\ [Server!Next]_(Server!vars) => ServerInv' /\ ReadsInv'
  BY ServerStep, ReadsStep
<1>3. ReadsInv => ReadsAreTrue
  BY AnswersAreOfTheRepository
<1> QED BY <1>1, <1>2, <1>3, PTL DEF Server!Spec
=============================================================================
