-------------------------- MODULE AgentLoopProofs --------------------------
(* Theorems about what a turn hears of its provider, for any replies, and about
   its rounds, for any calls, sizes and limits. *)
EXTENDS AgentLoop, Requests, FiniteSetTheorems, SequenceTheorems, WellFoundedInduction, TLAPS

-----------------------------------------------------------------------------
(* What a turn hears of its provider: a state machine of its own, beside its rounds. *)
CONSTANTS Scripts, MaxPieces
VARIABLES script
Stream == INSTANCE ProviderStream

(* What the parser hands on. *)
Uses     == [type : {"tool_use"}, n : Nat, input : {"empty", "whole"}]
Events   == Uses \cup [type : {"text"}, n : Nat] \cup [type : {"error", "err"}]
              \cup [type : {"done"}, input_tokens : Nat, output_tokens : Nat]
Buffers  == [held : Nat, named : BOOLEAN, open : BOOLEAN]
Said     == [total : Nat, good : BOOLEAN, sent : Nat, over : BOOLEAN]
States   == {"ask", "reading", "ok", "unauthorized", "rate_limited", "internal"}

Reading == loop.state = "reading"
Announced == Len(service.calls)

StreamTypes ==
  /\ wire \in Wires
  /\ loop \in [state : States, round : 1..(MaxToolTurns + 1), texts : Seq(Nat), calls : Seq(Uses),
               usage : [in : Nat, out : Nat]]
  /\ service \in [stage : Stages, texts : 0..MaxTexts, calls : Seq(Said)]
  /\ parse \in [bufs : Seq(Buffers), in : Nat, out : Nat, done_sent : BOOLEAN]
  /\ queue \in Seq(Events)
  /\ Announced <= MaxCalls /\ Len(parse.bufs) = Announced
  /\ billed \in Nat
  /\ script \in [play : Scripts, at : Nat] /\ script.at <= Len(script.play)

(* A mock provider parses nothing. *)
MockInv ==
  wire = "mock" => /\ service.stage \in {"none", "closed"} /\ service.texts = 0
                   /\ Announced = 0 /\ billed = 0

(* Where a reply may stand in each format. *)
StageInv ==
  /\ service.stage = "closed" => wire = "mock"
  /\ service.stage = "finished" => wire = "openai_compat"
  /\ service.stage = "usage" => wire \in {"anthropic", "openai_compat"}
  /\ service.stage = "cut_failed" => wire = "openai_compat" \/ ~Reading
  /\ Reading => service.stage # "none"

(* The texts. *)
TextQueued == Reading /\ \E i \in DOMAIN queue : queue[i].type = "text"

TextInv ==
  /\ \A i \in DOMAIN loop.texts : loop.texts[i] = i
  /\ service.texts = Len(loop.texts) + (IF TextQueued THEN 1 ELSE 0)
  /\ TextQueued => Len(queue) = 1 /\ queue[1].type = "text" /\ queue[1].n = service.texts

(* The calls.  One that was handed on has left the table, and nothing is said of it any more. *)
IsTrue(e, call) ==
  IF call.sent = 0 THEN e.input = "empty"
  ELSE e.input = "whole" /\ call.sent = call.total /\ call.good

HandedOn(e) ==
  /\ e.n \in 1..Announced
  /\ ~parse.bufs[e.n].open
  /\ service.stage = "body" => service.calls[e.n].over
  /\ IsTrue(e, service.calls[e.n])

InQueue == {i \in DOMAIN queue : Reading /\ queue[i].type = "tool_use"}

BufferInv == \A n \in 1..Announced : parse.bufs[n].held = service.calls[n].sent

UsesInv ==
  /\ \A i \in DOMAIN loop.calls : HandedOn(loop.calls[i])
  /\ \A i \in InQueue : HandedOn(queue[i])

OrderInv ==
  /\ \A i, k \in DOMAIN loop.calls : i < k => loop.calls[i].n < loop.calls[k].n
  /\ \A i, k \in InQueue : i < k => queue[i].n < queue[k].n
  /\ \A i \in DOMAIN loop.calls, k \in InQueue : loop.calls[i].n < queue[k].n
  /\ \A n \in 1..Announced : parse.bufs[n].open =>
       /\ \A i \in DOMAIN loop.calls : loop.calls[i].n < n
       /\ \A i \in InQueue : queue[i].n < n

(* Which calls are still in the table. *)
TableInv ==
  Reading /\ service.stage \in {"body", "finished", "usage"} =>
    \A n \in 1..Announced :
      /\ wire = "anthropic" => /\ parse.bufs[n].open <=> ~service.calls[n].over
                               /\ parse.bufs[n].open => n = Announced /\ service.stage = "body"
      /\ wire # "anthropic" => (parse.bufs[n].open <=> service.stage = "body")
      /\ wire = "chatgpt" /\ service.calls[n].over => parse.bufs[n].named

(* Usage. *)
BillInv ==
  /\ loop.usage.in = loop.usage.out
  /\ loop.usage.in <= billed
  /\ loop.state \in {"ask", "reading"} => loop.usage.in <= loop.round - 1
  /\ loop.state = "ask" => billed = loop.usage.in
  /\ Reading =>
       /\ parse.in = parse.out
       /\ billed = loop.usage.in + (IF service.stage = "finished" THEN 1 ELSE parse.in)
       /\ parse.in = (IF service.stage \in {"usage", "over"} THEN 1
                      ELSE IF service.stage \in {"body", "finished"} THEN 0 ELSE parse.in)
       /\ parse.in <= 1
  /\ billed <= loop.round
  /\ loop.state = "ok" /\ service.stage # "cut" => billed = loop.usage.in

(* A reply's one Done is the last of what is handed on. *)
Closing == service.stage \in {"over", "cut", "cut_failed"}
DoneInv ==
  Reading =>
    /\ \A i \in DOMAIN queue : queue[i].type = "done" =>
         i = Len(queue) /\ queue[i].input_tokens = parse.in /\ queue[i].output_tokens = parse.out
    /\ \A i \in DOMAIN queue : queue[i].type = "done" => Closing
    /\ Closing /\ ~(service.stage = "cut" /\ wire = "anthropic") =>
         queue # <<>> /\ queue[Len(queue)].type = "done"
    /\ parse.done_sent => Closing
    /\ (service.stage = "failed" /\ wire # "openai_compat") \/ service.stage = "broken" =>
         queue # <<>> /\ queue[Len(queue)].type \in {"error", "err"}

(* How many calls there still are in the queue, if there is no error in it. *)
Clean == \A i \in DOMAIN queue : queue[i].type \notin {"err", "error"}
Left == IF queue # <<>> /\ queue[Len(queue)].type \in {"text", "done"} THEN Len(queue) - 1
        ELSE Len(queue)

CountInv ==
  /\ Reading /\ ~Forced /\ Clean =>
       LET heard == Len(loop.calls) + Left IN
       /\ wire = "anthropic" /\ service.stage \in {"body", "usage", "over"} =>
            heard = IF Announced > 0 /\ parse.bufs[Announced].open THEN Announced - 1 ELSE Announced
       /\ wire = "anthropic" /\ service.stage = "over" => heard = Announced
       /\ wire = "openai_compat" /\ service.stage \in {"finished", "usage", "over"} =>
            heard = Announced
       /\ wire = "chatgpt" /\ service.stage = "over" => heard = Announced
       /\ wire # "anthropic" /\ service.stage = "body" => heard = 0
  /\ RoundWhole => Len(loop.calls) = Announced

ReplyInv ==
  TextInv /\ BufferInv /\ UsesInv /\ OrderInv /\ TableInv /\ BillInv /\ DoneInv /\ CountInv

StreamInv == StreamTypes /\ MockInv /\ StageInv /\ (wire # "mock" => ReplyInv)

-----------------------------------------------------------------------------
(* Numbers in order. *)

LEMMA LeastOf ==
  ASSUME NEW S \in SUBSET Nat, S # {}
  PROVE  \E m \in S : \A n \in S : m <= n
<1> DEFINE R == {ss \in Nat \X Nat : ss[1] < ss[2]}
<1>1. OpToRel(<, Nat) = R
  BY Zenon DEF OpToRel
<1>2. IsWellFoundedOn(R, Nat)
  BY <1>1, NatLessThanWellFounded, Zenon
<1>3. \A a, b \in Nat : a < b => <<a, b>> \in R
  OBVIOUS
<1> HIDE DEF R
<1>4. PICK x \in S : \A y \in S : <<y, x>> \notin R
  BY <1>2, WFMin, Zenon
<1>5. x \in Nat /\ \A y \in S : y \in Nat /\ ~(y < x)
  BY <1>3, <1>4
<1> QED BY <1>5

Rising(f) == \A i, k \in DOMAIN f : i < k => f[i] < f[k]
Orderable(S) == IsFiniteSet(S) /\ \E f \in [1..Cardinality(S) -> S] : Rising(f)

(* Numbers up to n can be put in order: by induction over n. *)
LEMMA OrderExists ==
  ASSUME NEW n \in Nat, NEW S \in SUBSET (1..n)
  PROVE  Orderable(S)
<1> DEFINE Bad == {m \in Nat : \E T \in SUBSET (1..m) : ~Orderable(T)}
<1> SUFFICES Bad = {}
  OBVIOUS
<1> SUFFICES ASSUME Bad # {} PROVE FALSE
  OBVIOUS
<1>1. PICK m \in Bad : \A k \in Bad : m <= k
  <2>1. Bad \in SUBSET Nat
    OBVIOUS
  <2> HIDE DEF Bad
  <2> QED BY <2>1, LeastOf
<1>2. m \in Nat /\ \E T \in SUBSET (1..m) : ~Orderable(T)
  OBVIOUS
<1>3. PICK T \in SUBSET (1..m) : ~Orderable(T)
  BY <1>2
<1>4. \A U \in SUBSET (1..(m - 1)) : m # 0 => Orderable(U)
  BY <1>1
<1> HIDE DEF Bad
<1>5. m # 0
  <2>1. ASSUME m = 0 PROVE FALSE
    <3>1. T = {}
      BY <2>1
    <3>2. IsFiniteSet(T) /\ Cardinality(T) = 0
      BY <3>1, FS_EmptySet
    <3>3. << >> \in [1..Cardinality(T) -> T] /\ Rising(<< >>)
      BY <3>2 DEF Rising
    <3> QED BY <1>3, <3>2, <3>3 DEF Orderable
  <2> QED BY <2>1
<1>6. m \in T
  <2>1. ASSUME m \notin T PROVE FALSE
    <3>1. T \in SUBSET (1..(m - 1))
      BY <1>2, <1>5, <2>1
    <3> QED BY <1>3, <1>4, <1>5, <3>1
  <2> QED BY <2>1
<1> DEFINE U == T \ {m}
           c == Cardinality(U)
<1>7. IsFiniteSet(U) /\ \E f \in [1..c -> U] : Rising(f)
  <2>1. U \in SUBSET (1..(m - 1))
    BY <1>2, <1>5
  <2>2. Orderable(U)
    BY <1>4, <1>5, <2>1
  <2> QED BY <2>2 DEF Orderable
<1>8. IsFiniteSet(T) /\ Cardinality(T) = c + 1 /\ c \in Nat
  <2>1. T = U \cup {m} /\ m \notin U
    BY <1>6
  <2> HIDE DEF U
  <2> QED BY <1>7, <2>1, FS_AddElement, FS_CardinalityType
<1>9. \A u \in U : u \in T /\ u \in Nat /\ u < m
  BY <1>2, <1>3
<1> HIDE DEF c, U
<1>10. PICK f \in [1..c -> U] : Rising(f)
  BY <1>7
<1> DEFINE g == [i \in 1..(c + 1) |-> IF i <= c THEN f[i] ELSE m]
<1>11. g \in [1..(c + 1) -> T]
  BY <1>6, <1>8, <1>9, <1>10
<1>12. Rising(g)
  <2>1. ASSUME NEW i \in 1..(c + 1), NEW k \in 1..(c + 1), i < k PROVE g[i] < g[k]
    <3>1. i \in 1..c /\ g[i] = f[i] /\ f[i] \in U
      BY <1>8, <1>10, <2>1
    <3>2. CASE k <= c
      BY <1>8, <1>10, <2>1, <3>1, <3>2 DEF Rising
    <3>3. CASE k = c + 1
      BY <1>8, <1>9, <3>1, <3>3
    <3> QED BY <1>8, <3>2, <3>3
  <2> QED BY <2>1 DEF Rising
<1> QED BY <1>3, <1>8, <1>11, <1>12 DEF Orderable

LEMMA OrderedIs ==
  ASSUME NEW n \in Nat, NEW S \in SUBSET (1..n)
  PROVE  /\ IsFiniteSet(S) /\ Stream!Ordered(S) \in [1..Cardinality(S) -> S]
         /\ Rising(Stream!Ordered(S))
<1>1. Orderable(S)
  BY OrderExists
<1> DEFINE P(f) == \A i, k \in DOMAIN f : i < k => f[i] < f[k]
<1>2. \E f \in [1..Cardinality(S) -> S] : P(f)
  BY <1>1 DEF Orderable, Rising
<1>3. Stream!Ordered(S) = CHOOSE f \in [1..Cardinality(S) -> S] : P(f)
  BY Zenon DEF Stream!Ordered, Stream!Cardinality, Cardinality
<1> HIDE DEF P
<1>4. Stream!Ordered(S) \in [1..Cardinality(S) -> S] /\ P(Stream!Ordered(S))
  BY <1>2, <1>3
<1> QED BY <1>1, <1>4 DEF P, Orderable, Rising

-----------------------------------------------------------------------------
(* What the parsers hand on. *)

LEMMA ToolUseIs ==
  ASSUME NEW n \in Nat, NEW call, call.sent \in Nat, NEW e, e = Stream!ToolUse(n, call, call.sent)
  PROVE  /\ e \in Events /\ e.type \in {"tool_use", "err"}
         /\ e.type = "tool_use" => e \in Uses /\ e.n = n /\ IsTrue(e, call)
BY DEF Stream!ToolUse, Stream!ParseError, Events, Uses, IsTrue

LEMMA Shapes ==
  ASSUME StreamTypes
  PROVE  /\ Announced \in Nat /\ DOMAIN service.calls = 1..Announced
         /\ DOMAIN parse.bufs = 1..Announced
         /\ \A n \in 1..Announced : service.calls[n] \in Said /\ parse.bufs[n] \in Buffers
<1>1. service.calls \in Seq(Said) /\ parse.bufs \in Seq(Buffers) /\ Len(parse.bufs) = Announced
  BY DEF StreamTypes
<1> QED BY <1>1 DEF Announced

LEMMA FlushedIs ==
  ASSUME StreamTypes, BufferInv, NEW p, p.bufs = parse.bufs, NEW f, f = Stream!Flushed(p), NEW S,
         S = {n \in 1..Announced : parse.bufs[n].open /\ (wire = "chatgpt" => parse.bufs[n].named)}
  PROVE  /\ f \in Seq(Events) /\ IsFiniteSet(S) /\ Len(f) = Cardinality(S)
         /\ \A i \in DOMAIN f :
              /\ f[i].type \in {"tool_use", "err"}
              /\ f[i].type = "tool_use" => f[i].n \in S /\ IsTrue(f[i], service.calls[f[i].n])
         /\ \A i, k \in DOMAIN f :
              f[i].type = "tool_use" /\ f[k].type = "tool_use" /\ i < k => f[i].n < f[k].n
<1> DEFINE ns == Stream!Ordered(S)
           c == Cardinality(S)
<1>1. Announced \in Nat /\ DOMAIN parse.bufs = 1..Announced
  BY Shapes
<1>2. S \in SUBSET (1..Announced)
  OBVIOUS
<1>3. IsFiniteSet(S) /\ ns \in [1..c -> S] /\ Rising(ns)
  BY <1>1, <1>2, OrderedIs
<1>4. c \in Nat
  BY <1>3, FS_CardinalityType
<1>5. f = [i \in DOMAIN ns |-> Stream!ToolUse(ns[i], service.calls[ns[i]], p.bufs[ns[i]].held)]
  <2>1. {n \in Stream!Buffered(p) : wire = "chatgpt" => p.bufs[n].named} = S
    BY <1>1 DEF Stream!Buffered
  <2> HIDE DEF ns
  <2>2. Stream!Ordered({n \in Stream!Buffered(p) : wire = "chatgpt" => p.bufs[n].named}) = ns
    BY <2>1 DEF ns
  <2> QED BY <2>2, Zenon DEF Stream!Flushed
<1> HIDE DEF ns, c
<1>6. \A i \in 1..c : /\ ns[i] \in S /\ ns[i] \in 1..Announced
                      /\ f[i] = Stream!ToolUse(ns[i], service.calls[ns[i]],
                                                service.calls[ns[i]].sent)
  BY <1>2, <1>3, <1>5 DEF BufferInv
<1>7. \A n \in 1..Announced : n \in Nat /\ service.calls[n].sent \in Nat
  BY <1>1, Shapes DEF Said
<1>8. ASSUME NEW i \in 1..c
      PROVE  /\ f[i] \in Events /\ f[i].type \in {"tool_use", "err"}
             /\ f[i].type = "tool_use" => f[i].n = ns[i] /\ IsTrue(f[i], service.calls[ns[i]])
  BY <1>6, <1>7, ToolUseIs
<1>9. DOMAIN f = 1..c
  BY <1>3, <1>5
<1>10. f \in Seq(Events) /\ Len(f) = c
  <2>1. f \in [1..c -> Events]
    BY <1>3, <1>5, <1>8, <1>9
  <2> QED BY <1>4, <2>1
<1>11. \A i, k \in 1..c : i < k => ns[i] < ns[k]
  BY <1>3 DEF Rising
<1>12. \A i \in DOMAIN f :
         f[i].type = "tool_use" => f[i].n \in S /\ IsTrue(f[i], service.calls[f[i].n])
  BY ONLY <1>6, <1>8, <1>9
<1>13. \A i, k \in DOMAIN f :
         f[i].type = "tool_use" /\ f[k].type = "tool_use" /\ i < k => f[i].n < f[k].n
  BY ONLY <1>8, <1>9, <1>11
<1> QED BY <1>3, <1>8, <1>9, <1>10, <1>12, <1>13 DEF c

-----------------------------------------------------------------------------
(* Each way a parser may go on keeps the invariant. *)

Held == UNCHANGED <<wire, loop, script>>
Waiting == Reading /\ queue = << >> /\ wire # "mock"

(* The calls that were handed on stay true as long as nothing more is said of them. *)
LEMMA HandedOnStay ==
  ASSUME UsesInv, Announced' = Announced, loop'.calls = loop.calls,
         service'.stage = "body" => service.stage = "body",
         \A i \in DOMAIN loop.calls : LET e == loop.calls[i] IN
           /\ service'.calls[e.n] = service.calls[e.n]
           /\ parse'.bufs[e.n].open => parse.bufs[e.n].open
  PROVE  \A i \in DOMAIN loop.calls : HandedOn(loop.calls[i])'
<1> SUFFICES ASSUME NEW i \in DOMAIN loop.calls PROVE HandedOn(loop.calls[i])'
  OBVIOUS
<1>1. HandedOn(loop.calls[i]) /\ (loop.calls[i])' = loop.calls[i]
  BY DEF UsesInv
<1>2. /\ service'.calls[loop.calls[i].n] = service.calls[loop.calls[i].n]
      /\ parse'.bufs[loop.calls[i].n].open => parse.bufs[loop.calls[i].n].open
  OBVIOUS
<1>3. IsTrue(loop.calls[i], service.calls[loop.calls[i].n])'
  BY ONLY <1>1, <1>2 DEF HandedOn, IsTrue
<1> QED BY ONLY <1>1, <1>2, <1>3, Announced' = Announced,
                service'.stage = "body" => service.stage = "body" DEF HandedOn

LEMMA CallsStay ==
  ASSUME UsesInv, OrderInv, Announced' = Announced, loop'.calls = loop.calls,
         service'.calls = service.calls, service'.stage = "body" => service.stage = "body",
         parse'.bufs = parse.bufs, InQueue' = {}
  PROVE  UsesInv' /\ OrderInv'
<1>1. \A i \in DOMAIN loop.calls : HandedOn(loop.calls[i])'
  BY HandedOnStay
<1>2. UsesInv'
  BY ONLY <1>1, loop'.calls = loop.calls, InQueue' = {} DEF UsesInv
<1>3. OrderInv'
  BY ONLY OrderInv, Announced' = Announced, loop'.calls = loop.calls, parse'.bufs = parse.bufs,
     InQueue' = {} DEF OrderInv
<1> QED BY <1>2, <1>3

LEMMA TextMove ==
  ASSUME Stream!StreamBounds, StreamInv, Waiting, Held,
         service.stage = "body", service.texts < MaxTexts,
         service' = [service EXCEPT !.texts = @ + 1], parse' = parse, billed' = billed,
         queue' = <<Stream!Text(service.texts + 1)>>
  PROVE  StreamInv'
<1>1. StreamTypes /\ ReplyInv /\ Announced \in Nat /\ DOMAIN service.calls = 1..Announced
  BY Shapes DEF StreamInv, Waiting
<1>2. /\ service'.stage = "body" /\ service'.calls = service.calls
      /\ service'.texts = service.texts + 1
      /\ Announced' = Announced /\ service.texts \in Nat
  BY <1>1 DEF StreamTypes, Announced
<1>3. /\ queue' \in Seq(Events) /\ Len(queue') = 1 /\ DOMAIN queue' = {1} /\ queue' # << >>
      /\ queue'[1] = [type |-> "text", n |-> service.texts + 1]
  BY <1>2 DEF Stream!Text, Events
<1>4. wire' = wire /\ loop' = loop /\ script' = script /\ Reading' = Reading
  BY DEF Held, Reading
<1>5. StreamTypes'
  <2>1. MaxTexts \in Nat
    BY DEF Stream!StreamBounds
  <2>2. service' \in [stage : Stages, texts : 0..MaxTexts, calls : Seq(Said)]
    <3>1. service \in [stage : Stages, texts : 0..MaxTexts, calls : Seq(Said)]
      BY <1>1 DEF StreamTypes
    <3>2. service.texts + 1 \in 0..MaxTexts
      BY <2>1, <3>1
    <3> QED BY <3>1, <3>2
  <2> QED BY <1>1, <1>2, <1>3, <1>4, <2>2 DEF StreamTypes
<1>6. MockInv' /\ StageInv'
  BY <1>2, <1>4 DEF MockInv, StageInv, StreamInv, Waiting
<1>7. TextInv'
  <2>1. queue = << >> /\ Len(loop.texts) \in Nat
    BY <1>1 DEF StreamTypes, Waiting
  <2>2. /\ \A i \in DOMAIN loop.texts : loop.texts[i] = i
        /\ service.texts = Len(loop.texts)
    BY <1>1, <2>1 DEF ReplyInv, TextInv, TextQueued
  <2>3. TextQueued'
    BY <1>3, <1>4 DEF TextQueued, Waiting
  <2> QED BY ONLY <1>2, <1>3, <1>4, <2>1, <2>2, <2>3 DEF TextInv
<1>8. BufferInv' /\ UsesInv' /\ OrderInv' /\ TableInv'
  <2>1. InQueue' = {}
    BY <1>3, <1>4 DEF InQueue
  <2>2. parse' = parse /\ BufferInv /\ UsesInv /\ OrderInv /\ TableInv /\ service.stage = "body"
    BY <1>1 DEF ReplyInv
  <2>3. UsesInv' /\ OrderInv'
    BY ONLY <1>2, <1>4, <2>1, <2>2, CallsStay
  <2>4. BufferInv'
    BY ONLY <1>2, <2>2 DEF BufferInv
  <2>5. TableInv'
    BY ONLY <1>2, <1>4, <2>2 DEF TableInv
  <2> QED BY <2>3, <2>4, <2>5
<1>9. BillInv' /\ DoneInv'
  BY <1>1, <1>2, <1>3, <1>4 DEF ReplyInv, BillInv, DoneInv, Closing, Waiting
<1>10. CountInv'
  <2>1. Clean /\ Left = 0 /\ Left' = 0
    BY <1>3 DEF Clean, Left, Waiting
  <2>2. Forced' = Forced /\ ~RoundWhole'
    BY <1>4 DEF Forced, RoundWhole, Waiting, Reading
  <2> QED BY <1>1, <1>2, <1>4, <2>1, <2>2 DEF ReplyInv, CountInv
<1> QED BY <1>4, <1>5, <1>6, <1>7, <1>8, <1>9, <1>10 DEF StreamInv, ReplyInv

(* A step that says no more than a part of a call. *)
Quiet ==
  /\ Held /\ queue' = << >> /\ billed' = billed
  /\ service.stage = "body" /\ service'.stage = "body" /\ service'.texts = service.texts
  /\ parse'.in = parse.in /\ parse'.out = parse.out /\ parse'.done_sent = parse.done_sent

LEMMA QuietKeeps ==
  ASSUME StreamInv, Waiting, Quiet
  PROVE  /\ MockInv' /\ StageInv' /\ TextInv' /\ BillInv' /\ DoneInv'
         /\ InQueue' = {} /\ Reading' /\ Clean' /\ Left' = 0 /\ Left = 0 /\ Clean
         /\ Forced' = Forced /\ ~RoundWhole' /\ wire' = wire /\ loop' = loop
<1>1. StreamTypes /\ ReplyInv
  BY DEF StreamInv, Waiting
<1>2. /\ wire' = wire /\ loop' = loop /\ script' = script /\ Reading /\ Reading'
      /\ queue = << >> /\ queue' = << >> /\ wire # "mock"
  BY DEF Held, Reading, Quiet, Waiting
<1>3. MockInv' /\ StageInv'
  BY <1>2 DEF MockInv, StageInv, StreamInv, Quiet
<1>4. TextInv'
  BY <1>1, <1>2 DEF ReplyInv, TextInv, TextQueued, Quiet
<1>5. BillInv' /\ DoneInv'
  BY <1>1, <1>2 DEF ReplyInv, BillInv, DoneInv, Closing, Quiet
<1>6. InQueue' = {} /\ Clean /\ Clean' /\ Left' = 0 /\ Left = 0
  BY <1>2 DEF InQueue, Clean, Left
<1>7. Forced' = Forced /\ ~RoundWhole'
  BY <1>2 DEF Forced, RoundWhole, Quiet
<1> QED BY <1>2, <1>3, <1>4, <1>5, <1>6, <1>7

LEMMA CallMove ==
  ASSUME Stream!StreamBounds, StreamInv, Waiting, NEW call \in Stream!Calls, NEW named \in BOOLEAN,
         Held, Stream!MoreCalls(call), wire = "anthropic" => Stream!Owed = {},
         parse' = Stream!NewBuffer(named), queue' = << >>
  PROVE  StreamInv'
<1> DEFINE c == [total |-> call.total, good |-> call.good, sent |-> 0, over |-> FALSE]
           b == [held |-> 0, named |-> named, open |-> TRUE]
<1>1. StreamTypes /\ ReplyInv
  BY DEF StreamInv, Waiting
<1>2. c \in Said /\ b \in Buffers
  BY DEF Said, Buffers, Stream!Calls, Stream!StreamBounds
<1>3. /\ service' = [service EXCEPT !.calls = Append(service.calls, c)] /\ billed' = billed
      /\ service.stage = "body" /\ Len(service.calls) < MaxCalls
      /\ parse' = [parse EXCEPT !.bufs = Append(parse.bufs, b)]
  BY DEF Stream!MoreCalls, Stream!NewBuffer
<1> HIDE DEF c, b
<1>4. /\ service'.stage = "body" /\ service'.texts = service.texts
      /\ service'.calls = Append(service.calls, c) /\ parse'.bufs = Append(parse.bufs, b)
      /\ parse'.in = parse.in /\ parse'.out = parse.out /\ parse'.done_sent = parse.done_sent
  BY <1>1, <1>3 DEF StreamTypes
<1>5. /\ MockInv' /\ StageInv' /\ TextInv' /\ BillInv' /\ DoneInv'
      /\ InQueue' = {} /\ Reading' /\ Clean' /\ Left' = 0 /\ Left = 0 /\ Clean
      /\ Forced' = Forced /\ ~RoundWhole' /\ wire' = wire /\ loop' = loop
  BY <1>3, <1>4, QuietKeeps DEF Quiet
<1>6. /\ Announced \in Nat /\ DOMAIN service.calls = 1..Announced
      /\ DOMAIN parse.bufs = 1..Announced
      /\ service.calls \in Seq(Said) /\ parse.bufs \in Seq(Buffers)
      /\ Len(parse.bufs) = Announced /\ Len(service.calls) = Announced
  BY <1>1, Shapes DEF StreamTypes, Announced
<1>7. /\ service'.calls \in Seq(Said) /\ parse'.bufs \in Seq(Buffers)
      /\ Announced' = Announced + 1 /\ Len(parse'.bufs) = Announced + 1
      /\ \A n \in 1..Announced : /\ service'.calls[n] = service.calls[n]
                                 /\ parse'.bufs[n] = parse.bufs[n]
      /\ service'.calls[Announced + 1] = c /\ parse'.bufs[Announced + 1] = b
  BY <1>2, <1>4, <1>6 DEF Announced
<1>8. StreamTypes'
  <2>1. service' \in [stage : Stages, texts : 0..MaxTexts, calls : Seq(Said)]
    BY <1>1, <1>3, <1>7 DEF StreamTypes
  <2>2. parse' \in [bufs : Seq(Buffers), in : Nat, out : Nat, done_sent : BOOLEAN]
    BY <1>1, <1>3, <1>7 DEF StreamTypes
  <2>3. queue' \in Seq(Events) /\ Announced' <= MaxCalls
    BY <1>3, <1>6, <1>7 DEF Stream!StreamBounds
  <2> QED BY <1>1, <1>3, <1>7, <2>1, <2>2, <2>3 DEF StreamTypes, Held
<1>9. c.sent = 0 /\ ~c.over /\ b.held = 0 /\ b.open
  BY DEF c, b
<1>10. \A n \in 1..Announced' : n = Announced + 1 \/ n \in 1..Announced
  BY <1>6, <1>7
<1>11. BufferInv' /\ UsesInv' /\ OrderInv'
  <2>1. BufferInv'
    <3>1. BufferInv
      BY <1>1 DEF ReplyInv
    <3> QED BY <1>7, <1>9, <1>10, <3>1 DEF BufferInv
  <2>2. \A i \in DOMAIN loop.calls : HandedOn(loop.calls[i])
    BY <1>1 DEF ReplyInv, UsesInv
  <2>3. ASSUME NEW i \in DOMAIN loop.calls PROVE HandedOn(loop.calls[i])'
    <3>1. loop.calls[i].n \in 1..Announced /\ loop.calls[i].n \in 1..Announced'
      BY <1>6, <1>7, <2>2 DEF HandedOn
    <3>2. /\ service'.calls[loop.calls[i].n] = service.calls[loop.calls[i].n]
          /\ parse'.bufs[loop.calls[i].n] = parse.bufs[loop.calls[i].n]
      BY <1>7, <3>1
    <3>3. /\ ~parse.bufs[loop.calls[i].n].open /\ service.calls[loop.calls[i].n].over
          /\ IsTrue(loop.calls[i], service.calls[loop.calls[i].n])
      BY <1>3, <2>2 DEF HandedOn
    <3>4. IsTrue(loop.calls[i], service.calls[loop.calls[i].n])'
      BY <1>5, <3>2, <3>3 DEF IsTrue
    <3> QED BY <1>5, <3>1, <3>2, <3>3, <3>4 DEF HandedOn
  <2>4. UsesInv'
    BY <1>5, <2>3 DEF UsesInv
  <2>5. OrderInv'
    <3>1. /\ \A i, k \in DOMAIN loop.calls : i < k => loop.calls[i].n < loop.calls[k].n
          /\ \A n \in 1..Announced : parse.bufs[n].open =>
               \A i \in DOMAIN loop.calls : loop.calls[i].n < n
      BY <1>1 DEF ReplyInv, OrderInv
    <3>2. \A i \in DOMAIN loop.calls : loop.calls[i].n < Announced + 1
      BY <1>6, <2>2 DEF HandedOn
    <3>3. \A n \in 1..Announced' : parse'.bufs[n].open =>
               \A i \in DOMAIN loop.calls : loop.calls[i].n < n
      BY <1>7, <1>10, <3>1, <3>2
    <3> QED BY <1>5, <3>1, <3>3 DEF OrderInv
  <2> QED BY <2>1, <2>4, <2>5
<1>12. TableInv'
  <2>1. wire = "anthropic" => \A n \in 1..Announced : service.calls[n].over
    BY <1>6 DEF Stream!Owed
  <2>2. \A n \in 1..Announced :
          /\ wire = "anthropic" => ~parse.bufs[n].open
          /\ wire # "anthropic" => parse.bufs[n].open
          /\ wire = "chatgpt" /\ service.calls[n].over => parse.bufs[n].named
    BY <1>1, <1>3, <2>1 DEF ReplyInv, TableInv, Waiting
  <2> QED BY <1>4, <1>5, <1>7, <1>9, <1>10, <2>1, <2>2 DEF TableInv
<1>13. CountInv'
  <2>1. wire = "anthropic" /\ ~Forced => Len(loop.calls) = Announced
    <3>1. wire = "anthropic" => \A n \in 1..Announced : ~parse.bufs[n].open
      BY <1>1, <1>3, <1>6 DEF ReplyInv, TableInv, Waiting, Stream!Owed
    <3>2. Announced > 0 => Announced \in 1..Announced
      BY <1>6
    <3>3. Len(loop.calls) \in Nat
      BY <1>1 DEF StreamTypes
    <3> QED BY <1>1, <1>3, <1>5, <3>1, <3>2, <3>3 DEF ReplyInv, CountInv, Waiting
  <2>2. Announced' > 0 /\ parse'.bufs[Announced'].open /\ Announced' - 1 = Announced
    BY <1>6, <1>7, <1>9
  <2>3. Len(loop.calls) \in Nat
    BY <1>1 DEF StreamTypes
  <2> QED BY <1>1, <1>3, <1>4, <1>5, <2>1, <2>2, <2>3 DEF ReplyInv, CountInv, Waiting
<1> QED BY <1>5, <1>8, <1>11, <1>12, <1>13 DEF StreamInv, ReplyInv

(* Something is said of a call that stays in the table. *)
LEMMA PartMove ==
  ASSUME StreamInv, Waiting, Held, service.stage = "body", NEW n \in 1..Announced,
         parse.bufs[n].open, NEW c \in Said, NEW b \in Buffers, b.open, b.held = c.sent,
         wire = "anthropic" => ~c.over, wire = "chatgpt" /\ c.over => b.named,
         service' = [service EXCEPT !.calls[n] = c], parse' = [parse EXCEPT !.bufs[n] = b],
         queue' = << >>, billed' = billed
  PROVE  StreamInv'
<1>1. StreamTypes /\ ReplyInv
  BY DEF StreamInv, Waiting
<1>2. /\ service'.stage = "body" /\ service'.texts = service.texts
      /\ service'.calls = [service.calls EXCEPT ![n] = c]
      /\ parse'.bufs = [parse.bufs EXCEPT ![n] = b]
      /\ parse'.in = parse.in /\ parse'.out = parse.out /\ parse'.done_sent = parse.done_sent
  BY <1>1 DEF StreamTypes
<1>3. /\ MockInv' /\ StageInv' /\ TextInv' /\ BillInv' /\ DoneInv'
      /\ InQueue' = {} /\ Reading' /\ Clean' /\ Left' = 0 /\ Left = 0 /\ Clean
      /\ Forced' = Forced /\ ~RoundWhole' /\ wire' = wire /\ loop' = loop
  BY <1>2, QuietKeeps DEF Quiet
<1>4. /\ Announced \in Nat /\ DOMAIN service.calls = 1..Announced
      /\ DOMAIN parse.bufs = 1..Announced
      /\ service.calls \in Seq(Said) /\ parse.bufs \in Seq(Buffers)
      /\ Len(parse.bufs) = Announced /\ Len(service.calls) = Announced
  BY <1>1, Shapes DEF StreamTypes, Announced
<1>5. /\ service'.calls \in Seq(Said) /\ parse'.bufs \in Seq(Buffers)
      /\ Announced' = Announced /\ Len(parse'.bufs) = Announced
      /\ \A m \in 1..Announced :
           m # n => service'.calls[m] = service.calls[m] /\ parse'.bufs[m] = parse.bufs[m]
      /\ service'.calls[n] = c /\ parse'.bufs[n] = b
  BY <1>2, <1>4 DEF Announced
<1>6. StreamTypes'
  <2>1. service' \in [stage : Stages, texts : 0..MaxTexts, calls : Seq(Said)]
    BY <1>1, <1>2, <1>5 DEF StreamTypes
  <2>2. parse' \in [bufs : Seq(Buffers), in : Nat, out : Nat, done_sent : BOOLEAN]
    BY <1>1, <1>2, <1>5 DEF StreamTypes
  <2> QED BY <1>1, <1>5, <2>1, <2>2 DEF StreamTypes, Held
<1>7. BufferInv'
  BY <1>1, <1>5 DEF ReplyInv, BufferInv
<1>8. \A i \in DOMAIN loop.calls :
        LET e == loop.calls[i] IN
        /\ HandedOn(e) /\ e.n # n /\ e.n \in 1..Announced
        /\ service'.calls[e.n] = service.calls[e.n] /\ parse'.bufs[e.n] = parse.bufs[e.n]
  BY <1>1, <1>5 DEF ReplyInv, UsesInv, HandedOn
<1>9. \A i \in DOMAIN loop.calls : HandedOn(loop.calls[i])'
  <2>1. UsesInv /\ loop'.calls = loop.calls
    BY <1>1, <1>3 DEF ReplyInv
  <2>2. service'.stage = "body" => service.stage = "body"
    BY <1>3
  <2> QED BY ONLY <1>5, <1>8, <2>1, <2>2, HandedOnStay
<1>10. UsesInv' /\ OrderInv'
  <2>1. UsesInv'
    BY ONLY <1>3, <1>9 DEF UsesInv
  <2>2. \A m \in 1..Announced : parse'.bufs[m].open => parse.bufs[m].open
    BY <1>5
  <2>3. OrderInv
    BY <1>1 DEF ReplyInv
  <2>4. OrderInv'
    BY ONLY <1>3, <1>5, <2>2, <2>3 DEF OrderInv
  <2> QED BY <2>1, <2>4
<1>11. TableInv'
  <2>1. \A m \in 1..Announced :
          /\ wire = "anthropic" => /\ parse.bufs[m].open <=> ~service.calls[m].over
                                   /\ parse.bufs[m].open => m = Announced
          /\ wire # "anthropic" => parse.bufs[m].open
          /\ wire = "chatgpt" /\ service.calls[m].over => parse.bufs[m].named
    BY <1>1 DEF ReplyInv, TableInv, Waiting
  <2> QED BY <1>2, <1>3, <1>5, <2>1 DEF TableInv
<1>12. CountInv'
  <2>1. Announced > 0 => Announced \in 1..Announced
    BY <1>4
  <2>2. Announced > 0 => (parse'.bufs[Announced].open <=> parse.bufs[Announced].open)
    BY <1>5, <2>1
  <2> QED BY <1>1, <1>2, <1>3, <1>5, <2>2 DEF ReplyInv, CountInv, Waiting
<1> QED BY <1>3, <1>6, <1>7, <1>10, <1>11, <1>12 DEF StreamInv, ReplyInv

LEMMA OwedIsOpen ==
  ASSUME StreamInv, Waiting, service.stage = "body", NEW n \in Stream!Owed
  PROVE  n \in 1..Announced /\ parse.bufs[n].open /\ ~service.calls[n].over
<1>1. StreamTypes /\ TableInv
  BY DEF StreamInv, Waiting, ReplyInv
<1>2. n \in 1..Announced /\ ~service.calls[n].over
  BY <1>1, Shapes DEF Stream!Owed
<1> QED BY <1>1, <1>2 DEF TableInv, Waiting

LEMMA PieceMove ==
  ASSUME StreamInv, Waiting, Held, NEW n, Stream!MorePieces(n),
         parse' = Stream!Longer(n), queue' = << >>
  PROVE  StreamInv'
<1> DEFINE c == [service.calls[n] EXCEPT !.sent = @ + 1]
           b == [parse.bufs[n] EXCEPT !.held = @ + 1]
<1>1. service.stage = "body" /\ n \in Stream!Owed
  BY DEF Stream!MorePieces
<1>2. n \in 1..Announced /\ parse.bufs[n].open /\ ~service.calls[n].over
  BY <1>1, OwedIsOpen
<1>3. StreamTypes /\ BufferInv
  BY DEF StreamInv, ReplyInv, Waiting
<1>4. /\ service.calls[n] \in Said /\ parse.bufs[n] \in Buffers
      /\ service.calls[n].sent = parse.bufs[n].held
  BY <1>2, <1>3, Shapes DEF BufferInv
<1>5. /\ c \in Said /\ ~c.over /\ c.sent = service.calls[n].sent + 1
      /\ b \in Buffers /\ b.open /\ b.held = parse.bufs[n].held + 1
  BY <1>2, <1>4 DEF Said, Buffers
<1>6. service' = [service EXCEPT !.calls[n] = c] /\ parse' = [parse EXCEPT !.bufs[n] = b]
      /\ billed' = billed
  BY DEF Stream!MorePieces, Stream!Longer
<1> HIDE DEF c, b
<1> QED BY <1>1, <1>2, <1>4, <1>5, <1>6, PartMove

LEMMA ItemDoneMove ==
  ASSUME StreamInv, Waiting, Held, NEW n, Stream!CallOver(n), wire = "chatgpt", queue' = << >>,
         parse' = [parse EXCEPT !.bufs[n] =
                     [@ EXCEPT !.held = service.calls[n].sent, !.named = TRUE]]
  PROVE  StreamInv'
<1> DEFINE c == [service.calls[n] EXCEPT !.over = TRUE]
           b == [parse.bufs[n] EXCEPT !.held = service.calls[n].sent, !.named = TRUE]
<1>1. service.stage = "body" /\ n \in Stream!Owed
  BY DEF Stream!CallOver
<1>2. n \in 1..Announced /\ parse.bufs[n].open
  BY <1>1, OwedIsOpen
<1>3. service.calls[n] \in Said /\ parse.bufs[n] \in Buffers
  BY <1>2, Shapes DEF StreamInv
<1>4. /\ c \in Said /\ c.sent = service.calls[n].sent
      /\ b \in Buffers /\ b.open /\ b.held = service.calls[n].sent /\ b.named
  BY <1>2, <1>3 DEF Said, Buffers
<1>5. service' = [service EXCEPT !.calls[n] = c] /\ parse' = [parse EXCEPT !.bufs[n] = b]
      /\ billed' = billed
  BY DEF Stream!CallOver
<1> HIDE DEF c, b
<1>6. b.held = c.sent /\ (wire = "anthropic" => ~c.over) /\ (wire = "chatgpt" /\ c.over => b.named)
  BY <1>4
<1> QED BY <1>1, <1>2, <1>4, <1>5, <1>6, PartMove

LEMMA Replaced ==
  ASSUME NEW T, NEW s \in Seq(T), NEW n \in 1..Len(s), NEW x \in T, NEW r, r = [s EXCEPT ![n] = x]
  PROVE  /\ r \in Seq(T) /\ Len(r) = Len(s) /\ r[n] = x
         /\ \A m \in 1..Len(s) : m # n => r[m] = s[m]
OBVIOUS

(* A call of Anthropic's is handed on at its end. *)
LEMMA HandOnMove ==
  ASSUME StreamInv, Waiting, Held, wire = "anthropic", service.stage = "body",
         NEW n \in 1..Announced, parse.bufs[n].open,
         NEW c \in Said, NEW b \in Buffers, NEW e \in Events,
         c.sent = service.calls[n].sent, c.total = service.calls[n].total,
         c.good = service.calls[n].good, c.over, ~b.open, b.held = parse.bufs[n].held,
         e.type \in {"tool_use", "err"},
         e.type = "tool_use" => e \in Uses /\ e.n = n /\ IsTrue(e, service.calls[n]),
         service' = [service EXCEPT !.calls[n] = c], parse' = [parse EXCEPT !.bufs[n] = b],
         billed' = billed, queue' = <<e>>
  PROVE  StreamInv'
<1>1. StreamTypes /\ ReplyInv
  BY DEF StreamInv, Waiting
<1>2. n = Announced /\ n \in Nat
  BY <1>1, Shapes DEF ReplyInv, TableInv, Waiting
<1>3. /\ service.calls[n] \in Said /\ parse.bufs[n] \in Buffers
      /\ parse.bufs[n].held = service.calls[n].sent
  BY <1>1, <1>2, Shapes DEF ReplyInv, BufferInv
<1>7. /\ service'.stage = "body" /\ service'.texts = service.texts
      /\ service'.calls = [service.calls EXCEPT ![n] = c]
      /\ parse'.bufs = [parse.bufs EXCEPT ![n] = b]
      /\ parse'.in = parse.in /\ parse'.out = parse.out /\ parse'.done_sent = parse.done_sent
  BY <1>1 DEF StreamTypes
<1>8. /\ wire' = wire /\ loop' = loop /\ script' = script /\ Reading /\ Reading'
      /\ wire = "anthropic"
      /\ queue = << >> /\ Len(queue') = 1 /\ DOMAIN queue' = {1} /\ queue'[1] = e /\ queue' # << >>
  BY DEF Held, Waiting, Reading
<1>9. /\ Announced \in Nat /\ DOMAIN service.calls = 1..Announced
      /\ DOMAIN parse.bufs = 1..Announced
      /\ service.calls \in Seq(Said) /\ parse.bufs \in Seq(Buffers)
      /\ Len(parse.bufs) = Announced /\ Len(service.calls) = Announced
  BY <1>1, Shapes DEF StreamTypes, Announced
<1>10. /\ service'.calls \in Seq(Said) /\ parse'.bufs \in Seq(Buffers)
       /\ Announced' = Announced /\ Len(parse'.bufs) = Announced
       /\ \A m \in 1..Announced :
            m # n => service'.calls[m] = service.calls[m] /\ parse'.bufs[m] = parse.bufs[m]
       /\ service'.calls[n] = c /\ parse'.bufs[n] = b
  <2>1. n \in 1..Len(service.calls) /\ n \in 1..Len(parse.bufs) /\ c \in Said /\ b \in Buffers
    BY <1>2, <1>9
  <2>2. /\ service'.calls \in Seq(Said) /\ Len(service'.calls) = Len(service.calls)
        /\ service'.calls[n] = c
        /\ \A m \in 1..Len(service.calls) : m # n => service'.calls[m] = service.calls[m]
    BY <1>7, <1>9, <2>1, Replaced
  <2>3. /\ parse'.bufs \in Seq(Buffers) /\ Len(parse'.bufs) = Len(parse.bufs)
        /\ parse'.bufs[n] = b
        /\ \A m \in 1..Len(parse.bufs) : m # n => parse'.bufs[m] = parse.bufs[m]
    BY <1>7, <1>9, <2>1, Replaced
  <2> QED BY <1>9, <2>2, <2>3 DEF Announced
<1>11. StreamTypes'
  <2>1. service' \in [stage : Stages, texts : 0..MaxTexts, calls : Seq(Said)]
    BY <1>1, <1>7, <1>10 DEF StreamTypes
  <2>2. parse' \in [bufs : Seq(Buffers), in : Nat, out : Nat, done_sent : BOOLEAN]
    BY <1>1, <1>7, <1>10 DEF StreamTypes
  <2>3. queue' \in Seq(Events)
    OBVIOUS
  <2> QED BY <1>1, <1>8, <1>10, <2>1, <2>2, <2>3 DEF StreamTypes
<1>12. MockInv' /\ StageInv' /\ TextInv'
  <2>1. MockInv' /\ StageInv'
    BY <1>7, <1>8 DEF MockInv, StageInv
  <2>2. ~TextQueued /\ ~TextQueued'
    BY <1>8 DEF TextQueued
  <2> QED BY <1>1, <1>7, <1>8, <2>1, <2>2 DEF ReplyInv, TextInv
<1>13. BillInv' /\ DoneInv'
  <2>1. BillInv'
    BY <1>1, <1>7, <1>8 DEF ReplyInv, BillInv
  <2> QED BY <1>1, <1>7, <1>8, <2>1 DEF ReplyInv, DoneInv, Closing
<1>14. BufferInv'
  BY <1>1, <1>3, <1>10 DEF ReplyInv, BufferInv
<1>15. /\ \A i \in DOMAIN loop.calls : LET d == loop.calls[i] IN
            /\ HandedOn(d) /\ d.n # n /\ d.n \in 1..Announced /\ d.n < n
            /\ service'.calls[d.n] = service.calls[d.n] /\ parse'.bufs[d.n] = parse.bufs[d.n]
       /\ \A i \in InQueue' : i = 1 /\ e.type = "tool_use" /\ e.n = n /\ IsTrue(e, service.calls[n])
  <2>1. \A i \in DOMAIN loop.calls : HandedOn(loop.calls[i]) /\ loop.calls[i].n < n
    BY <1>1, <1>2 DEF ReplyInv, UsesInv, OrderInv
  <2>2. \A i \in InQueue' : i = 1 /\ e.type = "tool_use"
    BY <1>8 DEF InQueue
  <2> QED BY <1>2, <1>10, <2>1, <2>2 DEF HandedOn
<1>16. UsesInv'
  <2>1. \A i \in DOMAIN loop.calls : HandedOn(loop.calls[i])'
    <3>1. /\ UsesInv /\ loop'.calls = loop.calls /\ Announced' = Announced
          /\ service'.stage = "body" => service.stage = "body"
      BY <1>1, <1>7, <1>8, <1>10 DEF ReplyInv
    <3> QED BY ONLY <1>15, <3>1, HandedOnStay
  <2>2. ASSUME NEW i \in InQueue' PROVE HandedOn(queue[i])'
    <3>1. queue'[i] = e /\ e.n = n /\ IsTrue(e, service.calls[n])
      BY <1>8, <1>15, <2>2
    <3>2. IsTrue(queue[i], service.calls[queue[i].n])'
      BY <1>10, <3>1 DEF IsTrue
    <3> QED BY <1>2, <1>10, <3>1, <3>2 DEF HandedOn
  <2> QED BY <1>8, <2>1, <2>2 DEF UsesInv
<1>17. OrderInv'
  <2>1. \A m \in 1..Announced : ~parse'.bufs[m].open
    BY <1>1, <1>2, <1>10 DEF ReplyInv, TableInv, Waiting
  <2>2. \A i, k \in DOMAIN loop.calls : i < k => loop.calls[i].n < loop.calls[k].n
    BY <1>1 DEF ReplyInv, OrderInv
  <2> QED BY <1>2, <1>8, <1>10, <1>15, <2>1, <2>2 DEF OrderInv
<1>18. TableInv'
  <2>1. \A m \in 1..Announced : /\ parse.bufs[m].open <=> ~service.calls[m].over
                                /\ parse.bufs[m].open => m = Announced
    BY <1>1, <1>8 DEF ReplyInv, TableInv
  <2> QED BY <1>2, <1>7, <1>8, <1>10, <2>1 DEF TableInv
<1>19. CountInv'
  <2>1. ASSUME Clean', ~Forced
        PROVE  Len(loop.calls) + Left' = Announced /\ ~parse'.bufs[Announced].open
    <3>1. Clean /\ Left = 0
      BY <1>8 DEF Clean, Left
    <3>2. Len(loop.calls) + Left = Announced - 1
      BY <1>1, <1>2, <1>8, <2>1, <3>1 DEF ReplyInv, CountInv
    <3>3. e.type = "tool_use"
      BY <1>8, <2>1 DEF Clean
    <3>4. Left' = 1
      BY <1>8, <3>3 DEF Left
    <3>5. Len(loop.calls) \in Nat
      BY <1>1 DEF StreamTypes
    <3> QED BY <1>2, <1>9, <1>10, <3>1, <3>2, <3>4, <3>5
  <2>2. Forced' = Forced /\ ~RoundWhole'
    BY <1>8, <1>7 DEF Forced, RoundWhole
  <2> QED BY <1>7, <1>8, <1>10, <2>1, <2>2 DEF CountInv
<1> QED BY <1>11, <1>12, <1>13, <1>14, <1>16, <1>17, <1>18, <1>19 DEF StreamInv, ReplyInv

LEMMA StopMove ==
  ASSUME StreamInv, Waiting, Held, NEW n, Stream!CallOver(n), wire = "anthropic",
         parse' = [parse EXCEPT !.bufs[n].open = FALSE],
         queue' = <<Stream!ToolUse(n, service.calls[n], parse.bufs[n].held)>>
  PROVE  StreamInv'
<1> DEFINE c == [service.calls[n] EXCEPT !.over = TRUE]
           b == [parse.bufs[n] EXCEPT !.open = FALSE]
           e == Stream!ToolUse(n, service.calls[n], parse.bufs[n].held)
<1>1. service.stage = "body" /\ n \in Stream!Owed
  BY DEF Stream!CallOver
<1>2. n \in 1..Announced /\ parse.bufs[n].open /\ n \in Nat
  BY <1>1, OwedIsOpen
<1>3. /\ service.calls[n] \in Said /\ parse.bufs[n] \in Buffers
      /\ parse.bufs[n].held = service.calls[n].sent
  BY <1>2, Shapes DEF StreamInv, ReplyInv, BufferInv, Waiting
<1>4. /\ c \in Said /\ c.sent = service.calls[n].sent /\ c.total = service.calls[n].total
      /\ c.good = service.calls[n].good /\ c.over
      /\ b \in Buffers /\ ~b.open /\ b.held = parse.bufs[n].held
  BY <1>3 DEF Said, Buffers
<1>5. /\ e \in Events /\ e.type \in {"tool_use", "err"}
      /\ e.type = "tool_use" => e \in Uses /\ e.n = n /\ IsTrue(e, service.calls[n])
  <2>1. service.calls[n].sent \in Nat
    BY <1>3 DEF Said
  <2>2. e = Stream!ToolUse(n, service.calls[n], service.calls[n].sent)
    BY <1>3
  <2> QED BY <1>2, <2>1, <2>2, ToolUseIs
<1>6. /\ service' = [service EXCEPT !.calls[n] = c] /\ parse' = [parse EXCEPT !.bufs[n] = b]
      /\ billed' = billed /\ queue' = <<e>>
  BY DEF Stream!CallOver
<1> HIDE DEF c, b, e
<1> QED BY <1>1, <1>2, <1>4, <1>5, <1>6, HandOnMove

(* A step after which nothing more is announced, and which hands on neither a text nor a call. *)
LEMMA EndKeeps ==
  ASSUME StreamInv, Waiting, Held, service'.stage # "body", service'.calls = service.calls,
         service'.texts = service.texts, parse'.bufs = parse.bufs,
         \A i \in DOMAIN queue' : queue'[i].type \notin {"text", "tool_use"}
  PROVE  /\ StreamTypes /\ ReplyInv /\ Announced \in Nat /\ Announced' = Announced
         /\ TextInv' /\ BufferInv' /\ UsesInv' /\ OrderInv' /\ Forced' = Forced
         /\ wire' = wire /\ loop' = loop /\ script' = script /\ Reading /\ Reading'
         /\ wire # "mock" /\ queue = << >> /\ ~RoundWhole' /\ Clean /\ Left = 0
<1>1. StreamTypes /\ ReplyInv /\ Announced \in Nat
  BY Shapes DEF StreamInv, Waiting
<1>2. /\ wire' = wire /\ loop' = loop /\ script' = script /\ Reading /\ Reading'
      /\ wire # "mock" /\ queue = << >> /\ Forced' = Forced /\ Announced' = Announced
  BY DEF Held, Waiting, Reading, Forced, Announced
<1>3. InQueue = {} /\ InQueue' = {} /\ ~TextQueued /\ ~TextQueued' /\ Clean /\ Left = 0
  BY <1>2 DEF InQueue, TextQueued, Clean, Left
<1>4. TextInv' /\ BufferInv'
  BY <1>1, <1>2, <1>3 DEF ReplyInv, TextInv, BufferInv
<1>5. UsesInv' /\ OrderInv'
  <2>1. UsesInv /\ OrderInv /\ loop'.calls = loop.calls
    BY <1>1, <1>2 DEF ReplyInv
  <2> QED BY <1>2, <1>3, <2>1, CallsStay
<1>6. ~RoundWhole'
  BY <1>2 DEF RoundWhole, Reading
<1> QED BY <1>1, <1>2, <1>3, <1>4, <1>5, <1>6

LEMMA UsageMove ==
  ASSUME StreamInv, Waiting, Held, queue' = << >>,
         service' = [service EXCEPT !.stage = "usage"], parse' = [parse EXCEPT !.in = 1, !.out = 1],
         \/ wire = "anthropic" /\ service.stage = "body" /\ Stream!Owed = {} /\ billed' = billed + 1
         \/ wire = "openai_compat" /\ service.stage = "finished" /\ billed' = billed
  PROVE  StreamInv'
<1>1. StreamTypes
  BY DEF StreamInv
<1>2. /\ service'.stage = "usage" /\ service'.calls = service.calls
      /\ service'.texts = service.texts
      /\ parse'.bufs = parse.bufs /\ parse'.in = 1 /\ parse'.out = 1
      /\ parse'.done_sent = parse.done_sent
  BY <1>1 DEF StreamTypes
<1>3. /\ ReplyInv /\ Announced \in Nat /\ Announced' = Announced
      /\ TextInv' /\ BufferInv' /\ UsesInv' /\ OrderInv' /\ Forced' = Forced
      /\ wire' = wire /\ loop' = loop /\ script' = script /\ Reading /\ Reading'
      /\ wire # "mock" /\ queue = << >> /\ ~RoundWhole' /\ Clean /\ Left = 0
  BY <1>2, EndKeeps
<1>4. StreamTypes'
  <2>1. service' \in [stage : Stages, texts : 0..MaxTexts, calls : Seq(Said)]
    BY <1>1 DEF StreamTypes, Stages
  <2>2. parse' \in [bufs : Seq(Buffers), in : Nat, out : Nat, done_sent : BOOLEAN]
    BY <1>1 DEF StreamTypes
  <2>3. billed' \in Nat /\ queue' \in Seq(Events)
    <3>0. billed \in Nat
      BY ONLY <1>1 DEF StreamTypes
    <3>1. billed' \in Nat
      BY ONLY <3>0, \/ billed' = billed + 1 \/ billed' = billed
    <3>2. queue' \in Seq(Events)
      BY <1>1 DEF StreamTypes
    <3> QED BY <3>1, <3>2
  <2> QED BY <1>1, <1>2, <1>3, <2>1, <2>2, <2>3 DEF StreamTypes
<1>5. MockInv' /\ StageInv'
  BY <1>2, <1>3 DEF MockInv, StageInv, StreamInv
<1>6. \A n \in 1..Announced : ~parse.bufs[n].open
  <2>1. CASE wire = "anthropic"
    <3>1. \A n \in 1..Announced : service.calls[n].over
      BY <1>1, <2>1, Shapes DEF Stream!Owed
    <3> QED BY <1>3, <2>1, <3>1 DEF ReplyInv, TableInv
  <2>2. CASE wire = "openai_compat"
    BY <1>3, <2>2 DEF ReplyInv, TableInv
  <2> QED BY <2>1, <2>2
<1>7. TableInv'
  <2>1. wire = "anthropic" => \A n \in 1..Announced : service.calls[n].over
    BY <1>1, Shapes DEF Stream!Owed
  <2> QED BY <1>2, <1>3, <1>6, <2>1 DEF TableInv
<1>8. BillInv'
  <2>1. /\ BillInv /\ loop.usage.in \in Nat /\ loop.round \in Nat /\ billed \in Nat
        /\ loop.state = "reading"
    BY <1>1, <1>3 DEF ReplyInv, StreamTypes, Reading
  <2>2. /\ loop.usage.in = loop.usage.out /\ loop.usage.in <= loop.round - 1
        /\ billed' = loop.usage.in + 1
    BY <1>3, <2>1 DEF BillInv
  <2> QED BY <1>2, <1>3, <2>1, <2>2 DEF BillInv
<1>9. DoneInv'
  BY <1>2, <1>3 DEF ReplyInv, DoneInv, Closing
<1>10. CountInv'
  <2>1. Left' = 0 /\ (Clean' <=> Clean)
    BY <1>3 DEF Left, Clean
  <2>2. Announced > 0 => ~parse.bufs[Announced].open
    BY <1>3, <1>6
  <2> QED BY <1>2, <1>3, <2>1, <2>2 DEF ReplyInv, CountInv
<1> QED BY <1>3, <1>4, <1>5, <1>7, <1>8, <1>9, <1>10 DEF StreamInv, ReplyInv

LEMMA MessageStopMove ==
  ASSUME StreamInv, Waiting, Held, wire = "anthropic", service.stage = "usage",
         service' = [service EXCEPT !.stage = "over"], parse' = parse, billed' = billed,
         queue' = <<Stream!Done(parse.in, parse.out)>>
  PROVE  StreamInv'
<1>1. StreamTypes
  BY DEF StreamInv
<1>2. /\ service'.stage = "over" /\ service'.calls = service.calls /\ service'.texts = service.texts
  BY <1>1 DEF StreamTypes
<1>3. /\ Len(queue') = 1 /\ DOMAIN queue' = {1} /\ queue' # << >> /\ queue' \in Seq(Events)
      /\ queue'[1].type = "done" /\ queue'[1].input_tokens = parse.in
      /\ queue'[1].output_tokens = parse.out
  <2>1. Stream!Done(parse.in, parse.out) \in Events
    BY <1>1 DEF StreamTypes, Stream!Done, Events
  <2> QED BY <2>1 DEF Stream!Done
<1>4. /\ ReplyInv /\ Announced \in Nat /\ Announced' = Announced
      /\ TextInv' /\ BufferInv' /\ UsesInv' /\ OrderInv' /\ Forced' = Forced
      /\ wire' = wire /\ loop' = loop /\ script' = script /\ Reading /\ Reading'
      /\ wire # "mock" /\ queue = << >> /\ ~RoundWhole' /\ Clean /\ Left = 0
  BY <1>2, <1>3, EndKeeps
<1>5. StreamTypes'
  <2>1. service' \in [stage : Stages, texts : 0..MaxTexts, calls : Seq(Said)]
    BY <1>1 DEF StreamTypes, Stages
  <2> QED BY <1>1, <1>2, <1>3, <1>4, <2>1 DEF StreamTypes
<1>6. MockInv' /\ StageInv' /\ TableInv'
  BY <1>2, <1>4 DEF MockInv, StageInv, StreamInv, TableInv
<1>7. BillInv'
  BY <1>2, <1>4 DEF ReplyInv, BillInv
<1>8. DoneInv'
  BY <1>2, <1>3, <1>4 DEF ReplyInv, DoneInv, Closing
<1>9. CountInv'
  <2>1. Left' = 0
    BY <1>3 DEF Left
  <2>2. Announced > 0 => ~parse.bufs[Announced].open
    BY <1>4 DEF ReplyInv, TableInv
  <2> QED BY <1>2, <1>4, <2>1, <2>2 DEF ReplyInv, CountInv
<1> QED BY <1>4, <1>5, <1>6, <1>7, <1>8, <1>9 DEF StreamInv, ReplyInv

LEMMA FailMove ==
  ASSUME StreamInv, Waiting, Held, Stream!Talking, Stream!Unreported, parse' = parse, NEW s,
         service' = [service EXCEPT !.stage = s],
         \/ s = "failed" /\ wire = "openai_compat" /\ queue' = << >>
         \/ s = "failed" /\ queue' = <<Stream!ErrorEvent>>
         \/ s = "broken" /\ queue' = <<Stream!ParseError>>
  PROVE  StreamInv'
<1>1. StreamTypes
  BY DEF StreamInv
<1>2. /\ service'.stage = s /\ service'.calls = service.calls /\ service'.texts = service.texts
      /\ s \in {"failed", "broken"}
  BY <1>1 DEF StreamTypes
<1>3. /\ queue' \in Seq(Events) /\ \A i \in DOMAIN queue' : queue'[i].type \in {"error", "err"}
      /\ queue' # << >> \/ (s = "failed" /\ wire = "openai_compat")
  <2>1. Stream!ErrorEvent \in Events /\ Stream!ParseError \in Events
    BY DEF Stream!ErrorEvent, Stream!ParseError, Events
  <2>2. CASE queue' = << >> /\ s = "failed" /\ wire = "openai_compat"
    BY <2>2
  <2>3. CASE queue' = <<Stream!ErrorEvent>>
    BY <2>1, <2>3 DEF Stream!ErrorEvent
  <2>4. CASE queue' = <<Stream!ParseError>>
    BY <2>1, <2>4 DEF Stream!ParseError
  <2> QED BY <2>2, <2>3, <2>4
<1>4. /\ ReplyInv /\ Announced \in Nat /\ Announced' = Announced
      /\ TextInv' /\ BufferInv' /\ UsesInv' /\ OrderInv' /\ Forced' = Forced
      /\ wire' = wire /\ loop' = loop /\ script' = script /\ Reading /\ Reading'
      /\ wire # "mock" /\ queue = << >> /\ ~RoundWhole' /\ Clean /\ Left = 0
  BY <1>2, <1>3, EndKeeps
<1>5. BillInv' /\ billed' \in Nat
  <2>1. BillInv /\ loop.usage.in \in Nat /\ loop.round \in Nat /\ billed \in Nat
        /\ loop.state = "reading" /\ parse.in \in Nat
    BY <1>1, <1>4 DEF ReplyInv, StreamTypes, Reading
  <2>2. /\ loop.usage.in = loop.usage.out /\ loop.usage.in <= loop.round - 1 /\ parse.in <= 1
        /\ parse.in = parse.out
        /\ service.stage = "finished" => billed = loop.usage.in + 1 /\ parse.in = 0
        /\ service.stage # "finished" => billed = loop.usage.in + parse.in
    BY <1>4, <2>1 DEF BillInv
  <2>3. billed' = loop.usage.in + parse.in
    BY <2>1, <2>2 DEF Stream!Unreported
  <2> QED BY <1>2, <1>4, <2>1, <2>2, <2>3 DEF BillInv
<1>6. StreamTypes'
  <2>1. service' \in [stage : Stages, texts : 0..MaxTexts, calls : Seq(Said)]
    BY <1>1, <1>2 DEF StreamTypes, Stages
  <2> QED BY <1>1, <1>2, <1>3, <1>4, <1>5, <2>1 DEF StreamTypes
<1>7. MockInv' /\ StageInv' /\ TableInv'
  BY <1>2, <1>4 DEF MockInv, StageInv, StreamInv, TableInv
<1>8. DoneInv'
  BY <1>2, <1>3, <1>4 DEF ReplyInv, DoneInv, Closing, Stream!Talking
<1>9. CountInv'
  BY <1>2, <1>4 DEF CountInv
<1> QED BY <1>4, <1>5, <1>6, <1>7, <1>8, <1>9 DEF StreamInv, ReplyInv

-----------------------------------------------------------------------------
(* What is buffered is handed on together. *)

Parses == [bufs : Seq(Buffers), in : Nat, out : Nat, done_sent : BOOLEAN]

LEMMA EmptiedIs ==
  ASSUME StreamTypes, NEW p \in Parses, p.bufs = parse.bufs
  PROVE  LET q == Stream!Emptied(p) IN
         /\ q \in Parses /\ Len(q.bufs) = Announced /\ q.in = p.in /\ q.out = p.out
         /\ q.done_sent = p.done_sent
         /\ \A n \in 1..Announced : ~q.bufs[n].open /\ q.bufs[n].held = parse.bufs[n].held
<1> DEFINE r == [n \in 1..Announced |-> [parse.bufs[n] EXCEPT !.open = FALSE]]
<1>1. Announced \in Nat /\ \A n \in 1..Announced : parse.bufs[n] \in Buffers
  BY Shapes
<1>2. \A n \in 1..Announced : /\ [parse.bufs[n] EXCEPT !.open = FALSE] \in Buffers
                              /\ ~r[n].open /\ r[n].held = parse.bufs[n].held
  BY <1>1 DEF Buffers
<1>3. r \in Seq(Buffers) /\ Len(r) = Announced
  <2>1. r \in [1..Announced -> Buffers]
    BY <1>2
  <2> HIDE DEF r
  <2> QED BY <1>1, <2>1
<1>4. DOMAIN p.bufs = 1..Announced
  BY Shapes
<1>5. Stream!Emptied(p) = [p EXCEPT !.bufs = r]
  BY <1>4 DEF Stream!Emptied
<1> HIDE DEF r
<1> DEFINE q == Stream!Emptied(p)
<1>6. q.bufs = r /\ q \in Parses /\ q.in = p.in /\ q.out = p.out /\ q.done_sent = p.done_sent
  BY <1>3, <1>5 DEF Parses
<1> QED BY <1>2, <1>3, <1>6

LEMMA EmptiedDone ==
  ASSUME StreamTypes, NEW p \in Parses, p.bufs = parse.bufs
  PROVE  LET q == [Stream!Emptied(p) EXCEPT !.done_sent = TRUE] IN
         /\ q \in Parses /\ Len(q.bufs) = Announced /\ q.in = p.in /\ q.out = p.out
         /\ q.done_sent
         /\ \A n \in 1..Announced : ~q.bufs[n].open /\ q.bufs[n].held = parse.bufs[n].held
<1> DEFINE q == Stream!Emptied(p)
<1>1. /\ q \in Parses /\ Len(q.bufs) = Announced /\ q.in = p.in /\ q.out = p.out
      /\ \A n \in 1..Announced : ~q.bufs[n].open /\ q.bufs[n].held = parse.bufs[n].held
  BY EmptiedIs
<1> HIDE DEF q
<1> SUFFICES LET r == [q EXCEPT !.done_sent = TRUE] IN
             /\ r \in Parses /\ Len(r.bufs) = Announced /\ r.in = p.in /\ r.out = p.out
             /\ r.done_sent
             /\ \A n \in 1..Announced : ~r.bufs[n].open /\ r.bufs[n].held = parse.bufs[n].held
  BY DEF q
<1>2. LET r == [q EXCEPT !.done_sent = TRUE] IN
      /\ r \in Parses /\ r.bufs = q.bufs /\ r.in = q.in /\ r.out = q.out /\ r.done_sent
  BY <1>1 DEF Parses
<1> QED BY <1>1, <1>2

LEMMA Appended ==
  ASSUME NEW T, NEW s \in Seq(T), NEW t \in Seq(T)
  PROVE  /\ s \o t \in Seq(T) /\ Len(s \o t) = Len(s) + Len(t)
         /\ \A i \in 1..Len(s) : (s \o t)[i] = s[i]
         /\ \A i \in 1..Len(t) : (s \o t)[Len(s) + i] = t[i]
OBVIOUS

Flushes(p, f, S, c, tail) ==
  /\ p.bufs = parse.bufs /\ f = Stream!Flushed(p)
  /\ S = {n \in 1..Announced : parse.bufs[n].open /\ (wire = "chatgpt" => parse.bufs[n].named)}
  /\ c = Cardinality(S)
  /\ parse' \in Parses /\ Len(parse'.bufs) = Announced
  /\ \A n \in 1..Announced : ~parse'.bufs[n].open /\ parse'.bufs[n].held = parse.bufs[n].held
  /\ queue' = f \o tail /\ (tail = << >> \/ tail = <<Stream!Done(parse'.in, parse'.out)>>)
  /\ service'.stage # "body" /\ service'.calls = service.calls /\ service'.texts = service.texts

LEMMA FlushKeeps ==
  ASSUME StreamInv, Waiting, Held, NEW p, NEW f, NEW S, NEW c, NEW tail, Flushes(p, f, S, c, tail)
  PROVE  /\ StreamTypes /\ ReplyInv /\ Announced \in Nat /\ Announced' = Announced
         /\ TextInv' /\ BufferInv' /\ UsesInv' /\ OrderInv' /\ Forced' = Forced
         /\ wire' = wire /\ loop' = loop /\ script' = script /\ Reading /\ Reading'
         /\ wire # "mock" /\ queue = << >> /\ ~RoundWhole' /\ Clean /\ Left = 0
         /\ queue' \in Seq(Events) /\ c \in Nat /\ Len(queue') = c + Len(tail)
         /\ DOMAIN queue' = 1..(c + Len(tail))
         /\ \A i \in 1..c : queue'[i].type \in {"tool_use", "err"}
         /\ tail # << >> => /\ Len(tail) = 1 /\ queue'[c + 1].type = "done"
                            /\ queue'[c + 1].input_tokens = parse'.in
                            /\ queue'[c + 1].output_tokens = parse'.out
<1> USE DEF Flushes
<1>1. StreamTypes /\ ReplyInv /\ Announced \in Nat
  BY Shapes DEF StreamInv, Waiting
<1>2. /\ wire' = wire /\ loop' = loop /\ script' = script /\ Reading /\ Reading'
      /\ wire # "mock" /\ queue = << >> /\ Forced' = Forced /\ Announced' = Announced
      /\ Clean /\ Left = 0 /\ ~RoundWhole' /\ ~TextQueued
  BY DEF Held, Waiting, Reading, Forced, Announced, Clean, Left, RoundWhole, TextQueued
<1>3. /\ f \in Seq(Events) /\ c \in Nat /\ Len(f) = c
      /\ \A i \in 1..c : /\ f[i].type \in {"tool_use", "err"}
                         /\ f[i].type = "tool_use" =>
                              f[i].n \in S /\ IsTrue(f[i], service.calls[f[i].n])
      /\ \A i, k \in 1..c :
           f[i].type = "tool_use" /\ f[k].type = "tool_use" /\ i < k => f[i].n < f[k].n
  <2>1. BufferInv
    BY <1>1 DEF ReplyInv
  <2>2. /\ f \in Seq(Events) /\ IsFiniteSet(S) /\ Len(f) = c
        /\ \A i \in DOMAIN f :
              /\ f[i].type \in {"tool_use", "err"}
              /\ f[i].type = "tool_use" => f[i].n \in S /\ IsTrue(f[i], service.calls[f[i].n])
        /\ \A i, k \in DOMAIN f :
              f[i].type = "tool_use" /\ f[k].type = "tool_use" /\ i < k => f[i].n < f[k].n
    BY <1>1, <2>1, FlushedIs
  <2>3. c \in Nat /\ DOMAIN f = 1..c
    BY <2>2
  <2> QED BY <2>2, <2>3
<1>4. /\ tail \in Seq(Events)
      /\ tail # << >> => /\ Len(tail) = 1 /\ tail[1].type = "done"
                         /\ tail[1].input_tokens = parse'.in /\ tail[1].output_tokens = parse'.out
      /\ tail = << >> => Len(tail) = 0
  <2>1. CASE tail = << >>
    BY <2>1
  <2>2. CASE tail = <<Stream!Done(parse'.in, parse'.out)>>
    <3>1. Stream!Done(parse'.in, parse'.out) \in Events
      BY DEF Stream!Done, Events, Parses
    <3> QED BY <2>2, <3>1 DEF Stream!Done
  <2> QED BY <2>1, <2>2
<1>5. /\ queue' \in Seq(Events) /\ Len(queue') = c + Len(tail)
      /\ \A i \in 1..c : queue'[i] = f[i]
      /\ tail # << >> => queue'[c + 1] = tail[1]
  <2>1. /\ queue' \in Seq(Events) /\ Len(queue') = Len(f) + Len(tail)
        /\ \A i \in 1..Len(f) : queue'[i] = f[i]
        /\ \A i \in 1..Len(tail) : queue'[Len(f) + i] = tail[i]
    <3>1. f \in Seq(Events) /\ tail \in Seq(Events)
      BY <1>3, <1>4
    <3>2. /\ f \o tail \in Seq(Events) /\ Len(f \o tail) = Len(f) + Len(tail)
          /\ \A i \in 1..Len(f) : (f \o tail)[i] = f[i]
          /\ \A i \in 1..Len(tail) : (f \o tail)[Len(f) + i] = tail[i]
      BY ONLY <3>1, Appended
    <3> QED BY <3>2, Zenon
  <2>2. tail # << >> => 1 \in 1..Len(tail)
    BY <1>4
  <2>3. Len(f) = c
    BY <1>3
  <2> QED BY ONLY <2>1, <2>2, <2>3
<1>6. DOMAIN queue' = 1..(c + Len(tail)) /\ Len(tail) \in {0, 1}
  BY ONLY <1>3, <1>4, <1>5
<1>7. \A i \in DOMAIN queue' : \/ i \in 1..c /\ queue'[i] = f[i]
                               \/ i = c + 1 /\ queue'[i].type = "done"
  <2>1. c \in Nat
    BY <1>3
  <2>2. CASE tail = << >>
    BY ONLY <1>4, <1>5, <1>6, <2>1, <2>2
  <2>3. CASE tail # << >>
    <3>1. queue'[c + 1].type = "done" /\ DOMAIN queue' = 1..(c + 1)
      BY <1>4, <1>5, <1>6, <2>3
    <3> QED BY ONLY <1>5, <2>1, <3>1
  <2> QED BY <2>2, <2>3
<1>8. ~TextQueued' /\ \A i \in InQueue' : i \in 1..c /\ queue'[i] = f[i] /\ f[i].type = "tool_use"
  BY <1>3, <1>7 DEF TextQueued, InQueue
<1>9. TextInv' /\ BufferInv'
  BY <1>1, <1>2, <1>8 DEF ReplyInv, TextInv, BufferInv
<1>10. \A i \in DOMAIN loop.calls : HandedOn(loop.calls[i]) /\ HandedOn(loop.calls[i])'
  <2>1. UsesInv /\ loop'.calls = loop.calls
    BY <1>1, <1>2 DEF ReplyInv
  <2>2. \A i \in DOMAIN loop.calls : loop.calls[i].n \in 1..Announced
    BY <2>1 DEF UsesInv, HandedOn
  <2>3. \A n \in 1..Announced : parse'.bufs[n].open => parse.bufs[n].open
    BY <1>2
  <2>4. service'.calls = service.calls /\ (service'.stage = "body" => service.stage = "body")
    OBVIOUS
  <2>5. \A i \in DOMAIN loop.calls : HandedOn(loop.calls[i])'
    BY ONLY <1>2, <2>1, <2>2, <2>3, <2>4, HandedOnStay
  <2> QED BY <2>1, <2>5 DEF UsesInv
<1>11. ASSUME NEW i \in InQueue' PROVE HandedOn(queue[i])' /\ queue'[i].n \in S
  <2>1. /\ queue'[i] = f[i] /\ f[i].n \in S /\ f[i].n \in 1..Announced
        /\ IsTrue(f[i], service.calls[f[i].n])
    BY <1>3, <1>8, <1>11
  <2>2. IsTrue(queue[i], service.calls[queue[i].n])'
    BY <2>1 DEF IsTrue
  <2> QED BY <1>2, <2>1, <2>2 DEF HandedOn
<1>12. UsesInv'
  BY <1>2, <1>10, <1>11 DEF UsesInv
<1>13. OrderInv'
  <2>1. \A i, k \in DOMAIN loop.calls : i < k => loop.calls[i].n < loop.calls[k].n
    BY <1>1 DEF ReplyInv, OrderInv
  <2>2. \A n \in S : \A i \in DOMAIN loop.calls : loop.calls[i].n < n
    BY <1>1 DEF ReplyInv, OrderInv
  <2>3. \A i, k \in InQueue' : i < k => queue'[i].n < queue'[k].n
    BY <1>3, <1>8
  <2> QED BY <1>2, <1>11, <2>1, <2>2, <2>3 DEF OrderInv
<1> QED BY <1>1, <1>2, <1>3, <1>4, <1>5, <1>6, <1>9, <1>12, <1>13

LEMMA UpTo ==
  ASSUME NEW n \in Nat
  PROVE  Cardinality(1..n) = n
<1>1. Cardinality(1..n) = IF 1 > n THEN 0 ELSE n - 1 + 1
  BY FS_Interval
<1> QED BY <1>1

LEMMA FinishMove ==
  ASSUME StreamInv, Waiting, Held, wire = "openai_compat", service.stage = "body",
         service' = [service EXCEPT !.stage = "finished"], billed' = billed + 1,
         parse' = Stream!Emptied(parse), queue' = Stream!Flushed(parse)
  PROVE  StreamInv'
<1> DEFINE S == {n \in 1..Announced :
                   parse.bufs[n].open /\ (wire = "chatgpt" => parse.bufs[n].named)}
           c == Cardinality(S)
           f == Stream!Flushed(parse)
<1>1. StreamTypes /\ parse \in Parses
  BY DEF StreamInv, StreamTypes, Parses
<1>2. /\ service'.stage = "finished" /\ service'.calls = service.calls
      /\ service'.texts = service.texts
  BY <1>1 DEF StreamTypes
<1>3. /\ parse' \in Parses /\ Len(parse'.bufs) = Announced /\ parse'.in = parse.in
      /\ parse'.out = parse.out /\ parse'.done_sent = parse.done_sent
      /\ \A n \in 1..Announced : ~parse'.bufs[n].open /\ parse'.bufs[n].held = parse.bufs[n].held
  BY <1>1, EmptiedIs
<1>4. queue' = f \o << >>
  <2>1. f \in Seq(Events)
    BY <1>1, FlushedIs DEF StreamInv, ReplyInv, Waiting
  <2> HIDE DEF f
  <2>2. f \o << >> = f
    BY <2>1
  <2> QED BY <2>2 DEF f
<1> HIDE DEF f, S, c
<1>5. /\ StreamTypes /\ ReplyInv /\ Announced \in Nat /\ Announced' = Announced
      /\ TextInv' /\ BufferInv' /\ UsesInv' /\ OrderInv' /\ Forced' = Forced
      /\ wire' = wire /\ loop' = loop /\ script' = script /\ Reading /\ Reading'
      /\ wire # "mock" /\ queue = << >> /\ ~RoundWhole' /\ Clean /\ Left = 0
      /\ queue' \in Seq(Events) /\ c \in Nat /\ Len(queue') = c + 0
      /\ \A i \in 1..c : queue'[i].type \in {"tool_use", "err"}
  <2>1. /\ f = Stream!Flushed(parse) /\ c = Cardinality(S)
        /\ S = {n \in 1..Announced :
                  parse.bufs[n].open /\ (wire = "chatgpt" => parse.bufs[n].named)}
    BY DEF f, S, c
  <2>2. service'.stage # "body"
    BY <1>2
  <2> DEFINE tail == << >>
  <2>3. tail = << >> /\ queue' = f \o tail /\ Len(tail) = 0
    BY <1>4
  <2> HIDE DEF tail
  <2>4. Flushes(parse, f, S, c, tail)
    BY <1>2, <1>3, <2>1, <2>2, <2>3 DEF Flushes
  <2> QED BY ONLY StreamInv, Waiting, Held, <2>3, <2>4, FlushKeeps
<1>6. StreamTypes'
  <2>1. service' \in [stage : Stages, texts : 0..MaxTexts, calls : Seq(Said)]
    BY <1>1 DEF StreamTypes, Stages
  <2>2. billed' \in Nat
    BY <1>1 DEF StreamTypes
  <2> QED BY ONLY <1>1, <1>2, <1>3, <1>5, <2>1, <2>2 DEF StreamTypes, Parses
<1>7. MockInv' /\ StageInv'
  BY <1>2, <1>5 DEF MockInv, StageInv, StreamInv
<1>8. TableInv'
  <2>1. \A n \in 1..Announced : ~parse'.bufs[n].open
    BY <1>3
  <2> QED BY <1>2, <1>5, <2>1 DEF TableInv
<1>9. BillInv'
  <2>1. /\ BillInv /\ loop.usage.in \in Nat /\ loop.round \in Nat /\ billed \in Nat
        /\ loop.state = "reading"
    <3>1. BillInv /\ loop.state = "reading"
      BY <1>5 DEF ReplyInv, Reading
    <3>2. StreamTypes
      BY <1>5
    <3>3. loop.usage.in \in Nat /\ loop.round \in Nat /\ billed \in Nat
      BY ONLY <3>2 DEF StreamTypes
    <3> QED BY <3>1, <3>3
  <2>2. /\ loop.usage.in = loop.usage.out /\ loop.usage.in <= loop.round - 1
        /\ parse.in = 0 /\ parse.out = 0 /\ billed' = loop.usage.in + 1
    BY <1>5, <2>1 DEF BillInv
  <2> QED BY <1>2, <1>3, <1>5, <2>1, <2>2 DEF BillInv
<1>10. DOMAIN queue' = 1..c /\ Len(queue') = c
  BY <1>5
<1>11. DoneInv'
  <2>1. \A i \in DOMAIN queue' : queue'[i].type # "done"
    BY <1>5, <1>10
  <2>2. DoneInv
    BY <1>5 DEF ReplyInv
  <2> QED BY <1>2, <1>3, <1>5, <2>1, <2>2 DEF DoneInv, Closing
<1>12. CountInv'
  <2>1. c = Announced
    <3>1. S = 1..Announced
      BY <1>5 DEF ReplyInv, TableInv, S
    <3>2. Cardinality(1..Announced) = Announced
      BY <1>5, UpTo
    <3> QED BY <3>1, <3>2 DEF c
  <2>2. Left' = c
    <3>1. CASE queue' = << >>
      BY <1>10, <3>1 DEF Left
    <3>2. CASE queue' # << >>
      <4>1. c \in 1..c /\ queue'[c].type \in {"tool_use", "err"}
        BY <1>5, <1>10, <3>2
      <4> QED BY <1>10, <3>2, <4>1 DEF Left
    <3> QED BY <3>1, <3>2
  <2>3. ~Forced => Len(loop.calls) = 0
    <3>1. Len(loop.calls) \in Nat
      BY <1>1 DEF StreamTypes
    <3> QED BY <1>5, <3>1 DEF ReplyInv, CountInv
  <2> QED BY <1>2, <1>5, <2>1, <2>2, <2>3 DEF CountInv
<1> QED BY <1>5, <1>6, <1>7, <1>8, <1>9, <1>11, <1>12 DEF StreamInv, ReplyInv

(* A reply that ends where it should: everything buffered is handed on, and one Done. *)
LEMMA OverMove ==
  ASSUME StreamInv, Waiting, Held, NEW p,
         service' = [service EXCEPT !.stage = "over"],
         parse' = [Stream!Emptied(p) EXCEPT !.done_sent = TRUE],
         queue' = Stream!Flushed(p) \o Stream!FinalDone(p),
         \/ /\ wire = "openai_compat" /\ service.stage = "usage" /\ p = parse /\ billed' = billed
         \/ /\ wire = "chatgpt" /\ service.stage = "body" /\ Stream!Owed = {}
            /\ p = [parse EXCEPT !.in = 1, !.out = 1] /\ billed' = billed + 1
  PROVE  StreamInv'
<1> DEFINE S == {n \in 1..Announced :
                   parse.bufs[n].open /\ (wire = "chatgpt" => parse.bufs[n].named)}
           c == Cardinality(S)
           f == Stream!Flushed(p)
           tail == Stream!FinalDone(p)
<1>1. /\ StreamTypes /\ ReplyInv /\ parse \in Parses
      /\ Reading /\ wire # "mock" /\ queue = << >>
  BY DEF StreamInv, StreamTypes, Parses, Waiting
<1>2. /\ service'.stage = "over" /\ service'.calls = service.calls /\ service'.texts = service.texts
  BY <1>1 DEF StreamTypes
<1>3. ~parse.done_sent
  BY <1>1 DEF ReplyInv, DoneInv, Closing
<1>4. /\ BillInv /\ loop.usage.in \in Nat /\ loop.round \in Nat /\ billed \in Nat
      /\ loop.state = "reading"
  BY <1>1 DEF ReplyInv, StreamTypes, Reading
<1>5. /\ loop.usage.in = loop.usage.out /\ loop.usage.in <= loop.round - 1
      /\ billed' = loop.usage.in + 1
      /\ p \in Parses /\ p.bufs = parse.bufs /\ p.in = 1 /\ p.out = 1 /\ p.done_sent = FALSE
  <2>1. CASE wire = "openai_compat" /\ service.stage = "usage" /\ p = parse /\ billed' = billed
    BY <1>1, <1>3, <1>4, <2>1 DEF BillInv, Parses
  <2>2. CASE /\ wire = "chatgpt" /\ service.stage = "body"
             /\ p = [parse EXCEPT !.in = 1, !.out = 1] /\ billed' = billed + 1
    <3>1. /\ billed' = loop.usage.in + 1 /\ loop.usage.in = loop.usage.out
          /\ loop.usage.in <= loop.round - 1
      BY <1>1, <1>4, <2>2 DEF BillInv
    <3> QED BY <1>1, <1>3, <2>2, <3>1 DEF Parses
  <2> QED BY <2>1, <2>2
<1>6. /\ parse' \in Parses /\ Len(parse'.bufs) = Announced /\ parse'.in = 1
      /\ parse'.out = 1 /\ parse'.done_sent
      /\ \A n \in 1..Announced : ~parse'.bufs[n].open /\ parse'.bufs[n].held = parse.bufs[n].held
  BY <1>1, <1>5, EmptiedDone
<1>7. tail = <<Stream!Done(parse'.in, parse'.out)>>
  BY <1>5, <1>6 DEF Stream!FinalDone
<1>8. /\ f = Stream!Flushed(p) /\ queue' = f \o tail /\ c = Cardinality(S)
      /\ S = {n \in 1..Announced : parse.bufs[n].open /\ (wire = "chatgpt" => parse.bufs[n].named)}
  OBVIOUS
<1> HIDE DEF f, tail, S, c
<1>9. /\ StreamTypes /\ ReplyInv /\ Announced \in Nat /\ Announced' = Announced
      /\ TextInv' /\ BufferInv' /\ UsesInv' /\ OrderInv' /\ Forced' = Forced
      /\ wire' = wire /\ loop' = loop /\ script' = script /\ Reading /\ Reading'
      /\ wire # "mock" /\ queue = << >> /\ ~RoundWhole' /\ Clean /\ Left = 0
      /\ queue' \in Seq(Events) /\ c \in Nat /\ Len(queue') = c + 1
      /\ \A i \in 1..c : queue'[i].type \in {"tool_use", "err"}
      /\ queue'[c + 1].type = "done" /\ queue'[c + 1].input_tokens = 1
      /\ queue'[c + 1].output_tokens = 1
  <2>1. tail # << >>
    BY <1>7
  <2>2. Flushes(p, f, S, c, tail)
    BY <1>2, <1>5, <1>6, <1>7, <1>8 DEF Flushes
  <2>3. /\ StreamTypes /\ ReplyInv /\ Announced \in Nat /\ Announced' = Announced
        /\ TextInv' /\ BufferInv' /\ UsesInv' /\ OrderInv' /\ Forced' = Forced
        /\ wire' = wire /\ loop' = loop /\ script' = script /\ Reading /\ Reading'
        /\ wire # "mock" /\ queue = << >> /\ ~RoundWhole' /\ Clean /\ Left = 0
    BY <2>2, FlushKeeps
  <2>4. /\ queue' \in Seq(Events) /\ c \in Nat /\ Len(queue') = c + Len(tail)
        /\ \A i \in 1..c : queue'[i].type \in {"tool_use", "err"}
        /\ Len(tail) = 1 /\ queue'[c + 1].type = "done"
        /\ queue'[c + 1].input_tokens = parse'.in /\ queue'[c + 1].output_tokens = parse'.out
    BY <2>1, <2>2, FlushKeeps
  <2> QED BY <1>6, <2>3, <2>4
<1>10. StreamTypes'
  <2>1. service' \in [stage : Stages, texts : 0..MaxTexts, calls : Seq(Said)]
    BY <1>1 DEF StreamTypes, Stages
  <2>2. billed' \in Nat
    BY <1>4, <1>5
  <2> QED BY <1>1, <1>2, <1>6, <1>9, <2>1, <2>2 DEF StreamTypes, Parses
<1>11. MockInv' /\ StageInv' /\ TableInv'
  BY <1>2, <1>9 DEF MockInv, StageInv, StreamInv, TableInv
<1>12. BillInv'
  BY ONLY <1>2, <1>4, <1>5, <1>6, <1>9 DEF BillInv, Reading
<1>13. DOMAIN queue' = 1..(c + 1) /\ Len(queue') = c + 1 /\ queue' # << >>
  BY <1>9
<1>14. DoneInv'
  <2>1. \A i \in DOMAIN queue' : queue'[i].type = "done" => i = c + 1
    BY ONLY <1>9, <1>13
  <2> QED BY <1>2, <1>6, <1>9, <1>13, <2>1 DEF DoneInv, Closing
<1>15. CountInv'
  <2>1. Left' = c
    BY <1>9, <1>13 DEF Left
  <2>2. ~Forced => Len(loop.calls) + c = Announced
    <3>1. Len(loop.calls) \in Nat
      BY <1>1 DEF StreamTypes
    <3>2. CASE wire = "openai_compat" /\ service.stage = "usage"
      <4>1. S = {}
        BY <1>1, <3>2 DEF ReplyInv, TableInv, S
      <4>2. c = 0
        BY <4>1, FS_EmptySet DEF c
      <4> QED BY <1>9, <3>1, <3>2, <4>2 DEF ReplyInv, CountInv
    <3>3. CASE wire = "chatgpt" /\ service.stage = "body" /\ Stream!Owed = {}
      <4>1. \A n \in 1..Announced : service.calls[n].over
        BY <1>1, <3>3, Shapes DEF Stream!Owed
      <4>2. S = 1..Announced
        BY <1>1, <3>3, <4>1 DEF ReplyInv, TableInv, S
      <4>3. c = Announced
        BY <1>9, <4>2, UpTo DEF c
      <4> QED BY <1>9, <3>1, <3>3, <4>3 DEF ReplyInv, CountInv
    <3> QED BY <3>2, <3>3
  <2> QED BY <1>2, <1>9, <2>1, <2>2 DEF CountInv
<1> QED BY <1>9, <1>10, <1>11, <1>12, <1>14, <1>15 DEF StreamInv, ReplyInv

(* A stream that stops: what is buffered is handed on, and Anthropic's parser sends no Done. *)
LEMMA CutMove ==
  ASSUME StreamInv, Waiting, Held, Stream!Cut, NEW tail,
         queue' = Stream!Flushed(parse) \o tail,
         \/ /\ wire = "anthropic" /\ tail = << >> /\ parse' = Stream!Emptied(parse)
         \/ /\ wire # "anthropic" /\ tail = Stream!FinalDone(parse)
            /\ parse' = [Stream!Emptied(parse) EXCEPT !.done_sent = TRUE]
  PROVE  StreamInv'
<1> DEFINE S == {n \in 1..Announced :
                   parse.bufs[n].open /\ (wire = "chatgpt" => parse.bufs[n].named)}
           c == Cardinality(S)
           f == Stream!Flushed(parse)
           s == IF service.stage = "failed" THEN "cut_failed" ELSE "cut"
<1>1. /\ StreamTypes /\ ReplyInv /\ parse \in Parses
      /\ Reading /\ wire # "mock" /\ queue = << >>
  BY DEF StreamInv, StreamTypes, Parses, Waiting
<1>2. /\ service.stage \in {"body", "finished", "usage", "failed"}
      /\ service' = [service EXCEPT !.stage = s] /\ Stream!Unreported
  BY DEF Stream!Cut, Stream!Talking
<1>3. /\ service'.stage = s /\ service'.calls = service.calls /\ service'.texts = service.texts
      /\ s \in {"cut", "cut_failed"} /\ (s = "cut_failed" <=> service.stage = "failed")
  BY <1>1, <1>2 DEF StreamTypes
<1>4. service.stage = "failed" => wire = "openai_compat"
  BY <1>1 DEF ReplyInv, DoneInv
<1>5. ~parse.done_sent
  BY <1>1, <1>2 DEF ReplyInv, DoneInv, Closing
<1>6. /\ parse' \in Parses /\ Len(parse'.bufs) = Announced
      /\ parse'.in = parse.in /\ parse'.out = parse.out
      /\ \A n \in 1..Announced : ~parse'.bufs[n].open /\ parse'.bufs[n].held = parse.bufs[n].held
  <2>1. CASE parse' = Stream!Emptied(parse)
    BY <1>1, <2>1, EmptiedIs
  <2>2. CASE parse' = [Stream!Emptied(parse) EXCEPT !.done_sent = TRUE]
    BY <1>1, <2>2, EmptiedDone
  <2> QED BY <2>1, <2>2
<1>7. /\ wire = "anthropic" => tail = << >>
      /\ wire # "anthropic" => tail = <<Stream!Done(parse'.in, parse'.out)>>
  BY <1>5, <1>6 DEF Stream!FinalDone
<1>8. /\ f = Stream!Flushed(parse) /\ c = Cardinality(S)
      /\ S = {n \in 1..Announced : parse.bufs[n].open /\ (wire = "chatgpt" => parse.bufs[n].named)}
      /\ queue' = f \o tail
  OBVIOUS
<1> HIDE DEF f, S, c, s
<1>9. Flushes(parse, f, S, c, tail)
  <2>1. service'.stage # "body"
    BY <1>3
  <2> QED BY ONLY <1>3, <1>6, <1>7, <1>8, <2>1 DEF Flushes
<1>10. /\ Announced \in Nat /\ Announced' = Announced
       /\ TextInv' /\ BufferInv' /\ UsesInv' /\ OrderInv' /\ Forced' = Forced
       /\ wire' = wire /\ loop' = loop /\ script' = script /\ Reading'
       /\ ~RoundWhole' /\ queue' \in Seq(Events)
  BY <1>9, FlushKeeps
<1>11. /\ c \in Nat /\ Len(queue') = c + Len(tail) /\ DOMAIN queue' = 1..(c + Len(tail))
       /\ \A i \in 1..c : queue'[i].type \in {"tool_use", "err"}
       /\ tail # << >> => /\ Len(tail) = 1 /\ queue'[c + 1].type = "done"
                          /\ queue'[c + 1].input_tokens = parse'.in
                          /\ queue'[c + 1].output_tokens = parse'.out
  BY <1>9, FlushKeeps
<1>12. BillInv' /\ billed' \in Nat
  <2>1. BillInv /\ loop.usage.in \in Nat /\ loop.round \in Nat /\ billed \in Nat
        /\ loop.state = "reading" /\ parse.in \in Nat
    BY <1>1 DEF ReplyInv, StreamTypes, Reading
  <2>2. /\ loop.usage.in = loop.usage.out /\ loop.usage.in <= loop.round - 1 /\ parse.in <= 1
        /\ parse.in = parse.out
        /\ service.stage = "finished" => billed = loop.usage.in + 1 /\ parse.in = 0
        /\ service.stage # "finished" => billed = loop.usage.in + parse.in
    BY <1>1, <2>1 DEF BillInv
  <2>3. billed' = loop.usage.in + parse.in
    BY <1>2, <2>1, <2>2 DEF Stream!Unreported
  <2> QED BY ONLY <1>3, <1>6, <1>10, <2>1, <2>2, <2>3 DEF BillInv
<1>13. StreamTypes'
  <2>1. service' \in [stage : Stages, texts : 0..MaxTexts, calls : Seq(Said)]
    BY <1>1, <1>2, <1>3 DEF StreamTypes, Stages
  <2> QED BY <1>1, <1>3, <1>6, <1>10, <1>12, <2>1 DEF StreamTypes, Parses
<1>14. MockInv' /\ StageInv' /\ TableInv' /\ CountInv'
  <2>1. MockInv' /\ StageInv'
    BY <1>1, <1>3, <1>4, <1>10 DEF MockInv, StageInv
  <2>2. TableInv' /\ CountInv'
    BY <1>3, <1>10 DEF TableInv, CountInv
  <2> QED BY <2>1, <2>2
<1>15. DoneInv'
  <2>1. \A i \in DOMAIN queue' : queue'[i].type = "done" =>
          /\ i = Len(queue') /\ queue'[i].input_tokens = parse'.in
          /\ queue'[i].output_tokens = parse'.out
    <3>1. CASE tail = << >>
      <4>1. Len(tail) = 0
        BY <3>1
      <4> QED BY ONLY <1>11, <4>1
    <3>2. CASE tail # << >>
      <4>1. /\ c \in Nat /\ Len(queue') = c + 1 /\ DOMAIN queue' = 1..(c + 1)
            /\ queue'[c + 1].input_tokens = parse'.in /\ queue'[c + 1].output_tokens = parse'.out
        BY ONLY <1>11, <3>2, Zenon
      <4>2. \A i \in 1..c : queue'[i].type # "done"
        BY ONLY <1>11
      <4>3. \A i \in 1..(c + 1) : i \in 1..c \/ i = c + 1
        BY ONLY <4>1
      <4> QED BY ONLY <4>1, <4>2, <4>3
    <3> QED BY <3>1, <3>2
  <2>2. wire # "anthropic" => queue' # << >> /\ queue'[Len(queue')].type = "done"
    <3>1. SUFFICES ASSUME wire # "anthropic"
                   PROVE  queue' # << >> /\ queue'[Len(queue')].type = "done"
      OBVIOUS
    <3>2. tail # << >>
      BY ONLY <1>7, <3>1
    <3>3. /\ c \in Nat /\ Len(queue') = c + 1 /\ queue'[c + 1].type = "done"
          /\ DOMAIN queue' = 1..(c + 1)
      BY ONLY <1>11, <3>2, Zenon
    <3>4. queue' # << >>
      BY ONLY <1>10, <3>3
    <3> QED BY <3>3, <3>4
  <2> QED BY ONLY <1>3, <1>4, <1>10, <2>1, <2>2 DEF DoneInv, Closing
<1> QED BY <1>1, <1>10, <1>12, <1>13, <1>14, <1>15 DEF StreamInv, ReplyInv

-----------------------------------------------------------------------------
(* What is queued is heard. *)

Hears(t) ==
  /\ Reading /\ queue # << >> /\ queue' = Tail(queue) /\ loop' = t
  /\ UNCHANGED <<wire, service, parse, script, billed>>

Loops == [state : States, round : 1..(MaxToolTurns + 1), texts : Seq(Nat), calls : Seq(Uses),
          usage : [in : Nat, out : Nat]]

LEMMA TailIs ==
  ASSUME NEW T, NEW s \in Seq(T), s # << >>
  PROVE  /\ Tail(s) \in Seq(T) /\ Len(Tail(s)) = Len(s) - 1 /\ Len(s) \in Nat \ {0}
         /\ DOMAIN Tail(s) = 1..(Len(s) - 1) /\ DOMAIN s = 1..Len(s)
         /\ \A i \in 1..(Len(s) - 1) : Tail(s)[i] = s[i + 1] /\ i + 1 \in 1..Len(s)
         /\ Head(s) = s[1] /\ s[1] \in T
OBVIOUS

(* The queue before and after. *)
LEMMA HearsKeeps ==
  ASSUME StreamInv, NEW t \in Loops, Hears(t)
  PROVE  /\ StreamTypes' /\ MockInv' /\ (t.state # "reading" => StageInv')
         /\ (t.state = "reading" => StageInv')
         /\ queue \in Seq(Events) /\ queue # << >> /\ Len(queue) \in Nat \ {0}
         /\ DOMAIN queue = 1..Len(queue)
         /\ Head(queue) = queue[1] /\ queue[1] \in Events /\ loop.state = "reading" /\ Reading
         /\ queue' \in Seq(Events) /\ Len(queue') = Len(queue) - 1
         /\ DOMAIN queue' = 1..(Len(queue) - 1)
         /\ \A i \in 1..(Len(queue) - 1) : queue'[i] = queue[i + 1] /\ i + 1 \in 1..Len(queue)
         /\ Announced \in Nat /\ Announced' = Announced
         /\ wire' = wire /\ service' = service /\ parse' = parse /\ billed' = billed /\ loop' = t
<1>1. StreamTypes /\ Announced \in Nat
  BY Shapes DEF StreamInv
<1>2. /\ queue \in Seq(Events) /\ queue # << >> /\ queue' = Tail(queue)
      /\ loop.state = "reading" /\ Reading
      /\ wire' = wire /\ service' = service /\ parse' = parse /\ billed' = billed /\ loop' = t
      /\ script' = script /\ Announced' = Announced
  BY <1>1 DEF StreamTypes, Hears, Reading, Announced
<1>3. /\ queue' \in Seq(Events) /\ Len(queue') = Len(queue) - 1 /\ Len(queue) \in Nat \ {0}
      /\ DOMAIN queue' = 1..(Len(queue) - 1) /\ DOMAIN queue = 1..Len(queue)
      /\ \A i \in 1..(Len(queue) - 1) : queue'[i] = queue[i + 1] /\ i + 1 \in 1..Len(queue)
      /\ Head(queue) = queue[1] /\ queue[1] \in Events
  BY ONLY <1>2, TailIs
<1>4. StreamTypes'
  BY <1>1, <1>2, <1>3 DEF StreamTypes, Loops
<1>5. MockInv' /\ StageInv'
  BY <1>2 DEF MockInv, StageInv, StreamInv, Reading
<1> QED BY <1>1, <1>2, <1>3, <1>4, <1>5

LEMMA HearText ==
  ASSUME StreamInv, queue # << >>, Head(queue).type = "text",
         Hears([loop EXCEPT !.texts = Append(@, Head(queue).n)])
  PROVE  StreamInv'
<1> DEFINE t == [loop EXCEPT !.texts = Append(loop.texts, queue[1].n)]
<1>1. StreamTypes
  BY DEF StreamInv
<1>2. queue[1] \in Events /\ Head(queue) = queue[1]
  BY <1>1, TailIs DEF StreamTypes
<1>3. queue[1].type = "text" /\ queue[1].n \in Nat
  BY <1>2 DEF Events, Uses
<1> HIDE DEF t
<1>4. /\ t \in Loops /\ t.state = loop.state /\ t.round = loop.round /\ t.calls = loop.calls
      /\ t.usage = loop.usage /\ t.texts = Append(loop.texts, queue[1].n)
  <2>1. loop \in Loops
    BY <1>1 DEF StreamTypes, Loops
  <2>2. Append(loop.texts, queue[1].n) \in Seq(Nat)
    BY ONLY <1>3, <2>1 DEF Loops
  <2> QED BY ONLY <2>1, <2>2 DEF Loops, t
<1>5. Hears(t)
  BY <1>2 DEF t
<1> HIDE DEF t
<1>6. /\ StreamTypes' /\ MockInv' /\ StageInv'
      /\ queue \in Seq(Events) /\ queue # << >> /\ Len(queue) \in Nat \ {0}
      /\ DOMAIN queue = 1..Len(queue)
      /\ loop.state = "reading" /\ Reading
      /\ queue' \in Seq(Events) /\ Len(queue') = Len(queue) - 1
      /\ Announced \in Nat /\ Announced' = Announced
      /\ wire' = wire /\ service' = service /\ parse' = parse /\ billed' = billed /\ loop' = t
  BY <1>4, <1>5, HearsKeeps
<1> SUFFICES ASSUME wire # "mock" PROVE ReplyInv'
  BY <1>6 DEF StreamInv
<1>7. ReplyInv
  BY DEF StreamInv
<1>8. TextQueued
  BY <1>3, <1>6 DEF TextQueued
<1>9. /\ Len(queue) = 1 /\ queue[1].n = service.texts /\ service.texts = Len(loop.texts) + 1
      /\ \A i \in DOMAIN loop.texts : loop.texts[i] = i
      /\ loop.texts \in Seq(Nat)
  BY <1>1, <1>7, <1>8 DEF ReplyInv, TextInv, StreamTypes
<1>10. queue' = << >> /\ DOMAIN queue = {1} /\ DOMAIN queue' = {}
  BY <1>6, <1>9
<1>11. TextInv'
  <2>1. Len(t.texts) = Len(loop.texts) + 1 /\ \A i \in DOMAIN t.texts : t.texts[i] = i
    BY <1>4, <1>9
  <2>2. ~TextQueued'
    BY <1>10 DEF TextQueued
  <2> QED BY <1>6, <1>9, <2>1, <2>2 DEF TextInv
<1>12. InQueue = {} /\ InQueue' = {} /\ Clean /\ Clean' /\ Left = 0 /\ Left' = 0 /\ Reading'
  BY <1>3, <1>4, <1>6, <1>9, <1>10 DEF InQueue, Clean, Left, Reading
<1>13. BufferInv' /\ UsesInv' /\ OrderInv' /\ TableInv'
  <2>1. /\ BufferInv /\ UsesInv /\ OrderInv /\ TableInv
        /\ loop'.calls = loop.calls /\ Reading' = Reading
    BY <1>4, <1>6, <1>7, <1>12 DEF ReplyInv
  <2>2. UsesInv' /\ OrderInv'
    BY ONLY <1>6, <1>12, <2>1, CallsStay
  <2> QED BY ONLY <1>6, <2>1, <2>2 DEF BufferInv, TableInv
<1>14. BillInv'
  BY <1>4, <1>6, <1>7, <1>12 DEF ReplyInv, BillInv
<1>15. DoneInv'
  BY <1>3, <1>6, <1>7, <1>9, <1>10, <1>12 DEF ReplyInv, DoneInv, Closing
<1>16. CountInv'
  <2>1. (Forced' <=> Forced) /\ ~RoundWhole'
    BY <1>4, <1>6 DEF Forced, RoundWhole
  <2> QED BY <1>4, <1>6, <1>7, <1>12, <2>1 DEF ReplyInv, CountInv
<1> QED BY <1>11, <1>13, <1>14, <1>15, <1>16 DEF ReplyInv

LEMMA HearError ==
  ASSUME StreamInv, queue # << >>, Head(queue).type \in {"error", "err"},
         Hears([loop EXCEPT !.state = "internal"])
  PROVE  StreamInv'
<1> DEFINE t == [loop EXCEPT !.state = "internal"]
<1>1. StreamTypes
  BY DEF StreamInv
<1>2. /\ t \in Loops /\ t.state = "internal" /\ t.round = loop.round /\ t.calls = loop.calls
      /\ t.usage = loop.usage /\ t.texts = loop.texts
  BY <1>1 DEF StreamTypes, Loops, States
<1> HIDE DEF t
<1>3. /\ StreamTypes' /\ MockInv' /\ StageInv'
      /\ queue \in Seq(Events) /\ queue # << >> /\ Head(queue) = queue[1]
      /\ loop.state = "reading" /\ Reading
      /\ Announced' = Announced
      /\ wire' = wire /\ service' = service /\ parse' = parse /\ billed' = billed /\ loop' = t
  <2>1. Hears(t)
    BY DEF t
  <2> QED BY <1>2, <2>1, HearsKeeps
<1> SUFFICES ASSUME wire # "mock" PROVE ReplyInv'
  BY <1>3 DEF StreamInv
<1>4. ReplyInv
  BY DEF StreamInv
<1>5. ~TextQueued /\ ~TextQueued' /\ InQueue' = {} /\ ~Reading'
  <2>1. ~TextQueued
    BY <1>3, <1>4 DEF ReplyInv, TextInv
  <2> QED BY <1>2, <1>3, <2>1 DEF TextQueued, InQueue, Reading
<1>6. TextInv' /\ BufferInv' /\ UsesInv' /\ OrderInv' /\ TableInv'
  <2>1. /\ TextInv /\ BufferInv /\ UsesInv /\ OrderInv /\ TableInv
        /\ loop'.calls = loop.calls /\ loop'.texts = loop.texts
    BY <1>2, <1>3, <1>4 DEF ReplyInv
  <2>2. UsesInv' /\ OrderInv'
    BY ONLY <1>3, <1>5, <2>1, CallsStay
  <2> QED BY ONLY <1>3, <1>5, <2>1, <2>2 DEF TextInv, BufferInv, TableInv
<1>7. BillInv' /\ DoneInv'
  BY <1>2, <1>3, <1>4, <1>5 DEF ReplyInv, BillInv, DoneInv
<1>8. CountInv'
  BY <1>2, <1>3, <1>5 DEF CountInv, RoundWhole
<1> QED BY <1>6, <1>7, <1>8 DEF ReplyInv

LEMMA HearCall ==
  ASSUME StreamInv, queue # << >>, Head(queue).type = "tool_use", NEW t, Hears(t),
         t = IF Forced THEN loop ELSE [loop EXCEPT !.calls = Append(@, Head(queue))]
  PROVE  StreamInv'
<1> DEFINE e == queue[1]
           all == IF Forced THEN loop.calls ELSE Append(loop.calls, e)
<1>1. StreamTypes
  BY DEF StreamInv
<1>2. e \in Events /\ Head(queue) = e
  BY <1>1, TailIs DEF StreamTypes
<1>3. e.type = "tool_use" /\ e \in Uses
  BY <1>2 DEF Events, Uses
<1>4. loop \in Loops
  BY <1>1 DEF StreamTypes, Loops
<1>5. loop.calls \in Seq(Uses) /\ Append(loop.calls, e) \in Seq(Uses) /\ all \in Seq(Uses)
  BY <1>3, <1>4 DEF Loops
<1>6. t = [loop EXCEPT !.calls = all]
  BY <1>2, <1>4 DEF Loops
<1>7. /\ t \in Loops /\ t.state = loop.state /\ t.round = loop.round /\ t.calls = all
      /\ t.usage = loop.usage /\ t.texts = loop.texts
  BY ONLY <1>4, <1>5, <1>6 DEF Loops
<1>8. /\ StreamTypes' /\ MockInv' /\ StageInv'
      /\ queue \in Seq(Events) /\ queue # << >> /\ Len(queue) \in Nat \ {0}
      /\ DOMAIN queue = 1..Len(queue)
      /\ loop.state = "reading" /\ Reading
      /\ queue' \in Seq(Events) /\ Len(queue') = Len(queue) - 1
      /\ DOMAIN queue' = 1..(Len(queue) - 1)
      /\ \A i \in 1..(Len(queue) - 1) : queue'[i] = queue[i + 1] /\ i + 1 \in 1..Len(queue)
      /\ Announced \in Nat /\ Announced' = Announced
      /\ wire' = wire /\ service' = service /\ parse' = parse /\ billed' = billed /\ loop' = t
  BY <1>7, HearsKeeps
<1> SUFFICES ASSUME wire # "mock" PROVE ReplyInv'
  BY <1>8 DEF StreamInv
<1>9. ReplyInv /\ Reading' /\ (Forced' <=> Forced)
  BY <1>7, <1>8 DEF StreamInv, Reading, Forced
<1>10. 1 \in InQueue /\ 1 \in DOMAIN queue
  BY <1>3, <1>8 DEF InQueue
<1>11. ~TextQueued /\ ~TextQueued'
  <2>1. ~TextQueued
    BY <1>3, <1>9 DEF ReplyInv, TextInv
  <2> QED BY <1>8, <2>1 DEF TextQueued
<1> HIDE DEF e
<1>12. TextInv' /\ BufferInv'
  BY <1>7, <1>8, <1>9, <1>11 DEF ReplyInv, TextInv, BufferInv
<1>13. \A i \in InQueue' :
         i \in 1..(Len(queue) - 1) /\ i + 1 \in InQueue /\ queue'[i] = queue[i + 1]
  BY <1>8, <1>9 DEF InQueue
<1>14. e = queue[1] /\ HandedOn(e) /\ \A i \in DOMAIN loop.calls : loop.calls[i].n < e.n
  <2>1. e = queue[1]
    BY DEF e
  <2> QED BY <1>9, <1>10, <2>1 DEF ReplyInv, UsesInv, OrderInv
<1>15. /\ DOMAIN loop.calls = 1..Len(loop.calls) /\ Len(loop.calls) \in Nat
       /\ ~Forced => /\ DOMAIN all = 1..(Len(loop.calls) + 1) /\ all[Len(loop.calls) + 1] = e
                     /\ Len(all) = Len(loop.calls) + 1
                     /\ \A i \in 1..Len(loop.calls) : all[i] = loop.calls[i]
       /\ Forced => all = loop.calls
  BY <1>5
<1> HIDE DEF all
<1>16. UsesInv'
  <2>1. \A i \in DOMAIN all : HandedOn(all[i])
    <3>1. \A i \in DOMAIN loop.calls : HandedOn(loop.calls[i])
      BY <1>9 DEF ReplyInv, UsesInv
    <3>2. CASE Forced
      BY <1>15, <3>1, <3>2
    <3>3. CASE ~Forced
      BY <1>14, <1>15, <3>1, <3>3
    <3> QED BY <3>2, <3>3
  <2>2. \A i \in InQueue : HandedOn(queue[i])
    BY <1>9 DEF ReplyInv, UsesInv
  <2>3. \A i \in DOMAIN loop'.calls : HandedOn(loop.calls[i])'
    <3>1. loop'.calls = all
      BY <1>7, <1>8
    <3>2. ASSUME NEW i \in DOMAIN loop'.calls PROVE HandedOn(loop.calls[i])'
      <4>1. HandedOn(loop'.calls[i])
        BY <2>1, <3>1, <3>2
      <4> QED BY <1>8, <4>1 DEF HandedOn, IsTrue
    <3> QED BY <3>2
  <2>4. ASSUME NEW i \in InQueue' PROVE HandedOn(queue[i])'
    <3>1. HandedOn(queue'[i])
      BY <1>13, <2>2, <2>4
    <3> QED BY <1>8, <3>1 DEF HandedOn, IsTrue
  <2> QED BY <2>3, <2>4 DEF UsesInv
<1>17. \A i \in DOMAIN all : \/ i \in DOMAIN loop.calls /\ all[i] = loop.calls[i]
                             \/ all[i] = e /\ i = Len(all)
  BY <1>15
<1>18. OrderInv'
  <2>1. OrderInv
    BY <1>9 DEF ReplyInv
  <2>2. \A i, k \in DOMAIN all : i < k => all[i].n < all[k].n
    <3>1. CASE Forced
      BY <1>15, <2>1, <3>1 DEF OrderInv
    <3>2. CASE ~Forced
      <4>1. ASSUME NEW i \in DOMAIN all, NEW k \in DOMAIN all, i < k PROVE all[i].n < all[k].n
        <5>1. i \in 1..Len(loop.calls) /\ (k \in 1..Len(loop.calls) \/ k = Len(loop.calls) + 1)
          BY <1>15, <3>2, <4>1
        <5>2. all[i] = loop.calls[i]
          BY <1>15, <5>1
        <5>3. CASE k \in 1..Len(loop.calls)
          BY <1>15, <2>1, <4>1, <5>1, <5>2, <5>3 DEF OrderInv
        <5>4. CASE k = Len(loop.calls) + 1
          BY <1>14, <1>15, <3>2, <5>1, <5>2, <5>4
        <5> QED BY <5>1, <5>3, <5>4
      <4> QED BY <4>1
    <3> QED BY <3>1, <3>2
  <2>3. \A i, k \in InQueue' : i < k => queue'[i].n < queue'[k].n
    BY <1>13, <2>1 DEF OrderInv
  <2>4. \A k \in InQueue' : e.n < queue'[k].n
    BY <1>10, <1>13, <1>14, <2>1 DEF OrderInv
  <2>5. \A i \in DOMAIN all, k \in InQueue' : all[i].n < queue'[k].n
    BY <1>13, <1>17, <2>1, <2>4 DEF OrderInv
  <2>6. \A n \in 1..Announced : parse.bufs[n].open =>
          /\ \A i \in DOMAIN all : all[i].n < n
          /\ \A i \in InQueue' : queue'[i].n < n
    BY <1>10, <1>13, <1>14, <1>17, <2>1 DEF OrderInv
  <2>7. loop'.calls = all /\ parse' = parse /\ Announced' = Announced
    BY <1>7, <1>8
  <2> QED BY ONLY <2>2, <2>3, <2>5, <2>6, <2>7 DEF OrderInv
<1>19. TableInv' /\ BillInv'
  BY <1>7, <1>8, <1>9 DEF ReplyInv, TableInv, BillInv
<1>20. Len(queue) > 1 => /\ Len(queue') >= 1 /\ queue' # << >>
                         /\ queue'[Len(queue')] = queue[Len(queue)]
  <2>1. SUFFICES ASSUME Len(queue) > 1
                 PROVE  /\ Len(queue') >= 1 /\ queue' # << >>
                        /\ queue'[Len(queue')] = queue[Len(queue)]
    OBVIOUS
  <2>2. Len(queue) - 1 \in 1..(Len(queue) - 1) /\ Len(queue') >= 1
    BY <1>8, <2>1
  <2>3. queue'[Len(queue) - 1] = queue[Len(queue) - 1 + 1]
    BY <1>8, <2>2
  <2> QED BY <1>8, <2>2, <2>3
<1>21. Len(queue) = 1 => queue' = << >> /\ queue[Len(queue)] = e
  BY <1>8, <1>14
<1>22. Len(queue) = 1 \/ Len(queue) > 1
  BY <1>8
<1>23. DoneInv'
  <2>1. DoneInv
    BY <1>9 DEF ReplyInv
  <2>2. \A i \in DOMAIN queue' : queue'[i].type = "done" =>
          /\ i = Len(queue') /\ queue'[i].input_tokens = parse.in
          /\ queue'[i].output_tokens = parse.out
          /\ Closing
    BY <1>8, <1>9, <2>1 DEF DoneInv
  <2>3. (Closing' <=> Closing) /\ e.type = "tool_use"
    BY <1>3, <1>8 DEF Closing
  <2> QED BY <1>8, <1>9, <1>20, <1>21, <1>22, <2>1, <2>2, <2>3 DEF DoneInv
<1>24. CountInv'
  <2>1. ~RoundWhole'
    BY <1>9 DEF RoundWhole, Reading
  <2>2. Clean' => Clean
    <3>1. \A i \in 1..Len(queue) : i = 1 \/ (i - 1 \in 1..(Len(queue) - 1) /\ (i - 1) + 1 = i)
      BY <1>8
    <3> QED BY <1>3, <1>8, <1>14, <3>1 DEF Clean
  <2>3. Left = Left' + 1 /\ Left' \in Nat
    <3>1. e.type = "tool_use"
      BY <1>3
    <3>2. CASE Len(queue) = 1
      BY <1>8, <1>21, <3>1, <3>2 DEF Left
    <3>3. CASE Len(queue) > 1
      BY <1>8, <1>20, <3>3 DEF Left
    <3> QED BY <1>22, <3>2, <3>3
  <2>4. ~Forced => Len(loop'.calls) + Left' = Len(loop.calls) + Left
    <3>1. loop'.calls = all
      BY <1>7, <1>8
    <3>2. ~Forced => Len(loop'.calls) = Len(loop.calls) + 1
      BY ONLY <1>15, <3>1
    <3>3. Len(loop.calls) \in Nat
      BY ONLY <1>15
    <3> QED BY ONLY <2>3, <3>2, <3>3
  <2> QED BY <1>8, <1>9, <2>1, <2>2, <2>4 DEF ReplyInv, CountInv
<1> QED BY <1>12, <1>16, <1>18, <1>19, <1>23, <1>24 DEF ReplyInv

LEMMA HearDone ==
  ASSUME Stream!StreamBounds, Stream!WireNames, StreamInv, queue # << >>, Head(queue).type = "done",
         NEW t, Hears(t), NEW u,
         u = [in |-> loop.usage.in + Head(queue).input_tokens,
              out |-> loop.usage.out + Head(queue).output_tokens],
         t = IF Forced \/ loop.calls = << >> THEN [loop EXCEPT !.usage = u, !.state = "ok"]
             ELSE [loop EXCEPT !.usage = u, !.state = "ask", !.round = @ + 1]
  PROVE  StreamInv'
<1> DEFINE e == queue[1]
<1>1. StreamTypes
  BY DEF StreamInv
<1>2. e \in Events /\ Head(queue) = e
  BY <1>1, TailIs DEF StreamTypes
<1>3. e.type = "done" /\ e.input_tokens \in Nat /\ e.output_tokens \in Nat
  BY <1>2 DEF Events, Uses
<1> HIDE DEF e
<1>4. loop \in Loops /\ MaxToolTurns \in Nat
  BY <1>1 DEF StreamTypes, Loops, Stream!StreamBounds
<1>5. /\ u \in [in : Nat, out : Nat] /\ u.in = loop.usage.in + e.input_tokens
      /\ u.out = loop.usage.out + e.output_tokens
  <2>1. loop.usage.in \in Nat /\ loop.usage.out \in Nat
    BY ONLY <1>4 DEF Loops
  <2>2. u = [in |-> loop.usage.in + e.input_tokens, out |-> loop.usage.out + e.output_tokens]
    BY <1>2
  <2> QED BY ONLY <1>3, <2>1, <2>2
<1>6. \/ /\ Forced \/ loop.calls = << >>
         /\ t = [loop EXCEPT !.usage = u, !.state = "ok"]
      \/ /\ ~Forced /\ loop.round <= MaxToolTurns
         /\ t = [loop EXCEPT !.usage = u, !.state = "ask", !.round = @ + 1]
  BY <1>4 DEF Forced, Loops
<1>7. /\ t \in Loops /\ t.calls = loop.calls /\ t.usage = u /\ t.texts = loop.texts
      /\ \/ t.state = "ok" /\ t.round = loop.round
         \/ t.state = "ask" /\ t.round = loop.round + 1 /\ ~Forced
  <2>1. CASE t = [loop EXCEPT !.usage = u, !.state = "ok"]
    BY ONLY <1>4, <1>5, <2>1 DEF Loops, States
  <2>2. CASE /\ ~Forced /\ loop.round <= MaxToolTurns
             /\ t = [loop EXCEPT !.usage = u, !.state = "ask", !.round = @ + 1]
    <3>1. loop.round + 1 \in 1..(MaxToolTurns + 1)
      BY ONLY <1>4, <2>2 DEF Loops
    <3>2. t = [loop EXCEPT !.usage = u, !.state = "ask", !.round = loop.round + 1] /\ ~Forced
      BY <2>2
    <3> QED BY ONLY <1>4, <1>5, <3>1, <3>2 DEF Loops, States
  <2> QED BY <1>6, <2>1, <2>2
<1>8. /\ StreamTypes' /\ MockInv' /\ StageInv'
      /\ queue \in Seq(Events) /\ queue # << >> /\ Len(queue) \in Nat \ {0}
      /\ DOMAIN queue = 1..Len(queue)
      /\ loop.state = "reading" /\ Reading
      /\ queue' \in Seq(Events) /\ Len(queue') = Len(queue) - 1
      /\ Announced \in Nat /\ Announced' = Announced
      /\ wire' = wire /\ service' = service /\ parse' = parse /\ billed' = billed /\ loop' = t
  <2>1. t.state # "reading"
    BY <1>7
  <2> QED BY <1>7, <2>1, HearsKeeps
<1> SUFFICES ASSUME wire # "mock" PROVE ReplyInv'
  BY <1>8 DEF StreamInv
<1>9. ReplyInv /\ ~Reading' /\ InQueue' = {}
  BY <1>7, <1>8 DEF StreamInv, Reading, InQueue
<1>10. 1 \in DOMAIN queue /\ queue[1] = e
  BY <1>8 DEF e
<1>11. /\ Len(queue) = 1 /\ e.input_tokens = parse.in /\ e.output_tokens = parse.out /\ Closing
  BY <1>3, <1>8, <1>9, <1>10 DEF ReplyInv, DoneInv
<1>12. ~TextQueued /\ ~TextQueued'
  BY <1>3, <1>9, <1>10 DEF ReplyInv, TextInv, TextQueued
<1>13. TextInv' /\ BufferInv' /\ UsesInv' /\ OrderInv' /\ TableInv' /\ DoneInv'
  <2>1. loop'.calls = loop.calls /\ loop'.texts = loop.texts
    BY <1>7, <1>8
  <2>2. TextInv /\ BufferInv /\ UsesInv /\ OrderInv
    BY <1>9 DEF ReplyInv
  <2>3. TextInv'
    BY ONLY <1>8, <1>12, <2>1, <2>2 DEF TextInv
  <2>4. BufferInv' /\ TableInv' /\ DoneInv'
    BY ONLY <1>8, <1>9, <2>2 DEF BufferInv, TableInv, DoneInv
  <2>5. UsesInv' /\ OrderInv'
    <3>1. service'.calls = service.calls /\ service'.stage = service.stage
          /\ parse'.bufs = parse.bufs /\ Announced' = Announced /\ InQueue' = {}
      BY <1>8, <1>9
    <3> QED BY ONLY <2>1, <2>2, <3>1, CallsStay
  <2> QED BY <2>3, <2>4, <2>5
<1>14. BillInv'
  <2>1. BillInv /\ loop.usage.in \in Nat /\ loop.round \in Nat /\ billed \in Nat /\ parse.in \in Nat
    BY ONLY <1>1, <1>9 DEF ReplyInv, StreamTypes
  <2>2. /\ loop.usage.in = loop.usage.out /\ loop.usage.in <= loop.round - 1 /\ parse.in <= 1
        /\ parse.in = parse.out /\ billed = loop.usage.in + parse.in
    BY <1>8, <1>11, <2>1 DEF BillInv, Closing
  <2>3. u.in = billed /\ u.out = billed
    BY <1>5, <1>11, <2>2
  <2> QED BY ONLY <1>7, <1>8, <1>9, <2>1, <2>2, <2>3 DEF BillInv
<1>15. CountInv'
  <2>1. RoundWhole' => service.stage = "over" /\ ~Forced
    BY <1>7, <1>8 DEF RoundWhole, Forced
  <2>2. Clean /\ Left = 0
    BY <1>3, <1>8, <1>10, <1>11 DEF Clean, Left
  <2>3. service.stage = "over" /\ ~Forced => Len(loop.calls) + 0 = Announced
    <3>1. wire \in {"anthropic", "openai_compat", "chatgpt"}
      BY <1>1 DEF StreamTypes, Stream!WireNames
    <3>2. CountInv
      BY <1>9 DEF ReplyInv
    <3> QED BY <1>8, <2>2, <3>1, <3>2 DEF CountInv
  <2>4. Len(loop.calls) \in Nat
    BY <1>4 DEF Loops
  <2> QED BY <1>7, <1>8, <1>9, <2>1, <2>3, <2>4 DEF CountInv
<1> QED BY <1>13, <1>14, <1>15 DEF ReplyInv

(* The stream gives no more. *)
LEMMA ExhaustedMove ==
  ASSUME StreamInv, Stream!Exhausted
  PROVE  StreamInv'
<1>1. /\ StreamTypes /\ queue = << >> /\ Reading /\ loop.state = "reading"
      /\ service.stage \in {"cut", "cut_failed", "closed"}
  BY DEF StreamInv, Stream!Exhausted, Stream!Polled, Reading
<1> DEFINE s == IF Forced THEN "ok" ELSE "internal"
<1>2. /\ loop' = [loop EXCEPT !.state = s] /\ s \in {"ok", "internal"}
      /\ wire' = wire /\ service' = service /\ parse' = parse /\ queue' = queue
      /\ script' = script /\ billed' = billed
  <2>1. s \in {"ok", "internal"}
    OBVIOUS
  <2>2. loop' = Stream!End(s)
    BY Zenon DEF Stream!Exhausted, Stream!Forced, Forced
  <2>3. UNCHANGED <<wire, service, parse, queue, script, billed>>
    BY DEF Stream!Exhausted
  <2> HIDE DEF s
  <2> QED BY ONLY <2>1, <2>2, <2>3 DEF Stream!End
<1> HIDE DEF s
<1>3. loop \in Loops
  BY <1>1 DEF StreamTypes, Loops
<1>4. /\ loop' \in Loops /\ loop'.state = s /\ loop'.round = loop.round /\ loop'.calls = loop.calls
      /\ loop'.usage = loop.usage /\ loop'.texts = loop.texts
  BY ONLY <1>2, <1>3 DEF Loops, States
<1>5. StreamTypes' /\ MockInv' /\ StageInv' /\ ~Reading'
  <2>1. Announced' = Announced /\ ~Reading'
    BY <1>2, <1>4 DEF Announced, Reading
  <2> QED BY <1>1, <1>2, <1>4, <2>1 DEF StreamTypes, MockInv, StageInv, StreamInv, Loops
<1> SUFFICES ASSUME wire # "mock" PROVE ReplyInv'
  BY <1>2, <1>5 DEF StreamInv
<1>6. ReplyInv /\ InQueue' = {} /\ ~TextQueued /\ ~TextQueued' /\ Announced' = Announced
  BY <1>1, <1>2, <1>5 DEF StreamInv, InQueue, TextQueued, Announced
<1>7. service.stage = "cut"
  BY <1>1, <1>6 DEF ReplyInv, DoneInv, Closing, StreamInv, StageInv
<1>8. TextInv' /\ BufferInv' /\ UsesInv' /\ OrderInv' /\ TableInv' /\ DoneInv'
  <2>1. TextInv /\ BufferInv /\ UsesInv /\ OrderInv
    BY <1>6 DEF ReplyInv
  <2>2. UsesInv' /\ OrderInv'
    BY ONLY <1>2, <1>4, <1>6, <2>1, CallsStay
  <2> QED BY ONLY <1>2, <1>4, <1>5, <1>6, <2>1, <2>2 DEF TextInv, BufferInv, TableInv, DoneInv
<1>9. BillInv'
  BY <1>2, <1>4, <1>5, <1>6, <1>7 DEF ReplyInv, BillInv
<1>10. CountInv'
  BY <1>2, <1>5, <1>7 DEF CountInv, RoundWhole
<1> QED BY <1>8, <1>9, <1>10 DEF ReplyInv

-----------------------------------------------------------------------------
(* A round begins. *)

LEMMA AskKeeps ==
  ASSUME StreamInv, NEW outcome \in States, Stream!Ask(outcome), NEW s \in Stages,
         service' = [Stream!NoReply EXCEPT !.stage = s], queue' \in Seq(Events),
         script' \in [play : Scripts, at : Nat], script'.at <= Len(script'.play),
         outcome # "ask", wire = "mock" => s \in {"none", "closed"},
         s \in {"none", "body"} \/ (s = "closed" /\ wire = "mock"),
         outcome = "reading" => s # "none", outcome # "ok",
         wire # "mock" => queue' = << >>, Stream!StreamBounds
  PROVE  StreamInv'
<1>1. StreamTypes
  BY DEF StreamInv
<1>2. /\ loop.state = "ask"
      /\ loop' = [loop EXCEPT !.state = outcome, !.texts = << >>, !.calls = << >>]
      /\ parse' = [bufs |-> << >>, in |-> 0, out |-> 0, done_sent |-> FALSE]
      /\ wire' = wire /\ billed' = billed
      /\ service' = [stage |-> s, texts |-> 0, calls |-> << >>]
  BY DEF Stream!Ask, Stream!NewParse, Stream!NoReply
<1>3. loop \in Loops /\ MaxTexts \in Nat /\ MaxCalls \in Nat
  BY <1>1 DEF StreamTypes, Loops, Stream!StreamBounds
<1>4. /\ loop' \in Loops /\ loop'.state = outcome /\ loop'.round = loop.round /\ loop'.texts = << >>
      /\ loop'.calls = << >> /\ loop'.usage = loop.usage
  <2>1. << >> \in Seq(Nat) /\ << >> \in Seq(Uses)
    OBVIOUS
  <2> QED BY ONLY <1>2, <1>3, <2>1, outcome \in States DEF Loops
<1>5. Announced' = 0 /\ (Reading' <=> outcome = "reading") /\ 1..0 = {}
  BY <1>2, <1>4 DEF Announced, Reading
<1>6. StreamTypes'
  <2>1. service' \in [stage : Stages, texts : 0..MaxTexts, calls : Seq(Said)]
    <3>1. << >> \in Seq(Said) /\ 0 \in 0..MaxTexts
      BY <1>3
    <3> QED BY ONLY <1>2, <3>1, s \in Stages
  <2>2. /\ parse' \in [bufs : Seq(Buffers), in : Nat, out : Nat, done_sent : BOOLEAN]
        /\ Len(parse'.bufs) = 0
    BY <1>2
  <2> QED BY <1>1, <1>2, <1>3, <1>4, <1>5, <2>1, <2>2 DEF StreamTypes, Loops
<1>7. MockInv' /\ StageInv'
  <2>1. MockInv'
    BY <1>2, <1>5 DEF MockInv, StreamInv
  <2> QED BY <1>2, <1>4, <1>5, <2>1 DEF StageInv
<1> SUFFICES ASSUME wire # "mock" PROVE ReplyInv'
  BY <1>2, <1>6, <1>7 DEF StreamInv
<1>8. /\ BillInv /\ queue' = << >> /\ ~TextQueued' /\ InQueue' = {} /\ s \in {"none", "body"}
  <2>1. queue' = << >> /\ DOMAIN queue' = {} /\ s \in {"none", "body"}
    OBVIOUS
  <2> QED BY <2>1 DEF StreamInv, ReplyInv, TextQueued, InQueue
<1>9. TextInv' /\ BufferInv' /\ UsesInv' /\ OrderInv' /\ TableInv'
  <2>1. /\ DOMAIN loop'.calls = {} /\ DOMAIN loop'.texts = {} /\ Len(loop'.texts) = 0
        /\ service'.texts = 0
    BY ONLY <1>2, <1>4
  <2> QED BY ONLY <1>5, <1>8, <2>1 DEF TextInv, BufferInv, UsesInv, OrderInv, TableInv
<1>10. BillInv'
  BY ONLY <1>2, <1>3, <1>4, <1>5, <1>8, outcome # "ask", outcome # "ok",
     outcome = "reading" => s # "none"
     DEF BillInv, Loops, Reading
<1>11. DoneInv'
  BY ONLY <1>2, <1>5, <1>8 DEF DoneInv, Closing
<1>12. CountInv'
  <2>1. Len(loop'.calls) = 0 /\ Left' = 0 /\ ~RoundWhole'
    BY ONLY <1>2, <1>4, <1>8 DEF Left, RoundWhole
  <2> QED BY ONLY <1>2, <1>5, <1>8, <2>1 DEF CountInv
<1> QED BY <1>9, <1>10, <1>11, <1>12 DEF ReplyInv

LEMMA AnsweredMove ==
  ASSUME Stream!StreamBounds, StreamInv, wire # "mock", NEW status, Stream!Answered(status)
  PROVE  StreamInv'
<1> DEFINE outcome == IF status = 200 THEN "reading" ELSE Stream!HttpError(status)
           s == IF status = 200 THEN "body" ELSE "none"
<1>1. Stream!HttpError(status) \in {"unauthorized", "rate_limited", "internal"}
  BY DEF Stream!HttpError
<1>2. /\ outcome \in States /\ outcome # "ask" /\ outcome # "ok" /\ s \in Stages
      /\ s \in {"none", "body"} /\ (outcome = "reading" => s # "none")
  BY <1>1 DEF States, Stages
<1>3. /\ Stream!Ask(outcome) /\ service' = [Stream!NoReply EXCEPT !.stage = s]
      /\ queue' = << >> /\ script' = script
  BY DEF Stream!Answered
<1> HIDE DEF outcome, s
<1>4. /\ queue' \in Seq(Events) /\ script' \in [play : Scripts, at : Nat]
      /\ script'.at <= Len(script'.play)
  BY <1>3 DEF StreamInv, StreamTypes
<1> QED BY <1>2, <1>3, <1>4, AskKeeps

LEMMA BurstIs ==
  ASSUME StreamTypes, Stream!ScriptsAssumption
  PROVE  /\ Stream!Burst.events \in Seq(Events)
         /\ Stream!Burst.at \in Nat /\ Stream!Burst.at <= Len(script.play)
<1> DEFINE at == IF script.at = Len(script.play) THEN 0 ELSE script.at
           rest == SubSeq(script.play, at + 1, Len(script.play))
           ends == {i \in DOMAIN rest : rest[i].type \in {"done", "error"}}
           len == IF ends = {} THEN Len(rest) ELSE CHOOSE i \in ends : \A k \in ends : i <= k
<1>1. Stream!Burst = [events |-> SubSeq(rest, 1, len), at |-> at + len]
  BY Zenon DEF Stream!Burst
<1>2. script.play \in Seq(Events) /\ script.at \in Nat /\ script.at <= Len(script.play)
  <2>1. script.play \in Seq(Stream!Scripted)
    BY DEF StreamTypes, Stream!ScriptsAssumption
  <2>2. Stream!Scripted \subseteq Events
    BY DEF Stream!Scripted, Stream!ErrorEvent, Events, Uses
  <2> HIDE DEF at, rest, ends, len
  <2>3. script.play \in Seq(Events)
    BY <2>1, <2>2
  <2> QED BY <2>3 DEF StreamTypes
<1>3. at \in Nat /\ at <= Len(script.play)
  BY <1>2
<1> HIDE DEF at
<1>4. rest \in Seq(Events) /\ Len(rest) = Len(script.play) - at
  BY <1>2, <1>3
<1> HIDE DEF rest
<1>5. ends \in SUBSET Nat /\ ends \in SUBSET (1..Len(rest))
  BY <1>4
<1> HIDE DEF ends
<1>6. len \in 0..Len(rest)
  <2>1. CASE ends = {}
    BY <1>4, <2>1
  <2>2. CASE ends # {}
    <3>1. \E i \in ends : \A k \in ends : i <= k
      BY <1>5, <2>2, LeastOf
    <3>2. len = CHOOSE i \in ends : \A k \in ends : i <= k
      BY <2>2
    <3>3. len \in ends
      BY <3>1, <3>2
    <3> HIDE DEF len
    <3>4. Len(rest) \in Nat
      BY <1>4
    <3> QED BY ONLY <1>5, <3>3, <3>4
  <2> QED BY <2>1, <2>2
<1> HIDE DEF len
<1>7. SubSeq(rest, 1, len) \in Seq(Events) /\ at + len \in Nat /\ at + len <= Len(script.play)
  BY <1>2, <1>3, <1>4, <1>6
<1> QED BY <1>1, <1>7

LEMMA MockMove ==
  ASSUME Stream!StreamBounds, Stream!ScriptsAssumption, StreamInv, Stream!MockStream
  PROVE  StreamInv'
<1>1. /\ wire = "mock" /\ Stream!Ask("reading")
      /\ service' = [Stream!NoReply EXCEPT !.stage = "closed"]
      /\ queue' = Stream!Burst.events /\ script' = [script EXCEPT !.at = Stream!Burst.at]
  BY DEF Stream!MockStream
<1>2. StreamTypes
  BY DEF StreamInv
<1>3. queue' \in Seq(Events)
  BY <1>1, <1>2, BurstIs
<1>4. script' \in [play : Scripts, at : Nat] /\ script'.at <= Len(script'.play)
  <2>1. Stream!Burst.at \in Nat /\ Stream!Burst.at <= Len(script.play)
    BY <1>2, BurstIs
  <2>2. script \in [play : Scripts, at : Nat]
    BY <1>2 DEF StreamTypes
  <2> QED BY ONLY <1>1, <2>1, <2>2
<1>5. "reading" \in States /\ "closed" \in Stages /\ "closed" \in {"none", "closed"}
  BY DEF States, Stages
<1> QED BY <1>1, <1>3, <1>4, <1>5, AskKeeps

-----------------------------------------------------------------------------
(* The steps of the formats. *)

LEMMA ParsedIs ==
  ASSUME NEW p, NEW out, Stream!Parsed(p, out), wire # "mock"
  PROVE  Waiting /\ Held /\ parse' = p /\ queue' = out
BY DEF Stream!Parsed, Stream!Polled, Waiting, Held, Reading

LEMMA TextStep ==
  ASSUME Stream!StreamBounds, StreamInv, wire # "mock", Stream!MoreText,
         Stream!Parsed(parse, <<Stream!Text(service.texts + 1)>>)
  PROVE  StreamInv'
<1>1. /\ service.stage = "body" /\ service.texts < MaxTexts /\ billed' = billed
      /\ service' = [service EXCEPT !.texts = @ + 1]
  BY DEF Stream!MoreText
<1>2. Waiting /\ Held /\ parse' = parse /\ queue' = <<Stream!Text(service.texts + 1)>>
  BY ParsedIs
<1> QED BY <1>1, <1>2, TextMove

LEMMA CallStep ==
  ASSUME Stream!StreamBounds, StreamInv, wire # "mock",
         NEW call \in Stream!Calls, NEW named \in BOOLEAN,
         Stream!MoreCalls(call), wire = "anthropic" => Stream!Owed = {},
         Stream!Parsed(Stream!NewBuffer(named), << >>)
  PROVE  StreamInv'
<1>1. Waiting /\ Held /\ parse' = Stream!NewBuffer(named) /\ queue' = << >>
  BY ParsedIs
<1> QED BY <1>1, CallMove

LEMMA PieceStep ==
  ASSUME StreamInv, wire # "mock", NEW n, Stream!MorePieces(n),
         Stream!Parsed(Stream!Longer(n), << >>)
  PROVE  StreamInv'
<1>1. Waiting /\ Held /\ parse' = Stream!Longer(n) /\ queue' = << >>
  BY ParsedIs
<1> QED BY <1>1, PieceMove

LEMMA FailStep ==
  ASSUME StreamInv, NEW out, Stream!Fails(out), wire # "mock",
         (out = << >> /\ wire = "openai_compat") \/ out = <<Stream!ErrorEvent>>
  PROVE  StreamInv'
<1>1. /\ Stream!Talking /\ service' = [service EXCEPT !.stage = "failed"] /\ Stream!Unreported
      /\ Stream!Parsed(parse, out)
  BY DEF Stream!Fails
<1>2. Waiting /\ Held /\ parse' = parse /\ queue' = out
  BY <1>1, ParsedIs
<1> QED BY <1>1, <1>2, FailMove

LEMMA CutStep ==
  ASSUME StreamInv, wire \in {"openai_compat", "chatgpt"}, Stream!Cut,
         Stream!Parsed([Stream!Emptied(parse) EXCEPT !.done_sent = TRUE],
                       Stream!Flushed(parse) \o Stream!FinalDone(parse))
  PROVE  StreamInv'
<1> DEFINE tail == Stream!FinalDone(parse)
           p == [Stream!Emptied(parse) EXCEPT !.done_sent = TRUE]
<1>1. Waiting /\ Held /\ parse' = p /\ queue' = Stream!Flushed(parse) \o tail
  <2> HIDE DEF p, tail
  <2>1. Stream!Parsed(p, Stream!Flushed(parse) \o tail)
    BY DEF p, tail
  <2> QED BY <2>1, ParsedIs
<1>2. wire # "anthropic"
  OBVIOUS
<1>3. tail = Stream!FinalDone(parse)
  OBVIOUS
<1> HIDE DEF tail
<1> QED BY <1>1, <1>2, <1>3, CutMove

LEMMA AnthropicStep ==
  ASSUME Stream!StreamBounds, StreamInv, Stream!Anthropic
  PROVE  StreamInv'
<1>1. CASE \E status \in Stream!Statuses : Stream!AnthropicStream(status)
  BY <1>1, AnsweredMove DEF Stream!AnthropicStream
<1>2. CASE \E call \in Stream!Calls : Stream!ContentBlockStart(call)
  <2>1. PICK call \in Stream!Calls : Stream!ContentBlockStart(call)
    BY <1>2
  <2>2. /\ wire = "anthropic" /\ Stream!Owed = {} /\ Stream!MoreCalls(call)
        /\ Stream!Parsed(Stream!NewBuffer(TRUE), << >>)
    BY <2>1 DEF Stream!ContentBlockStart
  <2> QED BY <2>2, CallStep
<1>3. CASE \E n \in DOMAIN service.calls : Stream!InputJsonDelta(n)
  BY <1>3, PieceStep DEF Stream!InputJsonDelta
<1>4. CASE \E n \in DOMAIN service.calls : Stream!ContentBlockStop(n)
  <2>1. PICK n \in DOMAIN service.calls : Stream!ContentBlockStop(n)
    BY <1>4
  <2> DEFINE p == [parse EXCEPT !.bufs[n].open = FALSE]
             out == <<Stream!ToolUse(n, service.calls[n], parse.bufs[n].held)>>
  <2>2. wire = "anthropic" /\ Stream!CallOver(n) /\ Stream!Parsed(p, out)
    BY <2>1 DEF Stream!ContentBlockStop
  <2> HIDE DEF p, out
  <2>3. Waiting /\ Held /\ parse' = p /\ queue' = out
    BY <2>2, ParsedIs
  <2> QED BY <2>2, <2>3, StopMove DEF p, out
<1>5. CASE Stream!BlockTextDelta
  BY <1>5, TextStep DEF Stream!BlockTextDelta
<1>6. CASE Stream!MessageDelta
  <2> DEFINE p == [parse EXCEPT !.in = 1, !.out = parse.out + 1]
  <2>1. /\ wire = "anthropic" /\ service.stage = "body" /\ Stream!Owed = {}
        /\ service' = [service EXCEPT !.stage = "usage"] /\ billed' = billed + 1
        /\ Stream!Parsed(p, << >>)
    BY <1>6 DEF Stream!MessageDelta
  <2>2. p = [parse EXCEPT !.in = 1, !.out = 1]
    <3>1. parse.out = 0
      BY <2>1 DEF StreamInv, ReplyInv, BillInv, Stream!Parsed, Stream!Polled, Reading
    <3> QED BY <3>1
  <2> HIDE DEF p
  <2>3. Waiting /\ Held /\ parse' = p /\ queue' = << >>
    BY <2>1, ParsedIs
  <2> QED BY <2>1, <2>2, <2>3, UsageMove
<1>7. CASE Stream!MessageStop
  <2>1. /\ wire = "anthropic" /\ service.stage = "usage"
        /\ service' = [service EXCEPT !.stage = "over"] /\ billed' = billed
        /\ Stream!Parsed(parse, <<Stream!Done(parse.in, parse.out)>>)
    BY <1>7 DEF Stream!MessageStop
  <2>2. Waiting /\ Held /\ parse' = parse /\ queue' = <<Stream!Done(parse.in, parse.out)>>
    BY <2>1, ParsedIs
  <2> QED BY <2>1, <2>2, MessageStopMove
<1>8. CASE Stream!ErrorFrame
  BY <1>8, FailStep DEF Stream!ErrorFrame
<1>9. CASE Stream!AnthropicEof
  <2> DEFINE p == Stream!Emptied(parse)
             out == Stream!Flushed(parse)
  <2>1. wire = "anthropic" /\ Stream!Cut /\ Stream!Parsed(p, out)
    BY <1>9 DEF Stream!AnthropicEof
  <2>2. Waiting /\ Held /\ parse' = p /\ queue' = out
    BY <2>1, ParsedIs
  <2>3. out \in Seq(Events)
    BY <2>2, FlushedIs, <2>1 DEF StreamInv, ReplyInv, StreamTypes
  <2> HIDE DEF out
  <2>4. out = out \o << >>
    BY <2>3
  <2>5. queue' = Stream!Flushed(parse) \o << >>
    BY <2>2, <2>4 DEF out
  <2> QED BY <2>1, <2>2, <2>5, CutMove
<1> QED BY <1>1, <1>2, <1>3, <1>4, <1>5, <1>6, <1>7, <1>8, <1>9 DEF Stream!Anthropic

LEMMA OpenAiStep ==
  ASSUME Stream!StreamBounds, StreamInv, Stream!OpenAi
  PROVE  StreamInv'
<1>1. CASE \E status \in Stream!Statuses : Stream!OpenAiStream(status)
  BY <1>1, AnsweredMove DEF Stream!OpenAiStream
<1>2. CASE \E call \in Stream!Calls : Stream!FirstToolCallChunk(call)
  <2>1. PICK call \in Stream!Calls : Stream!FirstToolCallChunk(call)
    BY <1>2
  <2>2. /\ wire = "openai_compat" /\ Stream!MoreCalls(call)
        /\ Stream!Parsed(Stream!NewBuffer(TRUE), << >>)
    BY <2>1 DEF Stream!FirstToolCallChunk
  <2> QED BY <2>2, CallStep
<1>3. CASE \E n \in DOMAIN service.calls : Stream!ToolCallChunk(n)
  BY <1>3, PieceStep DEF Stream!ToolCallChunk
<1>4. CASE Stream!ContentChunk
  BY <1>4, TextStep DEF Stream!ContentChunk
<1>5. CASE Stream!FinishReason
  <2> DEFINE p == Stream!Emptied(parse)
             out == Stream!Flushed(parse)
  <2>1. /\ wire = "openai_compat" /\ service.stage = "body"
        /\ service' = [service EXCEPT !.stage = "finished"] /\ billed' = billed + 1
        /\ Stream!Parsed(p, out)
    BY <1>5 DEF Stream!FinishReason
  <2>2. Waiting /\ Held /\ parse' = p /\ queue' = out
    BY <2>1, ParsedIs
  <2> QED BY <2>1, <2>2, FinishMove
<1>6. CASE Stream!UsageChunk
  <2> DEFINE p == [parse EXCEPT !.in = 1, !.out = 1]
  <2>1. /\ wire = "openai_compat" /\ service.stage = "finished"
        /\ service' = [service EXCEPT !.stage = "usage"] /\ billed' = billed
        /\ Stream!Parsed(p, << >>)
    BY <1>6 DEF Stream!UsageChunk
  <2> HIDE DEF p
  <2>2. Waiting /\ Held /\ parse' = p /\ queue' = << >>
    BY <2>1, ParsedIs
  <2> QED BY <2>1, <2>2, UsageMove DEF p
<1>7. CASE Stream!DoneSentinel
  <2> DEFINE p == [Stream!Emptied(parse) EXCEPT !.done_sent = TRUE]
             out == Stream!Flushed(parse) \o Stream!FinalDone(parse)
  <2>1. /\ wire = "openai_compat" /\ service.stage = "usage"
        /\ service' = [service EXCEPT !.stage = "over"] /\ billed' = billed
        /\ Stream!Parsed(p, out)
    BY <1>7 DEF Stream!DoneSentinel
  <2> HIDE DEF p, out
  <2>2. Waiting /\ Held /\ parse' = p /\ queue' = out
    BY <2>1, ParsedIs
  <2>3. p = [Stream!Emptied(parse) EXCEPT !.done_sent = TRUE]
        /\ out = Stream!Flushed(parse) \o Stream!FinalDone(parse)
    BY DEF p, out
  <2> QED BY <2>1, <2>2, <2>3, OverMove
<1>8. CASE Stream!ErrorChunk
  BY <1>8, FailStep DEF Stream!ErrorChunk
<1>9. CASE Stream!OpenAiEof
  BY <1>9, CutStep DEF Stream!OpenAiEof
<1> QED BY <1>1, <1>2, <1>3, <1>4, <1>5, <1>6, <1>7, <1>8, <1>9 DEF Stream!OpenAi

LEMMA ChatGptStep ==
  ASSUME Stream!StreamBounds, StreamInv, Stream!ChatGpt
  PROVE  StreamInv'
<1>1. CASE \E signed_in \in BOOLEAN, status \in Stream!Statuses :
             Stream!ChatGptStream(signed_in, status)
  <2>1. PICK signed_in \in BOOLEAN, status \in Stream!Statuses :
          Stream!ChatGptStream(signed_in, status)
    BY <1>1
  <2>2. wire = "chatgpt" /\ Stream!Answered(IF signed_in THEN status ELSE 401)
    BY <2>1 DEF Stream!ChatGptStream
  <2>3. wire # "mock"
    BY <2>2
  <2> QED BY <2>2, <2>3, AnsweredMove
<1>2. CASE \E call \in Stream!Calls :
             Stream!OutputItemAdded(call) \/ Stream!FirstArgumentsDelta(call)
  <2>1. PICK call \in Stream!Calls :
          Stream!OutputItemAdded(call) \/ Stream!FirstArgumentsDelta(call)
    BY <1>2
  <2>2. /\ wire = "chatgpt" /\ Stream!MoreCalls(call)
        /\ \/ Stream!Parsed(Stream!NewBuffer(TRUE), << >>)
           \/ Stream!Parsed(Stream!NewBuffer(FALSE), << >>)
    BY <2>1 DEF Stream!OutputItemAdded, Stream!FirstArgumentsDelta
  <2> QED BY <2>2, CallStep
<1>3. CASE \E n \in DOMAIN service.calls : Stream!FunctionCallArgumentsDelta(n)
  BY <1>3, PieceStep DEF Stream!FunctionCallArgumentsDelta
<1>4. CASE \E n \in DOMAIN service.calls : Stream!OutputItemDone(n)
  <2>1. PICK n \in DOMAIN service.calls : Stream!OutputItemDone(n)
    BY <1>4
  <2> DEFINE p == [parse EXCEPT !.bufs[n] =
                     [@ EXCEPT !.held = service.calls[n].sent, !.named = TRUE]]
  <2>2. wire = "chatgpt" /\ Stream!CallOver(n) /\ Stream!Parsed(p, << >>)
    BY <2>1 DEF Stream!OutputItemDone
  <2> HIDE DEF p
  <2>3. Waiting /\ Held /\ parse' = p /\ queue' = << >>
    BY <2>2, ParsedIs
  <2> QED BY <2>2, <2>3, ItemDoneMove DEF p
<1>5. CASE Stream!OutputTextDelta
  BY <1>5, TextStep DEF Stream!OutputTextDelta
<1>6. CASE Stream!ResponseCompleted
  <2> DEFINE p == [parse EXCEPT !.in = 1, !.out = 1]
             q == [Stream!Emptied(p) EXCEPT !.done_sent = TRUE]
             out == Stream!Flushed(p) \o Stream!FinalDone(p)
  <2>1. /\ wire = "chatgpt" /\ service.stage = "body" /\ Stream!Owed = {}
        /\ service' = [service EXCEPT !.stage = "over"] /\ billed' = billed + 1
        /\ Stream!Parsed(q, out)
    BY <1>6 DEF Stream!ResponseCompleted
  <2>2. p = [parse EXCEPT !.in = 1, !.out = 1]
    OBVIOUS
  <2> HIDE DEF p
  <2>3. /\ q = [Stream!Emptied(p) EXCEPT !.done_sent = TRUE]
        /\ out = Stream!Flushed(p) \o Stream!FinalDone(p)
    OBVIOUS
  <2> HIDE DEF q, out
  <2>4. Waiting /\ Held /\ parse' = q /\ queue' = out
    BY <2>1, ParsedIs
  <2> QED BY <2>1, <2>2, <2>3, <2>4, OverMove
<1>7. CASE Stream!ResponseFailed
  BY <1>7, FailStep DEF Stream!ResponseFailed
<1>8. CASE Stream!ResponsesEof
  BY <1>8, CutStep DEF Stream!ResponsesEof
<1> QED BY <1>1, <1>2, <1>3, <1>4, <1>5, <1>6, <1>7, <1>8 DEF Stream!ChatGpt

LEMMA BrokenStep ==
  ASSUME StreamInv, Stream!Broken
  PROVE  StreamInv'
<1>1. /\ Stream!Talking /\ service' = [service EXCEPT !.stage = "broken"] /\ Stream!Unreported
      /\ Stream!Parsed(parse, <<Stream!ParseError>>)
  BY DEF Stream!Broken
<1>2. wire # "mock"
  BY <1>1 DEF StreamInv, MockInv, Stream!Talking
<1>3. Waiting /\ Held /\ parse' = parse /\ queue' = <<Stream!ParseError>>
  BY <1>1, <1>2, ParsedIs
<1> QED BY <1>1, <1>3, FailMove

(* The loop's own steps. *)
LEMMA LoopStep ==
  ASSUME Stream!StreamBounds, Stream!WireNames, StreamInv,
         Stream!TakeText \/ Stream!TakeToolUse \/ Stream!TakeDone \/ Stream!TakeError
  PROVE  StreamInv'
<1>1. ASSUME NEW t, Stream!Taken(t) PROVE Hears(t)
  BY <1>1 DEF Stream!Taken, Hears, Reading
<1>2. CASE Stream!TakeText
  <2> DEFINE t == [loop EXCEPT !.texts = Append(@, Head(queue).n)]
  <2>1. queue # << >> /\ Head(queue).type = "text" /\ Stream!Taken(t)
    BY <1>2 DEF Stream!TakeText
  <2> HIDE DEF t
  <2>2. Hears(t)
    BY <1>1, <2>1
  <2> QED BY <2>1, <2>2, HearText DEF t
<1>3. CASE Stream!TakeToolUse
  <2> DEFINE t == IF Forced THEN loop ELSE [loop EXCEPT !.calls = Append(@, Head(queue))]
  <2>1. queue # << >> /\ Head(queue).type = "tool_use" /\ Stream!Taken(t)
    BY <1>3, Zenon DEF Stream!TakeToolUse, Stream!Forced, Forced
  <2>2. t = IF Forced THEN loop ELSE [loop EXCEPT !.calls = Append(@, Head(queue))]
    OBVIOUS
  <2> HIDE DEF t
  <2>3. Hears(t)
    BY <1>1, <2>1
  <2> QED BY <2>1, <2>2, <2>3, HearCall
<1>4. CASE Stream!TakeDone
  <2> DEFINE u == [in |-> loop.usage.in + Head(queue).input_tokens,
                   out |-> loop.usage.out + Head(queue).output_tokens]
             r == [loop EXCEPT !.usage = u]
             t == IF Forced \/ loop.calls = << >> THEN [r EXCEPT !.state = "ok"]
                  ELSE [r EXCEPT !.state = "ask", !.round = @ + 1]
  <2>1. queue # << >> /\ Head(queue).type = "done" /\ Stream!Taken(t)
    <3>1. CASE Forced \/ loop.calls = << >>
      BY <1>4, <3>1 DEF Stream!TakeDone, Stream!Forced, Forced
    <3>2. CASE ~(Forced \/ loop.calls = << >>)
      BY <1>4, <3>2 DEF Stream!TakeDone, Stream!Forced, Forced
    <3> QED BY <3>1, <3>2
  <2>2. u = [in |-> loop.usage.in + Head(queue).input_tokens,
             out |-> loop.usage.out + Head(queue).output_tokens]
    OBVIOUS
  <2> HIDE DEF u
  <2>3. t = IF Forced \/ loop.calls = << >> THEN [loop EXCEPT !.usage = u, !.state = "ok"]
            ELSE [loop EXCEPT !.usage = u, !.state = "ask", !.round = @ + 1]
    <3>1. loop \in Loops
      BY DEF StreamInv, StreamTypes, Loops
    <3> QED BY <3>1 DEF Loops
  <2> HIDE DEF t
  <2>4. Hears(t)
    BY <1>1, <2>1
  <2> QED BY <2>1, <2>2, <2>3, <2>4, HearDone
<1>5. CASE Stream!TakeError
  <2> DEFINE t == [loop EXCEPT !.state = "internal"]
  <2>1. queue # << >> /\ Head(queue).type \in {"error", "err"} /\ Stream!Taken(t)
    BY <1>5 DEF Stream!TakeError, Stream!End
  <2> HIDE DEF t
  <2>2. Hears(t)
    BY <1>1, <2>1
  <2> QED BY <2>1, <2>2, HearError DEF t
<1> QED BY <1>2, <1>3, <1>4, <1>5

LEMMA StreamKept ==
  ASSUME Stream!StreamBounds, Stream!WireNames, Stream!ScriptsAssumption,
         StreamInv, [Stream!Next]_(Stream!vars)
  PROVE  StreamInv'
<1>1. CASE Stream!Anthropic
  BY <1>1, AnthropicStep
<1>2. CASE Stream!OpenAi
  BY <1>2, OpenAiStep
<1>3. CASE Stream!ChatGpt
  BY <1>3, ChatGptStep
<1>4. CASE Stream!MockStream
  BY <1>4, MockMove
<1>5. CASE Stream!Broken
  BY <1>5, BrokenStep
<1>6. CASE Stream!TakeText \/ Stream!TakeToolUse \/ Stream!TakeDone \/ Stream!TakeError
  BY <1>6, LoopStep
<1>7. CASE Stream!Exhausted
  BY <1>7, ExhaustedMove
<1>8. CASE UNCHANGED Stream!vars
  <2>1. /\ wire' = wire /\ loop' = loop /\ service' = service /\ parse' = parse /\ queue' = queue
        /\ script' = script /\ billed' = billed /\ Reading' = Reading /\ Announced' = Announced
    BY <1>8 DEF Stream!vars, Reading, Announced
  <2>2. InQueue' = InQueue /\ TextQueued' = TextQueued /\ \A e : HandedOn(e)' <=> HandedOn(e)
    BY ONLY <2>1 DEF InQueue, TextQueued, HandedOn, IsTrue
  <2>3. StreamTypes' = StreamTypes /\ MockInv' = MockInv /\ StageInv' = StageInv
    BY ONLY <2>1 DEF StreamTypes, MockInv, StageInv
  <2>4. TextInv' = TextInv /\ BufferInv' = BufferInv /\ TableInv' = TableInv
    BY ONLY <2>1, <2>2 DEF TextInv, BufferInv, TableInv
  <2>5. UsesInv' = UsesInv /\ OrderInv' = OrderInv
    BY ONLY <2>1, <2>2 DEF UsesInv, OrderInv, HandedOn, IsTrue
  <2>6. BillInv' = BillInv /\ DoneInv' = DoneInv /\ CountInv' = CountInv
    BY ONLY <2>1 DEF BillInv, DoneInv, CountInv, Closing, Clean, Left, Forced, RoundWhole, Reading
  <2> QED BY ONLY <2>1, <2>3, <2>4, <2>5, <2>6, StreamInv DEF StreamInv, ReplyInv
<1> QED BY <1>1, <1>2, <1>3, <1>4, <1>5, <1>6, <1>7, <1>8 DEF Stream!Next

LEMMA StreamStarts ==
  ASSUME Stream!StreamBounds, Stream!ScriptsAssumption, Stream!Init
  PROVE  StreamInv
<1>1. /\ wire \in Wires /\ loop = [state |-> "ask", round |-> 1, texts |-> << >>, calls |-> << >>,
                                   usage |-> [in |-> 0, out |-> 0]]
      /\ service = [stage |-> "none", texts |-> 0, calls |-> << >>]
      /\ parse = [bufs |-> << >>, in |-> 0, out |-> 0, done_sent |-> FALSE]
      /\ queue = << >> /\ script \in [play : Scripts, at : {0}] /\ billed = 0
  BY DEF Stream!Init, Stream!NoReply, Stream!NewParse
<1>2. MaxToolTurns \in Nat /\ MaxTexts \in Nat /\ MaxCalls \in Nat
  BY DEF Stream!StreamBounds
<1>3. Announced = 0 /\ ~Reading /\ InQueue = {} /\ ~TextQueued
  BY <1>1 DEF Announced, Reading, InQueue, TextQueued
<1>4. StreamTypes
  <2>1. loop \in Loops
    <3>1. << >> \in Seq(Nat) /\ << >> \in Seq(Uses) /\ 1 \in 1..(MaxToolTurns + 1)
      BY <1>2
    <3> QED BY ONLY <1>1, <3>1 DEF Loops, States
  <2>2. service \in [stage : Stages, texts : 0..MaxTexts, calls : Seq(Said)]
    BY <1>1, <1>2 DEF Stages
  <2>3. /\ parse \in [bufs : Seq(Buffers), in : Nat, out : Nat, done_sent : BOOLEAN]
        /\ Len(parse.bufs) = 0
    BY <1>1
  <2>4. script \in [play : Scripts, at : Nat] /\ script.at <= Len(script.play)
    <3>1. script.at = 0 /\ script \in [play : Scripts, at : Nat]
      BY <1>1
    <3>2. script.play \in Seq(Stream!Scripted)
      BY <1>1 DEF Stream!ScriptsAssumption
    <3> QED BY <3>1, <3>2
  <2> QED BY <1>1, <1>2, <1>3, <2>1, <2>2, <2>3, <2>4 DEF StreamTypes, Loops
<1>5. MockInv /\ StageInv
  BY <1>1, <1>3 DEF MockInv, StageInv
<1>6. TextInv /\ BufferInv /\ UsesInv /\ OrderInv /\ TableInv
  BY <1>1, <1>3 DEF TextInv, BufferInv, UsesInv, OrderInv, TableInv
<1>7. BillInv /\ DoneInv /\ CountInv
  BY <1>1, <1>3 DEF BillInv, DoneInv, CountInv, RoundWhole
<1> QED BY <1>4, <1>5, <1>6, <1>7 DEF StreamInv, ReplyInv

LEMMA RepliesFollow ==
  ASSUME Stream!StreamBounds, Stream!WireNames, StreamInv
  PROVE  RepliesAreTrue
<1>1. StreamTypes
  BY DEF StreamInv
<1>2. loop \in Loops /\ Announced \in Nat /\ MaxToolTurns \in Nat
  BY <1>1, Shapes DEF StreamTypes, Loops, Stream!StreamBounds
<1>3. RepliesTyped
  <2>1. \A n \in DOMAIN parse.bufs : parse.bufs[n].held <= service.calls[n].sent
    <3>1. CASE wire = "mock"
      <4>1. DOMAIN parse.bufs = 1..Announced /\ Announced = 0
        BY <1>1, <3>1, Shapes DEF StreamInv, MockInv
      <4> QED BY <4>1
    <3>2. CASE wire # "mock"
      <4>1. BufferInv /\ DOMAIN parse.bufs = 1..Announced
        BY <1>1, <3>2, Shapes DEF StreamInv, ReplyInv
      <4>2. \A n \in 1..Announced : service.calls[n].sent \in Nat
        BY <1>1, Shapes DEF Said
      <4> QED BY ONLY <4>1, <4>2 DEF BufferInv
    <3> QED BY <3>1, <3>2
  <2>2. billed \in 0..(MaxToolTurns + 1)
    <3>1. billed \in Nat /\ (billed <= loop.round \/ billed = 0)
      <4>1. (wire = "mock" => MockInv) /\ (wire # "mock" => BillInv)
        BY DEF StreamInv, ReplyInv
      <4> QED BY ONLY <1>1, <4>1 DEF MockInv, BillInv, StreamTypes
    <3> QED BY <1>2, <3>1 DEF Loops
  <2>3. \A i \in DOMAIN queue : queue[i].type \in {"text", "tool_use", "done", "error", "err"}
    <3>1. \A i \in DOMAIN queue : queue[i] \in Events
      <4>1. queue \in Seq(Events)
        BY <1>1 DEF StreamTypes
      <4> QED BY ONLY <4>1
    <3> QED BY <3>1 DEF Events, Uses
  <2>4. /\ wire \in Wires /\ service.stage \in Stages /\ service.texts \in 0..MaxTexts
        /\ Len(service.calls) <= MaxCalls /\ Len(parse.bufs) = Len(service.calls)
    BY <1>1 DEF StreamTypes, Announced
  <2> QED BY ONLY <1>2, <2>1, <2>2, <2>3, <2>4 DEF RepliesTyped, Loops, States
<1>4. HeardIsSaid
  <2>1. SUFFICES ASSUME wire # "mock"
                 PROVE  /\ Len(loop.texts) <= service.texts
                        /\ \A i \in DOMAIN loop.texts : loop.texts[i] = i
                        /\ \A i, k \in DOMAIN loop.calls :
                             i < k => loop.calls[i].n < loop.calls[k].n
                        /\ \A i \in DOMAIN loop.calls :
                             LET c == loop.calls[i]
                                 said == service.calls[c.n]
                             IN  IF said.sent = 0 THEN c.input = "empty"
                                 ELSE c.input = "whole" /\ said.sent = said.total /\ said.good
                        /\ RoundWhole => /\ Len(loop.texts) = service.texts
                                         /\ Len(loop.calls) = Len(service.calls)
    BY DEF HeardIsSaid
  <2>2. ReplyInv
    BY <2>1 DEF StreamInv
  <2>3. Len(loop.texts) <= service.texts /\ \A i \in DOMAIN loop.texts : loop.texts[i] = i
    BY <1>2, <2>2 DEF ReplyInv, TextInv, Loops
  <2>4. \A i, k \in DOMAIN loop.calls : i < k => loop.calls[i].n < loop.calls[k].n
    BY <2>2 DEF ReplyInv, OrderInv
  <2>5. \A i \in DOMAIN loop.calls : IsTrue(loop.calls[i], service.calls[loop.calls[i].n])
    BY <2>2 DEF ReplyInv, UsesInv, HandedOn
  <2>6. RoundWhole => Len(loop.texts) = service.texts /\ Len(loop.calls) = Len(service.calls)
    <3>1. RoundWhole => ~TextQueued
      BY DEF RoundWhole, TextQueued, Reading
    <3> QED BY <1>2, <2>2, <3>1 DEF ReplyInv, TextInv, CountInv, Announced, Loops
  <2> QED BY <2>3, <2>4, <2>5, <2>6 DEF IsTrue
<1>5. UsageIsReal
  BY DEF UsageIsReal, StreamInv, ReplyInv, BillInv
<1> QED BY <1>3, <1>4, <1>5 DEF RepliesAreTrue

(* For any number of rounds, texts, calls and pieces, for each kind of provider
   and wherever a stream is cut or broken: what the agent loop hears of a reply
   is what the service said in it, the texts in order, each call once and with
   all of its arguments ("a single well-formed ToolUse",
   04-review-daemon.md:466), and the usage it reports is the service's ("Token
   usage is real", 04-review-daemon.md:285). *)
THEOREM RepliesTrue ==
  ASSUME Stream!StreamBounds, Stream!WireNames, Stream!ScriptsAssumption
  PROVE  Stream!Spec => []RepliesAreTrue
<1>1. Stream!Init => StreamInv
  BY StreamStarts
<1>2. StreamInv /\ [Stream!Next]_(Stream!vars) => StreamInv'
  BY StreamKept
<1>3. StreamInv => RepliesAreTrue
  BY RepliesFollow
<1> QED BY <1>1, <1>2, <1>3, PTL DEF Stream!Spec

-----------------------------------------------------------------------------
(* Sequences put together of parts. *)

(* The sequences that FlattenSeq puts together, each longer than the one before. *)
Flats(f, parts, n) == f = [i \in 1..n |-> IF i = 1 THEN parts[i] ELSE f[i - 1] \o parts[i]]

LEMMA FlatsExist ==
  ASSUME NEW parts, NEW n \in Nat
  PROVE  \E f : Flats(f, parts, n)
<1> DEFINE Bad == {m \in Nat : ~\E f : Flats(f, parts, m)}
<1> SUFFICES ASSUME Bad # {} PROVE FALSE
  OBVIOUS
<1>1. PICK m \in Bad : \A k \in Bad : m <= k
  <2>1. Bad \in SUBSET Nat
    OBVIOUS
  <2> HIDE DEF Bad
  <2> QED BY <2>1, LeastOf
<1>2. m \in Nat /\ ~\E f : Flats(f, parts, m)
  OBVIOUS
<1>3. m # 0
  <2>1. ASSUME m = 0 PROVE FALSE
    <3> DEFINE f == [i \in 1..0 |-> i]
    <3>1. Flats(f, parts, 0)
      BY DEF Flats
    <3> QED BY <1>2, <2>1, <3>1
  <2> QED BY <2>1
<1>4. PICK f : Flats(f, parts, m - 1)
  <2>1. m - 1 \in Nat /\ ~(m <= m - 1)
    BY <1>2, <1>3
  <2> QED BY <1>1, <2>1
<1> DEFINE g == [i \in 1..m |->
                  IF i < m THEN f[i] ELSE IF m = 1 THEN parts[m] ELSE f[m - 1] \o parts[m]]
<1>5. \A i \in 1..m : g[i] = IF i = 1 THEN parts[i] ELSE g[i - 1] \o parts[i]
  <2> SUFFICES ASSUME NEW i \in 1..m
               PROVE  g[i] = IF i = 1 THEN parts[i] ELSE g[i - 1] \o parts[i]
    OBVIOUS
  <2>1. CASE i < m
    <3>1. i \in 1..(m - 1) /\ g[i] = f[i] /\ (i # 1 => g[i - 1] = f[i - 1])
      BY <1>2, <2>1
    <3>2. f[i] = IF i = 1 THEN parts[i] ELSE f[i - 1] \o parts[i]
      BY <1>4, <3>1 DEF Flats
    <3> QED BY <3>1, <3>2
  <2>2. CASE i = m
    BY <1>2, <2>2
  <2> QED BY <1>2, <2>1, <2>2
<1>6. Flats(g, parts, m)
  <2>1. g = [i \in 1..m |-> g[i]]
    OBVIOUS
  <2> HIDE DEF g
  <2>2. [i \in 1..m |-> g[i]] = [i \in 1..m |-> IF i = 1 THEN parts[i] ELSE g[i - 1] \o parts[i]]
    BY <1>5
  <2> QED BY <2>1, <2>2 DEF Flats
<1> QED BY <1>2, <1>6

LEMMA FlattenIs ==
  ASSUME NEW parts, Len(parts) \in Nat \ {0}
  PROVE  \E f : Flats(f, parts, Len(parts)) /\ FlattenSeq(parts) = f[Len(parts)]
<1> DEFINE f == CHOOSE g : Flats(g, parts, Len(parts))
<1>1. Flats(f, parts, Len(parts))
  BY FlatsExist
<1>2. FlattenSeq(parts) = f[Len(parts)]
  BY Zenon DEF FlattenSeq, Flats
<1> QED BY <1>1, <1>2

(* Where each part begins in the whole. *)
Places(at, parts, flat) ==
  /\ at \in [1..(Len(parts) + 1) -> Nat]
  /\ at[1] = 0 /\ at[Len(parts) + 1] = Len(flat)
  /\ \A i \in 1..Len(parts) :
       /\ at[i + 1] = at[i] + Len(parts[i])
       /\ \A k \in 1..Len(parts[i]) : flat[at[i] + k] = parts[i][k]

LEMMA Flattened ==
  ASSUME NEW S, NEW parts \in Seq(Seq(S)), NEW flat, flat = FlattenSeq(parts)
  PROVE  flat \in Seq(S) /\ \E at : Places(at, parts, flat)
<1>1. Len(parts) \in Nat /\ \A i \in 1..Len(parts) : parts[i] \in Seq(S)
  OBVIOUS
<1>2. CASE Len(parts) = 0
  <2>1. flat = parts /\ parts = <<>>
    BY <1>2 DEF FlattenSeq
  <2>2. Places([i \in 1..1 |-> 0], parts, flat)
    BY <1>2, <2>1 DEF Places
  <2> QED BY <2>1, <2>2
<1>3. CASE Len(parts) # 0
  <2> DEFINE n == Len(parts)
  <2>1. PICK f : Flats(f, parts, n) /\ flat = f[n]
    BY <1>1, <1>3, FlattenIs
  <2>2. \A i \in 1..n : f[i] = IF i = 1 THEN parts[i] ELSE f[i - 1] \o parts[i]
    BY <2>1 DEF Flats
  <2>3. n \in Nat \ {0}
    BY <1>1, <1>3
  <2> HIDE DEF n
  <2>4. \A i \in 1..n : f[i] \in Seq(S)
    <3> DEFINE Bad == {i \in 1..n : f[i] \notin Seq(S)}
    <3> SUFFICES ASSUME Bad # {} PROVE FALSE
      OBVIOUS
    <3>1. PICK m \in Bad : \A k \in Bad : m <= k
      <4>1. Bad \in SUBSET Nat
        OBVIOUS
      <4> HIDE DEF Bad
      <4> QED BY <4>1, LeastOf
    <3>2. m \in 1..n /\ f[m] \notin Seq(S) /\ parts[m] \in Seq(S)
      BY <1>1 DEF n
    <3>3. m # 1
      BY <2>2, <3>2
    <3>4. m - 1 \in 1..n /\ ~(m <= m - 1)
      BY ONLY <2>3, <3>2, <3>3
    <3>5. f[m - 1] \in Seq(S)
      BY <3>1, <3>4
    <3> QED BY <2>2, <3>2, <3>3, <3>5, ConcatProperties
  <2>5. \A i \in 1..n : Len(f[i]) \in Nat
    BY <2>4
  <2>6. ASSUME NEW i \in 1..n, i # 1
        PROVE  /\ i - 1 \in 1..n /\ Len(f[i]) = Len(f[i - 1]) + Len(parts[i])
               /\ \A p \in 1..Len(f[i - 1]) : f[i][p] = f[i - 1][p]
               /\ \A k \in 1..Len(parts[i]) : f[i][Len(f[i - 1]) + k] = parts[i][k]
    <3>1. i - 1 \in 1..n
      BY <2>3, <2>6
    <3>2. f[i] = f[i - 1] \o parts[i] /\ f[i - 1] \in Seq(S) /\ parts[i] \in Seq(S)
      BY <1>1, <2>2, <2>4, <2>6, <3>1 DEF n
    <3>3. PICK a \in Seq(S) : a = f[i - 1]
      BY <3>2
    <3>4. PICK b \in Seq(S) : b = parts[i]
      BY <3>2
    <3>5. /\ Len(a \o b) = Len(a) + Len(b)
          /\ \A p \in 1..Len(a) : (a \o b)[p] = a[p]
          /\ \A k \in 1..Len(b) : (a \o b)[Len(a) + k] = b[k]
      <4>1. /\ Len(a \o b) = Len(a) + Len(b) /\ Len(a) \in Nat /\ Len(b) \in Nat
            /\ \A p \in 1..(Len(a) + Len(b)) :
                 (a \o b)[p] = IF p <= Len(a) THEN a[p] ELSE b[p - Len(a)]
        BY ONLY a \in Seq(S), b \in Seq(S), ConcatProperties
      <4> DEFINE la == Len(a)
                 lb == Len(b)
      <4>2. /\ \A p \in 1..la : p \in 1..(la + lb) /\ p <= la
            /\ \A k \in 1..lb : la + k \in 1..(la + lb) /\ ~(la + k <= la) /\ la + k - la = k
        <5>1. la \in Nat /\ lb \in Nat
          BY <4>1
        <5> HIDE DEF la, lb
        <5> QED BY ONLY <5>1
      <4> QED BY <4>1, <4>2
    <3> QED BY ONLY <3>1, <3>2, <3>3, <3>4, <3>5
  <2>7. \A i \in 1..n : Len(f[i]) <= Len(f[n]) /\ \A p \in 1..Len(f[i]) : f[n][p] = f[i][p]
    <3> DEFINE Short(i) == /\ Len(f[i]) <= Len(f[n])
                           /\ \A p \in 1..Len(f[i]) : f[n][p] = f[i][p]
               Bad == {j \in 0..(n - 1) : ~Short(n - j)}
    <3>1. Bad = {}
      <4> SUFFICES ASSUME Bad # {} PROVE FALSE
        OBVIOUS
      <4>1. PICK j \in Bad : \A k \in Bad : j <= k
        <5>1. Bad \in SUBSET Nat
          BY <2>3
        <5> HIDE DEF Bad
        <5> QED BY <5>1, LeastOf
      <4>2. j \in 0..(n - 1) /\ ~Short(n - j)
        OBVIOUS
      <4>3. j # 0
        BY <2>3, <2>5, <4>2
      <4> DEFINE i == n - j + 1
      <4>4. i \in 1..n /\ i # 1 /\ i - 1 = n - j /\ i = n - (j - 1) /\ j - 1 \in 0..(n - 1)
            /\ ~(j <= j - 1)
        BY <2>3, <4>2, <4>3
      <4>5. Short(i)
        <5> HIDE DEF Short, i
        <5>1. j - 1 \notin Bad
          BY <4>1, <4>4
        <5>2. Short(n - (j - 1))
          BY <4>4, <5>1
        <5> QED BY <4>4, <5>2
      <4> HIDE DEF i, Bad
      <4>6. /\ Len(f[i]) = Len(f[i - 1]) + Len(parts[i])
            /\ \A p \in 1..Len(f[i - 1]) : f[i][p] = f[i - 1][p]
        BY <2>6, <4>4
      <4>7. Len(f[i - 1]) \in Nat /\ Len(parts[i]) \in Nat /\ Len(f[n]) \in Nat
        BY <1>1, <2>3, <2>5, <2>6, <4>4 DEF n
      <4>8. Short(i - 1)
        <5>1. PICK a \in Nat : a = Len(f[i - 1])
          BY <4>7
        <5>2. PICK b \in Nat : b = Len(parts[i])
          BY <4>7
        <5>3. Len(f[i]) = a + b
          BY <4>6, <5>1, <5>2
        <5>4. a <= a + b /\ \A p \in 1..a : p \in 1..(a + b)
          BY ONLY a \in Nat, b \in Nat
        <5>5. a + b <= Len(f[n])
          BY <4>5, <5>3
        <5>6. a <= Len(f[n])
          BY ONLY a \in Nat, b \in Nat, <4>7, <5>5
        <5> QED BY ONLY <4>5, <4>6, <5>1, <5>3, <5>4, <5>6
      <4> QED BY <4>2, <4>4, <4>8
    <3>2. ASSUME NEW i \in 1..n PROVE Short(i)
      <4>1. n - i \in 0..(n - 1) /\ n - (n - i) = i
        BY <2>3
      <4>2. n - i \notin Bad
        BY <3>1
      <4> HIDE DEF Short
      <4> QED BY <4>1, <4>2
    <3> QED BY <3>2
  <2> DEFINE at == [i \in 1..(n + 1) |-> IF i = 1 THEN 0 ELSE Len(f[i - 1])]
  <2>8. at \in [1..(n + 1) -> Nat] /\ at[1] = 0 /\ at[n + 1] = Len(flat)
    <3>1. \A i \in 1..(n + 1) : i = 1 \/ i - 1 \in 1..n
      BY <2>3
    <3>2. 1 \in 1..(n + 1) /\ n + 1 \in 1..(n + 1) /\ n + 1 # 1 /\ n + 1 - 1 = n
      BY <2>3
    <3>3. \A i \in 1..(n + 1) : at[i] \in Nat
      BY <2>5, <3>1
    <3>4. at[1] = 0 /\ at[n + 1] = Len(f[n])
      <4>1. \A i \in 1..(n + 1) : at[i] = IF i = 1 THEN 0 ELSE Len(f[i - 1])
        OBVIOUS
      <4> HIDE DEF at
      <4>2. PICK j \in 1..(n + 1) : j = n + 1
        BY <3>2
      <4>3. j # 1 /\ j - 1 = n
        BY <2>3, <4>2
      <4>4. at[j] = Len(f[n])
        BY ONLY <4>1, <4>3, j \in 1..(n + 1)
      <4> QED BY ONLY <3>2, <4>1, <4>2, <4>4
    <3>5. at = [i \in 1..(n + 1) |-> at[i]]
      OBVIOUS
    <3> HIDE DEF at
    <3> QED BY <2>1, <3>3, <3>4, <3>5
  <2>9. ASSUME NEW i \in 1..n
        PROVE  /\ at[i + 1] = at[i] + Len(parts[i])
               /\ \A k \in 1..Len(parts[i]) : flat[at[i] + k] = parts[i][k]
    <3>1. /\ i + 1 \in 1..(n + 1) /\ i \in 1..(n + 1) /\ i + 1 - 1 = i /\ i + 1 # 1
      BY <2>3
    <3>2. at[i + 1] = Len(f[i]) /\ at[i] = IF i = 1 THEN 0 ELSE Len(f[i - 1])
      BY <3>1
    <3> HIDE DEF at
    <3>3. Len(parts[i]) \in Nat
      BY <1>1 DEF n
    <3>4. CASE i = 1
      <4>1. f[i] = parts[i]
        BY <2>2, <3>4
      <4> QED BY <2>1, <2>7, <3>2, <3>3, <3>4, <4>1
    <3>5. CASE i # 1
      <4>1. /\ i - 1 \in 1..n /\ Len(f[i]) = Len(f[i - 1]) + Len(parts[i])
            /\ \A k \in 1..Len(parts[i]) : f[i][Len(f[i - 1]) + k] = parts[i][k]
        BY <2>6, <3>5
      <4>2. Len(f[i - 1]) \in Nat
        BY <2>5, <4>1
      <4>3. \A k \in 1..Len(parts[i]) : Len(f[i - 1]) + k \in 1..Len(f[i])
        <5> DEFINE a == Len(f[i - 1])
                   b == Len(parts[i])
        <5>1. a \in Nat /\ b \in Nat /\ Len(f[i]) = a + b
          BY <3>3, <4>1, <4>2
        <5> HIDE DEF a, b
        <5>2. \A k \in 1..b : a + k \in 1..(a + b)
          BY ONLY <5>1
        <5> QED BY <5>1, <5>2 DEF a, b
      <4> QED BY <2>1, <2>7, <3>2, <3>5, <4>1, <4>3
    <3> QED BY <3>4, <3>5
  <2>10. Places(at, parts, flat)
    <3> HIDE DEF at
    <3> QED BY <2>8, <2>9 DEF Places, n
  <2>11. flat \in Seq(S)
    BY <2>1, <2>3, <2>4
  <2> HIDE DEF at
  <2> QED BY <2>10, <2>11
<1> QED BY <1>2, <1>3

(* Each place of the whole is one of a part, and the parts come in their order. *)
Covers(at, parts, flat) ==
  /\ \A i, j \in 1..(Len(parts) + 1) : i <= j => at[i] <= at[j]
  /\ \A i \in 1..Len(parts) : \A k \in 1..Len(parts[i]) : at[i] + k \in 1..Len(flat)
  /\ \A p \in 1..Len(flat) :
       \E i \in 1..Len(parts) : \E k \in 1..Len(parts[i]) : p = at[i] + k

LEMMA PlacesCover ==
  ASSUME NEW S, NEW parts \in Seq(Seq(S)), NEW flat \in Seq(S), NEW at, Places(at, parts, flat)
  PROVE  Covers(at, parts, flat)
<1>1. PICK n \in Nat : n = Len(parts)
  OBVIOUS
<1>2. PICK m \in Nat : m = Len(flat)
  OBVIOUS
<1>3. \A i \in 1..n : Len(parts[i]) \in Nat
  BY <1>1
<1>4. /\ \A i \in 1..(n + 1) : at[i] \in Nat
      /\ at[1] = 0 /\ at[n + 1] = m
      /\ \A i \in 1..n : at[i + 1] = at[i] + Len(parts[i])
  BY <1>1, <1>2 DEF Places
<1>5. ASSUME NEW i \in 1..(n + 1), NEW j \in 1..(n + 1), i <= j PROVE at[i] <= at[j]
  <2> DEFINE Bad == {k \in i..(n + 1) : ~(at[i] <= at[k])}
  <2> SUFFICES ASSUME Bad # {} PROVE FALSE
    BY <1>5
  <2>1. PICK k \in Bad : \A l \in Bad : k <= l
    <3>1. Bad \in SUBSET Nat
      OBVIOUS
    <3> HIDE DEF Bad
    <3> QED BY <3>1, LeastOf
  <2>2. k \in i..(n + 1) /\ ~(at[i] <= at[k])
    OBVIOUS
  <2>3. k # i
    BY <1>4, <2>2
  <2>4. k - 1 \in i..(n + 1) /\ k - 1 \in 1..n /\ ~(k <= k - 1) /\ k - 1 + 1 = k
    BY ONLY <2>2, <2>3, i \in 1..(n + 1), n \in Nat
  <2>5. at[i] <= at[k - 1]
    BY <2>1, <2>4
  <2>6. at[k] = at[k - 1] + Len(parts[k - 1]) /\ Len(parts[k - 1]) \in Nat
    BY <1>3, <1>4, <2>4
  <2>7. at[i] \in Nat /\ at[k - 1] \in Nat
    BY <1>4, <2>4
  <2> HIDE DEF Bad
  <2> QED BY ONLY <2>2, <2>5, <2>6, <2>7
<1>6. ASSUME NEW i \in 1..n, NEW k \in 1..Len(parts[i]) PROVE at[i] + k \in 1..m
  <2>1. i \in 1..(n + 1) /\ i + 1 \in 1..(n + 1) /\ n + 1 \in 1..(n + 1) /\ i + 1 <= n + 1
    OBVIOUS
  <2>2. at[i + 1] <= m /\ at[i + 1] = at[i] + Len(parts[i]) /\ at[i] \in Nat
    BY <1>4, <1>5, <2>1
  <2>3. PICK a \in Nat : a = at[i]
    BY <2>2
  <2>4. PICK l \in Nat : l = Len(parts[i])
    BY <1>3
  <2>5. a + l <= m /\ k \in 1..l
    BY <1>6, <2>2, <2>3, <2>4
  <2>6. a + k \in 1..m
    BY ONLY <2>5, a \in Nat, l \in Nat, m \in Nat
  <2> QED BY <2>3, <2>6
<1>7. ASSUME NEW p \in 1..m
      PROVE  \E i \in 1..n : \E k \in 1..Len(parts[i]) : p = at[i] + k
  <2> DEFINE Past == {j \in 1..(n + 1) : p <= at[j]}
  <2>1. n + 1 \in Past
    BY <1>4
  <2>2. PICK j \in Past : \A l \in Past : j <= l
    <3>1. Past \in SUBSET Nat
      OBVIOUS
    <3> HIDE DEF Past
    <3> QED BY <2>1, <3>1, LeastOf
  <2>3. j \in 1..(n + 1) /\ p <= at[j] /\ j # 1
    BY <1>4
  <2>4. j - 1 \in 1..n /\ j - 1 \in 1..(n + 1) /\ ~(j <= j - 1) /\ j - 1 + 1 = j
    BY ONLY <2>3, n \in Nat
  <2>5. ~(p <= at[j - 1])
    BY <2>2, <2>4
  <2>6. at[j] = at[j - 1] + Len(parts[j - 1]) /\ Len(parts[j - 1]) \in Nat /\ at[j - 1] \in Nat
    BY <1>3, <1>4, <2>4
  <2>7. p - at[j - 1] \in 1..Len(parts[j - 1]) /\ p = at[j - 1] + (p - at[j - 1])
    <3>1. PICK a \in Nat : a = at[j - 1]
      BY <2>6
    <3>2. PICK b \in Nat : b = Len(parts[j - 1])
      BY <2>6
    <3>3. p \in Nat /\ p <= a + b /\ ~(p <= a)
      BY <2>3, <2>5, <2>6, <3>1, <3>2
    <3>4. p - a \in 1..b /\ p = a + (p - a)
      BY ONLY <3>3, a \in Nat, b \in Nat
    <3> QED BY <3>1, <3>2, <3>4
  <2> QED BY <2>4, <2>7
<1> QED BY <1>1, <1>2, <1>5, <1>6, <1>7 DEF Covers

(* Where every c is followed by a d, and every d preceded by a c, in parts of
   their own, so they are in the whole. *)
Holds(part, c) == \E k \in DOMAIN part : part[k] = c

Pairs(parts, c, d) ==
  /\ \A i \in DOMAIN parts : Holds(parts[i], c) =>
       \E j \in DOMAIN parts : i < j /\ Holds(parts[j], d)
  /\ \A j \in DOMAIN parts : Holds(parts[j], d) =>
       \E i \in DOMAIN parts : i < j /\ Holds(parts[i], c)

LEMMA FlatPairs ==
  ASSUME NEW S, NEW parts \in Seq(Seq(S)), NEW flat, flat = FlattenSeq(parts), NEW c, NEW d,
         Pairs(parts, c, d), Holds(flat, c) \/ Holds(flat, d)
  PROVE  \E p, q \in DOMAIN flat : p < q /\ flat[p] = c /\ flat[q] = d
<1>1. PICK at : Places(at, parts, flat) /\ flat \in Seq(S)
  BY Flattened
<1>2. /\ Len(parts) \in Nat /\ DOMAIN parts = 1..Len(parts) /\ DOMAIN flat = 1..Len(flat)
      /\ \A i \in 1..Len(parts) : Len(parts[i]) \in Nat /\ DOMAIN parts[i] = 1..Len(parts[i])
  BY <1>1
<1>3. /\ \A i, j \in 1..(Len(parts) + 1) : i <= j => at[i] <= at[j]
      /\ \A i \in 1..Len(parts) : \A k \in 1..Len(parts[i]) : at[i] + k \in 1..Len(flat)
      /\ \A p \in 1..Len(flat) :
           \E i \in 1..Len(parts) : \E k \in 1..Len(parts[i]) : p = at[i] + k
  <2>1. Covers(at, parts, flat)
    BY <1>1, PlacesCover
  <2> QED BY <2>1 DEF Covers
<1>4. /\ \A i \in 1..(Len(parts) + 1) : at[i] \in Nat
      /\ \A i \in 1..Len(parts) :
           /\ at[i + 1] = at[i] + Len(parts[i])
           /\ \A k \in 1..Len(parts[i]) : flat[at[i] + k] = parts[i][k]
  BY <1>1 DEF Places
<1>5. ASSUME NEW x, Holds(flat, x) PROVE \E i \in DOMAIN parts : Holds(parts[i], x)
  <2>1. PICK p \in 1..Len(flat) : flat[p] = x
    BY <1>2, <1>5 DEF Holds
  <2>2. PICK i \in 1..Len(parts) : \E k \in 1..Len(parts[i]) : p = at[i] + k
    BY <1>3
  <2>0. PICK k \in 1..Len(parts[i]) : p = at[i] + k
    BY <2>2
  <2>3. parts[i][k] = x
    BY <1>4, <2>0, <2>1
  <2> QED BY <1>2, <2>3 DEF Holds
<1>6. PICK i \in DOMAIN parts, j \in DOMAIN parts :
        i < j /\ Holds(parts[i], c) /\ Holds(parts[j], d)
  BY <1>5 DEF Pairs
<1>7. PICK k \in DOMAIN parts[i] : parts[i][k] = c
  BY <1>6 DEF Holds
<1>8. PICK l \in DOMAIN parts[j] : parts[j][l] = d
  BY <1>6 DEF Holds
<1>9. at[i] + k < at[j] + l
  <2>1. i + 1 \in 1..(Len(parts) + 1) /\ j \in 1..(Len(parts) + 1) /\ i + 1 <= j
        /\ i \in 1..(Len(parts) + 1)
    BY ONLY <1>2, <1>6
  <2>2. at[i + 1] <= at[j] /\ at[i + 1] = at[i] + Len(parts[i])
    BY <1>2, <1>3, <1>4, <2>1
  <2>3. PICK m \in Nat : m = Len(parts[i])
    BY <1>2
  <2>4. k \in 1..m /\ l \in Nat /\ l > 0
    BY <1>2, <2>3
  <2>5. PICK a \in Nat : a = at[i]
    BY <1>4, <2>1
  <2>6. PICK b \in Nat : b = at[j]
    BY <1>4, <2>1
  <2>7. a + m <= b
    BY <2>2, <2>3, <2>5, <2>6
  <2>8. a + k < b + l
    BY ONLY <2>4, <2>7, m \in Nat, a \in Nat, b \in Nat
  <2> QED BY <2>5, <2>6, <2>8
<1>10. at[i] + k \in DOMAIN flat /\ at[j] + l \in DOMAIN flat
  BY <1>2, <1>3
<1>11. flat[at[i] + k] = c /\ flat[at[j] + l] = d
  BY <1>2, <1>4, <1>7, <1>8
<1> QED BY <1>9, <1>10, <1>11

(* Where one sequence of parts begins with a piece and another with nothing, and
   they are the same beyond. *)
Behind(parts, others, x) ==
  /\ Len(parts) \in Nat \ {0} /\ Len(parts) = Len(others)
  /\ parts[1] = <<x>> /\ others[1] = <<>>
  /\ \A i \in 2..Len(parts) : parts[i] = others[i]

LEMMA FlatBehind ==
  ASSUME NEW S, NEW x \in S, NEW parts \in Seq(Seq(S)), NEW others \in Seq(Seq(S)),
         Behind(parts, others, x)
  PROVE  FlattenSeq(parts) = <<x>> \o FlattenSeq(others)
<1>0. PICK n \in Nat \ {0} : /\ n = Len(parts) /\ n = Len(others)
                             /\ parts[1] = <<x>> /\ others[1] = <<>>
                             /\ \A i \in 2..n : parts[i] = others[i]
  BY DEF Behind
<1>1. PICK f \in Seq(S) : f = FlattenSeq(parts)
  BY Flattened
<1>2. PICK at : Places(at, parts, f)
  BY <1>1, Flattened
<1>3. PICK g \in Seq(S) : g = FlattenSeq(others)
  BY Flattened
<1>4. PICK bt : Places(bt, others, g)
  BY <1>3, Flattened
<1>5. /\ \A i \in 1..(n + 1) : at[i] \in Nat /\ bt[i] \in Nat
      /\ at[1] = 0 /\ bt[1] = 0 /\ at[n + 1] = Len(f) /\ bt[n + 1] = Len(g)
      /\ \A i \in 1..n : at[i + 1] = at[i] + Len(parts[i]) /\ bt[i + 1] = bt[i] + Len(others[i])
  BY <1>0, <1>2, <1>4 DEF Places
<1>6. Len(parts[1]) = 1 /\ Len(others[1]) = 0 /\ \A i \in 2..n : Len(others[i]) \in Nat
  BY <1>0
<1>7. \A i \in 2..(n + 1) : at[i] = bt[i] + 1
  <2> DEFINE Bad == {i \in 2..(n + 1) : at[i] # bt[i] + 1}
  <2> SUFFICES ASSUME Bad # {} PROVE FALSE
    OBVIOUS
  <2>1. PICK i \in Bad : \A l \in Bad : i <= l
    <3>1. Bad \in SUBSET Nat
      OBVIOUS
    <3> HIDE DEF Bad
    <3> QED BY <3>1, LeastOf
  <2>2. i \in 2..(n + 1) /\ at[i] # bt[i] + 1
    OBVIOUS
  <2>3. i - 1 \in 1..n /\ i - 1 + 1 = i /\ ~(i <= i - 1) /\ i - 1 \in 1..(n + 1)
    BY ONLY <2>2, n \in Nat \ {0}
  <2>4. /\ at[i] = at[i - 1] + Len(parts[i - 1]) /\ bt[i] = bt[i - 1] + Len(others[i - 1])
        /\ at[i - 1] \in Nat /\ bt[i - 1] \in Nat
    BY <1>5, <2>3
  <2>5. CASE i = 2
    <3>1. i - 1 = 1
      BY <2>5
    <3>2. at[i - 1] = 0 /\ bt[i - 1] = 0 /\ Len(parts[i - 1]) = 1 /\ Len(others[i - 1]) = 0
      BY ONLY <1>5, <1>6, <3>1
    <3> QED BY ONLY <2>2, <2>4, <3>2
  <2>6. CASE i # 2
    <3>1. i - 1 \in 2..n /\ i - 1 \in 2..(n + 1)
      BY ONLY <2>2, <2>6, n \in Nat \ {0}
    <3>2. at[i - 1] = bt[i - 1] + 1
      BY <2>1, <2>3, <3>1
    <3>3. Len(parts[i - 1]) = Len(others[i - 1]) /\ Len(others[i - 1]) \in Nat
      BY <1>0, <1>6, <3>1
    <3>4. PICK b \in Nat : b = bt[i - 1]
      BY <2>4
    <3>5. PICK l \in Nat : l = Len(others[i - 1])
      BY <3>3
    <3>6. at[i] = b + 1 + l /\ bt[i] = b + l
      BY <2>4, <3>2, <3>3, <3>4, <3>5
    <3>7. b + 1 + l = b + l + 1
      BY ONLY b \in Nat, l \in Nat
    <3> QED BY <2>2, <3>6, <3>7
  <2> QED BY <2>5, <2>6
<1>8. Len(f) = Len(g) + 1 /\ Len(g) \in Nat
  <2>1. n + 1 \in 2..(n + 1)
    OBVIOUS
  <2>2. at[n + 1] = bt[n + 1] + 1
    BY ONLY <1>7, <2>1
  <2> QED BY ONLY <1>3, <1>5, <2>2
<1>9. f[1] = x
  <2>1. f[at[1] + 1] = x
    <3>1. \A i \in 1..n : \A k \in 1..Len(parts[i]) : f[at[i] + k] = parts[i][k]
      BY <1>0, <1>2 DEF Places
    <3>2. 1 \in 1..n /\ 1 \in 1..Len(parts[1])
      BY <1>6
    <3>3. f[at[1] + 1] = parts[1][1]
      BY ONLY <3>1, <3>2
    <3> QED BY <1>0, <3>3
  <2> QED BY <1>5, <2>1
<1>10. ASSUME NEW p \in 1..Len(g) PROVE f[p + 1] = g[p]
  <2>0. PICK i \in 1..n : \E k \in 1..Len(others[i]) : p = bt[i] + k
    <3>1. Covers(bt, others, g)
      BY <1>4, PlacesCover
    <3> QED BY <1>0, <3>1 DEF Covers
  <2>1. PICK k \in 1..Len(others[i]) : p = bt[i] + k
    BY <2>0
  <2>2. i # 1
    BY <1>6, <2>1
  <2>3. i \in 2..n /\ i \in 2..(n + 1)
    BY ONLY <2>2, i \in 1..n, n \in Nat \ {0}
  <2>4. k \in Nat /\ bt[i] \in Nat
    BY <1>5, <1>6, <2>3
  <2>5. at[i] + k = p + 1
    <3>1. at[i] = bt[i] + 1
      BY <1>7, <2>3
    <3>2. PICK b \in Nat : b = bt[i]
      BY <2>4
    <3>3. at[i] = b + 1 /\ p = b + k
      BY <2>1, <3>1, <3>2
    <3>4. b + 1 + k = b + k + 1
      BY ONLY b \in Nat, <2>4
    <3> QED BY <3>3, <3>4
  <2>6. f[at[i] + k] = parts[i][k] /\ g[bt[i] + k] = others[i][k]
    <3>1. k \in 1..Len(parts[i]) /\ parts[i] = others[i]
      BY <1>0, <2>3
    <3>2. f[at[i] + k] = parts[i][k]
      BY <1>0, <1>2, <3>1 DEF Places
    <3>3. g[bt[i] + k] = others[i][k]
      BY <1>0, <1>4 DEF Places
    <3> QED BY <3>2, <3>3
  <2> QED BY <1>0, <2>1, <2>3, <2>5, <2>6
<1>11. <<x>> \o g \in Seq(S) /\ Len(<<x>> \o g) = Len(g) + 1
  BY ONLY <1>8, x \in S, g \in Seq(S)
<1>12. \A q \in 1..(Len(g) + 1) : (<<x>> \o g)[q] = IF q = 1 THEN x ELSE g[q - 1]
  BY ONLY <1>8, x \in S, g \in Seq(S)
<1>13. \A q \in 1..Len(f) : f[q] = (<<x>> \o g)[q]
  <2> SUFFICES ASSUME NEW q \in 1..Len(f) PROVE f[q] = (<<x>> \o g)[q]
    OBVIOUS
  <2>1. q \in 1..(Len(g) + 1) /\ (q # 1 => q - 1 \in 1..Len(g) /\ q - 1 + 1 = q)
    BY ONLY <1>8, q \in 1..Len(f)
  <2>2. q # 1 => f[q] = g[q - 1]
    BY <1>10, <2>1
  <2> QED BY <1>9, <1>12, <2>1, <2>2
<1>14. f = <<x>> \o g
  BY <1>8, <1>11, <1>13, SeqEqual
<1> QED BY <1>1, <1>3, <1>14

(* A sequence taken apart into its elements, or of nothing. *)
LEMMA FlatElements ==
  ASSUME NEW S, NEW s \in Seq(S), NEW parts, parts = [i \in DOMAIN s |-> <<s[i]>>]
  PROVE  FlattenSeq(parts) = s
<1>1. PICK n \in Nat : n = Len(s)
  OBVIOUS
<1>2. /\ parts \in Seq(Seq(S)) /\ Len(parts) = n /\ DOMAIN s = 1..n
      /\ \A i \in 1..n : Len(parts[i]) = 1 /\ parts[i][1] = s[i]
  BY <1>1
<1>3. PICK f \in Seq(S) : f = FlattenSeq(parts)
  BY <1>2, Flattened
<1>4. PICK at : Places(at, parts, f)
  BY <1>2, <1>3, Flattened
<1>5. /\ \A i \in 1..(n + 1) : at[i] \in Nat
      /\ at[1] = 0 /\ at[n + 1] = Len(f) /\ \A i \in 1..n : at[i + 1] = at[i] + 1
      /\ \A i \in 1..n : f[at[i] + 1] = s[i]
  <2>1. /\ at \in [1..(n + 1) -> Nat] /\ at[1] = 0 /\ at[n + 1] = Len(f)
        /\ \A i \in 1..n : at[i + 1] = at[i] + Len(parts[i])
        /\ \A i \in 1..n : \A k \in 1..Len(parts[i]) : f[at[i] + k] = parts[i][k]
    BY <1>2, <1>4 DEF Places
  <2>2. \A i \in 1..n : at[i + 1] = at[i] + 1 /\ f[at[i] + 1] = s[i]
    <3> SUFFICES ASSUME NEW i \in 1..n PROVE at[i + 1] = at[i] + 1 /\ f[at[i] + 1] = s[i]
      OBVIOUS
    <3>1. Len(parts[i]) = 1 /\ parts[i][1] = s[i] /\ 1 \in 1..Len(parts[i])
      BY <1>2
    <3>2. at[i + 1] = at[i] + Len(parts[i]) /\ f[at[i] + 1] = parts[i][1]
      BY ONLY <2>1, <3>1, i \in 1..n
    <3> QED BY ONLY <3>1, <3>2
  <2> QED BY ONLY <2>1, <2>2
<1>6. \A i \in 1..(n + 1) : at[i] = i - 1
  <2> DEFINE Bad == {i \in 1..(n + 1) : at[i] # i - 1}
  <2> SUFFICES ASSUME Bad # {} PROVE FALSE
    OBVIOUS
  <2>1. PICK i \in Bad : \A l \in Bad : i <= l
    <3>1. Bad \in SUBSET Nat
      OBVIOUS
    <3> HIDE DEF Bad
    <3> QED BY <3>1, LeastOf
  <2>2. i \in 1..(n + 1) /\ at[i] # i - 1
    OBVIOUS
  <2>3. i # 1
    BY <1>5, <2>2
  <2>4. i - 1 \in 1..n /\ i - 1 + 1 = i /\ ~(i <= i - 1) /\ i - 1 \in 1..(n + 1)
    BY ONLY <2>2, <2>3, n \in Nat
  <2>5. at[i - 1] = i - 1 - 1 /\ at[i] = at[i - 1] + 1
    BY <1>5, <2>1, <2>4
  <2> QED BY ONLY <2>2, <2>5
<1>7. Len(f) = n
  BY <1>5, <1>6
<1>8. \A i \in 1..n : f[i] = s[i]
  <2>1. \A i \in 1..n : at[i] + 1 = i
    BY <1>6
  <2> QED BY <1>5, <2>1
<1>9. f = s
  BY <1>1, <1>7, <1>8, SeqEqual
<1> QED BY <1>3, <1>9

LEMMA FlatOfNothing ==
  ASSUME NEW n \in Nat, NEW parts, parts = [i \in 1..n |-> <<>>]
  PROVE  FlattenSeq(parts) = <<>>
<1>1. /\ parts \in Seq(Seq({})) /\ Len(parts) = n
  OBVIOUS
<1>2. FlattenSeq(parts) \in Seq({})
  BY <1>1, Flattened
<1> QED BY <1>2

-----------------------------------------------------------------------------
(* What a model is asked with. *)

Pieces   == [kind : {"text", "use", "result"}, round : Nat, n : Nat]
Messages == [role : {"system", "assistant", "user"}, content : Seq(Pieces)]
Prompt   == Piece("text", 0, 0)

OfOneKind(content) ==
  \/ \A k \in DOMAIN content : Stream!IsResult(content[k])
  \/ \A k \in DOMAIN content : ~Stream!IsResult(content[k])

(* Each call has its result in a later message, and each result its call in an earlier one. *)
Paired(ms) ==
  \A r, n \in Nat :
    /\ \A i \in DOMAIN ms : Holds(ms[i].content, Piece("use", r, n)) =>
         \E j \in DOMAIN ms : i < j /\ Holds(ms[j].content, Piece("result", r, n))
    /\ \A j \in DOMAIN ms : Holds(ms[j].content, Piece("result", r, n)) =>
         \E i \in DOMAIN ms : i < j /\ Holds(ms[i].content, Piece("use", r, n))

Fit(ms) ==
  /\ ms \in Seq(Messages)
  /\ \A i \in DOMAIN ms : OfOneKind(ms[i].content)
  /\ Paired(ms)

NoPrompt(ms) == \A i \in DOMAIN ms : ms[i].role # "system"

(* A conversation begins with the system prompt, and has no other. *)
Conversation(ms) ==
  /\ Fit(ms) /\ Len(ms) \in Nat \ {0}
  /\ ms[1].role = "system" /\ ms[1].content = <<Prompt>>
  /\ \A i \in 2..Len(ms) : ms[i].role # "system"

RequestInv == Conversation(messages) /\ (Reading => body = Stream!Body(messages))

LEMMA Joined2 ==
  ASSUME NEW S, NEW a \in Seq(S), NEW b \in Seq(S)
  PROVE  /\ a \o b \in Seq(S) /\ Len(a) \in Nat /\ Len(b) \in Nat
         /\ DOMAIN a = 1..Len(a) /\ DOMAIN b = 1..Len(b) /\ DOMAIN (a \o b) = 1..(Len(a) + Len(b))
         /\ Len(a \o b) = Len(a) + Len(b)
         /\ \A i \in 1..Len(a) : (a \o b)[i] = a[i]
         /\ \A k \in 1..Len(b) : (a \o b)[Len(a) + k] = b[k]
         /\ \A i \in 1..(Len(a) + Len(b)) : i \in 1..Len(a) \/ \E k \in 1..Len(b) : i = Len(a) + k
<1>1. /\ a \o b \in Seq(S) /\ Len(a \o b) = Len(a) + Len(b) /\ Len(a) \in Nat /\ Len(b) \in Nat
      /\ \A p \in 1..(Len(a) + Len(b)) :
           (a \o b)[p] = IF p <= Len(a) THEN a[p] ELSE b[p - Len(a)]
  BY ConcatProperties
<1>2. DOMAIN a = 1..Len(a) /\ DOMAIN b = 1..Len(b)
  OBVIOUS
<1>3. DOMAIN (a \o b) = 1..(Len(a) + Len(b))
  BY <1>1
<1>4. PICK la \in Nat : la = Len(a)
  BY <1>1
<1>5. PICK lb \in Nat : lb = Len(b)
  BY <1>1
<1>6. /\ \A p \in 1..la : p \in 1..(la + lb) /\ p <= la
      /\ \A k \in 1..lb : la + k \in 1..(la + lb) /\ ~(la + k <= la) /\ la + k - la = k
  OBVIOUS
<1>7. \A i \in 1..(la + lb) : i \in 1..la \/ \E k \in 1..lb : i = la + k
  <2> SUFFICES ASSUME NEW i \in 1..(la + lb), i \notin 1..la PROVE \E k \in 1..lb : i = la + k
    OBVIOUS
  <2>1. i - la \in 1..lb /\ i = la + (i - la)
    OBVIOUS
  <2> QED BY <2>1
<1>8. PICK ab : ab = a \o b
  OBVIOUS
<1>9. /\ \A i \in 1..la : ab[i] = a[i]
      /\ \A k \in 1..lb : ab[la + k] = b[k]
  <2>1. \A p \in 1..(la + lb) : ab[p] = IF p <= la THEN a[p] ELSE b[p - la]
    BY <1>1, <1>4, <1>5, <1>8
  <2>2. ASSUME NEW i \in 1..la PROVE ab[i] = a[i]
    <3>1. i \in 1..(la + lb) /\ i <= la
      BY <1>6
    <3> QED BY ONLY <2>1, <3>1
  <2>3. ASSUME NEW k \in 1..lb PROVE ab[la + k] = b[k]
    <3>1. la + k \in 1..(la + lb) /\ ~(la + k <= la) /\ la + k - la = k
      BY <1>6
    <3> QED BY ONLY <2>1, <3>1
  <2> QED BY <2>2, <2>3
<1> QED BY ONLY <1>1, <1>2, <1>3, <1>4, <1>5, <1>7, <1>8, <1>9

LEMMA HoldsJoined ==
  ASSUME NEW S, NEW a \in Seq(S), NEW b \in Seq(S), NEW c
  PROVE  Holds(a \o b, c) <=> Holds(a, c) \/ Holds(b, c)
<1>1. /\ DOMAIN a = 1..Len(a) /\ DOMAIN b = 1..Len(b) /\ DOMAIN (a \o b) = 1..(Len(a) + Len(b))
      /\ \A i \in 1..Len(a) : (a \o b)[i] = a[i]
      /\ \A k \in 1..Len(b) : (a \o b)[Len(a) + k] = b[k]
      /\ \A i \in 1..(Len(a) + Len(b)) : i \in 1..Len(a) \/ \E k \in 1..Len(b) : i = Len(a) + k
      /\ Len(a) \in Nat /\ Len(b) \in Nat
  BY ONLY a \in Seq(S), b \in Seq(S), Joined2
<1>2. /\ \A i \in 1..Len(a) : i \in 1..(Len(a) + Len(b))
      /\ \A k \in 1..Len(b) : Len(a) + k \in 1..(Len(a) + Len(b))
  <2>1. PICK la \in Nat : la = Len(a)
    BY <1>1
  <2>2. PICK lb \in Nat : lb = Len(b)
    BY <1>1
  <2>3. /\ \A i \in 1..la : i \in 1..(la + lb)
        /\ \A k \in 1..lb : la + k \in 1..(la + lb)
    BY ONLY la \in Nat, lb \in Nat
  <2> QED BY <2>1, <2>2, <2>3
<1>3. ASSUME Holds(a \o b, c) PROVE Holds(a, c) \/ Holds(b, c)
  <2>1. PICK i \in 1..(Len(a) + Len(b)) : (a \o b)[i] = c
    BY ONLY <1>1, <1>3 DEF Holds
  <2>2. CASE i \in 1..Len(a)
    BY <1>1, <2>1, <2>2 DEF Holds
  <2>3. ASSUME NEW k \in 1..Len(b), i = Len(a) + k PROVE Holds(b, c)
    BY <1>1, <2>1, <2>3 DEF Holds
  <2> QED BY <1>1, <2>2, <2>3
<1>4. Holds(a, c) => Holds(a \o b, c)
  BY ONLY <1>1, <1>2 DEF Holds
<1>5. Holds(b, c) => Holds(a \o b, c)
  BY ONLY <1>1, <1>2 DEF Holds
<1> QED BY <1>3, <1>4, <1>5

LEMMA FitJoined ==
  ASSUME NEW ms, Fit(ms), NEW ns, Fit(ns)
  PROVE  Fit(ms \o ns)
<1>1. /\ ms \o ns \in Seq(Messages) /\ Len(ms) \in Nat /\ Len(ns) \in Nat
      /\ DOMAIN ms = 1..Len(ms) /\ DOMAIN ns = 1..Len(ns)
      /\ DOMAIN (ms \o ns) = 1..(Len(ms) + Len(ns))
      /\ \A i \in 1..Len(ms) : (ms \o ns)[i] = ms[i]
      /\ \A k \in 1..Len(ns) : (ms \o ns)[Len(ms) + k] = ns[k]
      /\ \A i \in 1..(Len(ms) + Len(ns)) : i \in 1..Len(ms) \/ \E k \in 1..Len(ns) : i = Len(ms) + k
  BY Joined2 DEF Fit
<1>2. PICK a \in Nat : a = Len(ms)
  BY <1>1
<1>3. PICK b \in Nat : b = Len(ns)
  BY <1>1
<1>4. PICK all : all = ms \o ns
  OBVIOUS
<1>5. /\ DOMAIN ms = 1..a /\ DOMAIN ns = 1..b /\ DOMAIN all = 1..(a + b)
      /\ \A i \in 1..a : all[i] = ms[i]
      /\ \A k \in 1..b : all[a + k] = ns[k]
      /\ \A i \in 1..(a + b) : i \in 1..a \/ \E k \in 1..b : i = a + k
  BY <1>1, <1>2, <1>3, <1>4
<1>6. /\ \A i \in 1..a : i \in 1..(a + b)
      /\ \A k \in 1..b : a + k \in 1..(a + b)
      /\ \A i, j \in 1..b : i < j => a + i < a + j
  OBVIOUS
<1>7. ASSUME NEW i \in DOMAIN all PROVE OfOneKind(all[i].content)
  <2>1. /\ \A k \in DOMAIN ms : OfOneKind(ms[k].content)
        /\ \A k \in DOMAIN ns : OfOneKind(ns[k].content)
    BY DEF Fit
  <2>2. CASE i \in 1..a
    BY ONLY <1>5, <2>1, <2>2
  <2>3. ASSUME NEW k \in 1..b, i = a + k PROVE OfOneKind(all[i].content)
    BY ONLY <1>5, <2>1, <2>3
  <2> QED BY <1>5, <2>2, <2>3
<1>8. Paired(all)
  <2> SUFFICES ASSUME NEW r \in Nat, NEW n \in Nat, NEW i \in DOMAIN all,
                      NEW c, c = Piece("use", r, n), NEW d, d = Piece("result", r, n)
               PROVE  /\ Holds(all[i].content, c) =>
                           \E j \in DOMAIN all : i < j /\ Holds(all[j].content, d)
                      /\ Holds(all[i].content, d) =>
                           \E j \in DOMAIN all : j < i /\ Holds(all[j].content, c)
    BY DEF Paired
  <2>1. /\ \A k \in 1..a : Holds(ms[k].content, c) =>
             \E j \in 1..a : k < j /\ Holds(ms[j].content, d)
        /\ \A k \in 1..a : Holds(ms[k].content, d) =>
             \E j \in 1..a : j < k /\ Holds(ms[j].content, c)
    BY <1>5 DEF Fit, Paired
  <2>2. /\ \A k \in 1..b : Holds(ns[k].content, c) =>
             \E j \in 1..b : k < j /\ Holds(ns[j].content, d)
        /\ \A k \in 1..b : Holds(ns[k].content, d) =>
             \E j \in 1..b : j < k /\ Holds(ns[j].content, c)
    BY <1>5 DEF Fit, Paired
  <2>3. CASE i \in 1..a
    BY ONLY <1>5, <1>6, <2>1, <2>3
  <2>4. ASSUME NEW k \in 1..b, i = a + k
        PROVE  /\ Holds(all[i].content, c) =>
                    \E j \in DOMAIN all : i < j /\ Holds(all[j].content, d)
               /\ Holds(all[i].content, d) =>
                    \E j \in DOMAIN all : j < i /\ Holds(all[j].content, c)
    <3>1. all[i] = ns[k] /\ \A j \in 1..b : all[a + j] = ns[j] /\ a + j \in DOMAIN all
      BY ONLY <1>5, <1>6, <2>4
    <3>2. ASSUME Holds(all[i].content, c)
          PROVE  \E j \in DOMAIN all : i < j /\ Holds(all[j].content, d)
      <4>1. PICK j \in 1..b : k < j /\ Holds(ns[j].content, d)
        BY ONLY <2>2, <3>1, <3>2, k \in 1..b
      <4>2. i < a + j
        BY <1>6, <2>4, <4>1
      <4> QED BY ONLY <3>1, <4>1, <4>2
    <3>3. ASSUME Holds(all[i].content, d)
          PROVE  \E j \in DOMAIN all : j < i /\ Holds(all[j].content, c)
      <4>1. PICK j \in 1..b : j < k /\ Holds(ns[j].content, c)
        BY ONLY <2>2, <3>1, <3>3, k \in 1..b
      <4>2. a + j < i
        BY <1>6, <2>4, <4>1
      <4> QED BY ONLY <3>1, <4>1, <4>2
    <3> QED BY <3>2, <3>3
  <2> QED BY <1>5, <2>3, <2>4
<1> QED BY <1>1, <1>4, <1>7, <1>8 DEF Fit

LEMMA PieceIs ==
  ASSUME NEW kind \in {"text", "use", "result"}, NEW r \in Nat, NEW n \in Nat
  PROVE  /\ Piece(kind, r, n) \in Pieces /\ Stream!Piece(kind, r, n) = Piece(kind, r, n)
         /\ Stream!IsResult(Piece(kind, r, n)) <=> kind = "result"
BY DEF Piece, Stream!Piece, Pieces, Stream!IsResult

(* What a round adds. *)
LEMMA RoundFits ==
  ASSUME NEW r \in Nat, NEW t, t.calls \in Seq(Uses),
         NEW a, a = Stream!Assistant(r, t), NEW b, b = Stream!ToolResults(r, t)
  PROVE  Fit(<<a, b>>) /\ NoPrompt(<<a, b>>)
<1>1. PICK n \in Nat : n = Len(t.calls)
  OBVIOUS
<1>2. PICK uses_ : uses_ = [i \in 1..n |-> Piece("use", r, t.calls[i].n)]
  OBVIOUS
<1>3. PICK results_ : results_ = [i \in 1..n |-> Piece("result", r, t.calls[i].n)]
  OBVIOUS
<1>4. PICK texts : texts = (IF t.texts = <<>> THEN <<>> ELSE <<Piece("text", r, 0)>>)
  OBVIOUS
<1>5. DOMAIN t.calls = 1..n /\ \A i \in 1..n : t.calls[i].n \in Nat
  <2>1. PICK calls \in Seq(Uses) : calls = t.calls
    OBVIOUS
  <2>2. DOMAIN calls = 1..n /\ \A i \in 1..n : calls[i] \in Uses
    BY <1>1, <2>1
  <2>3. \A e \in Uses : e.n \in Nat
    BY DEF Uses
  <2> QED BY <2>1, <2>2, <2>3
<1>6. \A i \in 1..n : /\ Piece("use", r, t.calls[i].n) \in Pieces
                      /\ Piece("result", r, t.calls[i].n) \in Pieces
  BY <1>5, PieceIs
<1>7. uses_ \in Seq(Pieces) /\ results_ \in Seq(Pieces) /\ DOMAIN uses_ = 1..n /\ DOMAIN results_ = 1..n
  BY <1>2, <1>3, <1>6
<1>8. texts \in Seq(Pieces) /\ \A k \in DOMAIN texts : texts[k] = Piece("text", r, 0)
  <2>1. Piece("text", r, 0) \in Pieces
    BY PieceIs
  <2> QED BY <1>4, <2>1
<1>9. a = [role |-> "assistant", content |-> texts \o uses_]
  <2>1. uses_ = [i \in DOMAIN t.calls |-> Stream!Piece("use", r, t.calls[i].n)]
    BY <1>2, <1>5, PieceIs
  <2>2. texts = (IF t.texts = <<>> THEN <<>> ELSE <<Stream!Piece("text", r, 0)>>)
    BY <1>4, PieceIs
  <2> QED BY <2>1, <2>2, Zenon DEF Stream!Assistant
<1>10. b = [role |-> "user", content |-> results_]
  <2>1. results_ = [i \in DOMAIN t.calls |-> Stream!Piece("result", r, t.calls[i].n)]
    BY <1>3, <1>5, PieceIs
  <2> QED BY <2>1, Zenon DEF Stream!ToolResults
<1>11. texts \o uses_ \in Seq(Pieces)
  BY <1>7, <1>8, ConcatProperties
<1>12. a \in Messages /\ b \in Messages /\ a.content = texts \o uses_ /\ b.content = results_
  BY <1>7, <1>9, <1>10, <1>11 DEF Messages
<1>13. \A c : Holds(a.content, c) <=> Holds(texts, c) \/ Holds(uses_, c)
  BY <1>7, <1>8, <1>12, HoldsJoined
<1>14. \A c : Holds(texts, c) => ~Stream!IsResult(c) /\ c.kind = "text"
  BY <1>8, PieceIs DEF Holds, Piece
<1>15. \A c : Holds(uses_, c) => ~Stream!IsResult(c) /\ c.kind = "use"
  BY <1>2, <1>5, <1>7, PieceIs DEF Holds, Piece
<1>16. \A c : Holds(results_, c) => Stream!IsResult(c) /\ c.kind = "result"
  BY <1>3, <1>5, <1>7, PieceIs DEF Holds, Piece
<1>17. OfOneKind(a.content) /\ OfOneKind(b.content)
  <2>1. \A k \in DOMAIN a.content : Holds(a.content, a.content[k])
    BY DEF Holds
  <2>2. \A k \in DOMAIN b.content : Holds(b.content, b.content[k])
    BY DEF Holds
  <2>3. \A k \in DOMAIN a.content : ~Stream!IsResult(a.content[k])
    BY <1>13, <1>14, <1>15, <2>1
  <2>4. \A k \in DOMAIN b.content : Stream!IsResult(b.content[k])
    BY <1>12, <1>16, <2>2
  <2> QED BY <2>3, <2>4 DEF OfOneKind
<1>18. PICK ms : ms = <<a, b>>
  OBVIOUS
<1>19. /\ ms \in Seq(Messages) /\ DOMAIN ms = 1..2 /\ ms[1] = a /\ ms[2] = b
       /\ \A i \in 1..2 : i = 1 \/ i = 2
  BY <1>12, <1>18
<1>20. ASSUME NEW q \in Nat, NEW m \in Nat
       PROVE  /\ Holds(a.content, Piece("use", q, m)) <=> Holds(b.content, Piece("result", q, m))
              /\ ~Holds(a.content, Piece("result", q, m)) /\ ~Holds(b.content, Piece("use", q, m))
  <2>1. Piece("use", q, m).kind = "use" /\ Piece("result", q, m).kind = "result"
    BY DEF Piece
  <2>2. ~Holds(texts, Piece("use", q, m))
    BY <1>14, <2>1
  <2>3. ~Holds(a.content, Piece("result", q, m)) /\ ~Holds(b.content, Piece("use", q, m))
    BY <1>12, <1>13, <1>14, <1>15, <1>16, <2>1
  <2>4. Holds(uses_, Piece("use", q, m)) <=> \E i \in 1..n : t.calls[i].n = m /\ r = q
    BY <1>2, <1>7 DEF Holds, Piece
  <2>5. Holds(results_, Piece("result", q, m)) <=> \E i \in 1..n : t.calls[i].n = m /\ r = q
    BY <1>3, <1>7 DEF Holds, Piece
  <2> QED BY <1>12, <1>13, <2>2, <2>3, <2>4, <2>5
<1>21. Paired(ms)
  <2>1. 1 \in DOMAIN ms /\ 2 \in DOMAIN ms /\ 1 < 2 /\ \A i \in DOMAIN ms : i = 1 \/ i = 2
    BY <1>19
  <2> QED BY ONLY <1>19, <1>20, <2>1 DEF Paired
<1>22. Fit(ms)
  BY <1>17, <1>19, <1>21 DEF Fit
<1>23. NoPrompt(ms)
  BY <1>9, <1>10, <1>19 DEF NoPrompt
<1> QED BY <1>18, <1>22, <1>23

(* Messages without calls and results. *)
Plain(ms) == \A i \in DOMAIN ms : \A k \in DOMAIN ms[i].content : ms[i].content[k].kind = "text"

LEMMA PlainFits ==
  ASSUME NEW ms \in Seq(Messages), Plain(ms)
  PROVE  Fit(ms)
<1>1. \A i \in DOMAIN ms : OfOneKind(ms[i].content)
  BY DEF Plain, OfOneKind, Stream!IsResult
<1>2. \A c : c.kind # "text" => \A i \in DOMAIN ms : ~Holds(ms[i].content, c)
  BY DEF Plain, Holds
<1>3. \A r, n : Piece("use", r, n).kind = "use" /\ Piece("result", r, n).kind = "result"
  BY DEF Piece
<1>4. Paired(ms)
  BY <1>2, <1>3 DEF Paired
<1> QED BY <1>1, <1>4 DEF Fit

LEMMA TextMessage ==
  ASSUME NEW role \in {"system", "assistant", "user"}, NEW n \in Nat, NEW m,
         m = [role |-> role, content |-> <<Piece("text", 0, n)>>]
  PROVE  /\ m \in Messages /\ m.role = role /\ m.content = <<Piece("text", 0, n)>>
         /\ \A k \in DOMAIN m.content : m.content[k].kind = "text"
<1>1. Piece("text", 0, n) \in Pieces /\ Piece("text", 0, n).kind = "text"
  BY PieceIs DEF Piece
<1> QED BY <1>1 DEF Messages

LEMMA LastFits ==
  Fit(<<Stream!NoMoreTools>>) /\ NoPrompt(<<Stream!NoMoreTools>>)
<1>1. PICK m : m = [role |-> "user", content |-> <<Piece("text", 0, 3)>>]
  OBVIOUS
<1>2. Stream!NoMoreTools = m
  BY <1>1, PieceIs DEF Stream!NoMoreTools
<1>3. m \in Messages /\ m.role = "user" /\ \A k \in DOMAIN m.content : m.content[k].kind = "text"
  BY <1>1, TextMessage
<1>4. PICK ms : ms = <<m>>
  OBVIOUS
<1>5. ms \in Seq(Messages) /\ \A i \in DOMAIN ms : ms[i] = m
  BY <1>3, <1>4
<1>6. Fit(ms) /\ NoPrompt(ms)
  BY <1>3, <1>5, PlainFits DEF Plain, NoPrompt
<1> QED BY <1>2, <1>4, <1>6

LEMMA RequestStarts ==
  ASSUME Stream!Init
  PROVE  RequestInv
<1>1. PICK a : a = [role |-> "system", content |-> <<Piece("text", 0, 0)>>]
  OBVIOUS
<1>2. PICK b : b = [role |-> "assistant", content |-> <<Piece("text", 0, 1)>>]
  OBVIOUS
<1>3. PICK c : c = [role |-> "user", content |-> <<Piece("text", 0, 2)>>]
  OBVIOUS
<1>4. messages = <<a, b, c>> /\ ~Reading
  BY <1>1, <1>2, <1>3, PieceIs DEF Stream!Init, Stream!Opening, Reading
<1>5. /\ a \in Messages /\ a.role = "system" /\ a.content = <<Prompt>>
      /\ \A k \in DOMAIN a.content : a.content[k].kind = "text"
  BY <1>1, TextMessage DEF Prompt
<1>6. /\ b \in Messages /\ b.role = "assistant"
      /\ \A k \in DOMAIN b.content : b.content[k].kind = "text"
  BY <1>2, TextMessage
<1>7. /\ c \in Messages /\ c.role = "user"
      /\ \A k \in DOMAIN c.content : c.content[k].kind = "text"
  BY <1>3, TextMessage
<1>8. /\ messages \in Seq(Messages) /\ Len(messages) = 3 /\ DOMAIN messages = 1..3
      /\ messages[1] = a /\ messages[2] = b /\ messages[3] = c
      /\ \A i \in 1..3 : i = 1 \/ i = 2 \/ i = 3
  BY <1>4, <1>5, <1>6, <1>7
<1>9. Plain(messages)
  BY ONLY <1>5, <1>6, <1>7, <1>8 DEF Plain
<1>10. \A i \in 2..Len(messages) : messages[i].role # "system"
  BY ONLY <1>6, <1>7, <1>8
<1>11. Fit(messages)
  BY <1>8, <1>9, PlainFits
<1> QED BY <1>4, <1>5, <1>8, <1>10, <1>11 DEF RequestInv, Conversation

(* A step asks, or it ends a round, or it leaves what was asked alone. *)
Asks   == body' = Stream!Body(messages) /\ messages' = messages /\ wire' = wire
Leaves == body' = body /\ messages' = messages /\ wire' = wire /\ (Reading' => Reading)

LEMMA Answering ==
  ASSUME NEW status, Stream!Answered(status)
  PROVE  Asks
BY DEF Stream!Answered, Stream!Ask, Asks

LEMMA Parsing ==
  ASSUME NEW p, NEW out, Stream!Parsed(p, out)
  PROVE  Leaves
BY DEF Stream!Parsed, Leaves, Reading

LEMMA Asking ==
  ASSUME [Stream!Next]_(Stream!vars)
  PROVE  Asks \/ Leaves \/ Stream!TakeDone
<1>1. CASE Stream!Anthropic
  <2>1. ASSUME NEW status, Stream!AnthropicStream(status) PROVE Asks
    BY <2>1, Answering DEF Stream!AnthropicStream
  <2>2. ASSUME NEW call, Stream!ContentBlockStart(call) PROVE Leaves
    BY <2>2, Parsing DEF Stream!ContentBlockStart
  <2>3. ASSUME NEW n, Stream!InputJsonDelta(n) \/ Stream!ContentBlockStop(n) PROVE Leaves
    BY <2>3, Parsing DEF Stream!InputJsonDelta, Stream!ContentBlockStop
  <2>4. CASE Stream!BlockTextDelta \/ Stream!MessageDelta \/ Stream!MessageStop
    BY <2>4, Parsing DEF Stream!BlockTextDelta, Stream!MessageDelta, Stream!MessageStop
  <2>5. CASE Stream!ErrorFrame \/ Stream!AnthropicEof
    BY <2>5, Parsing DEF Stream!ErrorFrame, Stream!Fails, Stream!AnthropicEof
  <2> QED BY ONLY <1>1, <2>1, <2>2, <2>3, <2>4, <2>5 DEF Stream!Anthropic
<1>2. CASE Stream!OpenAi
  <2>1. ASSUME NEW status, Stream!OpenAiStream(status) PROVE Asks
    BY <2>1, Answering DEF Stream!OpenAiStream
  <2>2. ASSUME NEW call, Stream!FirstToolCallChunk(call) PROVE Leaves
    BY <2>2, Parsing DEF Stream!FirstToolCallChunk
  <2>3. ASSUME NEW n, Stream!ToolCallChunk(n) PROVE Leaves
    BY <2>3, Parsing DEF Stream!ToolCallChunk
  <2>4. CASE Stream!ContentChunk \/ Stream!FinishReason \/ Stream!UsageChunk
    BY <2>4, Parsing DEF Stream!ContentChunk, Stream!FinishReason, Stream!UsageChunk
  <2>5. CASE Stream!DoneSentinel \/ Stream!ErrorChunk \/ Stream!OpenAiEof
    BY <2>5, Parsing DEF Stream!DoneSentinel, Stream!ErrorChunk, Stream!Fails, Stream!OpenAiEof
  <2> QED BY ONLY <1>2, <2>1, <2>2, <2>3, <2>4, <2>5 DEF Stream!OpenAi
<1>3. CASE Stream!ChatGpt
  <2>1. ASSUME NEW signed_in, NEW status, Stream!ChatGptStream(signed_in, status) PROVE Asks
    BY <2>1, Answering DEF Stream!ChatGptStream
  <2>2. ASSUME NEW call, Stream!OutputItemAdded(call) \/ Stream!FirstArgumentsDelta(call)
        PROVE  Leaves
    BY <2>2, Parsing DEF Stream!OutputItemAdded, Stream!FirstArgumentsDelta
  <2>3. ASSUME NEW n, Stream!FunctionCallArgumentsDelta(n) \/ Stream!OutputItemDone(n)
        PROVE  Leaves
    BY <2>3, Parsing DEF Stream!FunctionCallArgumentsDelta, Stream!OutputItemDone
  <2>4. CASE Stream!OutputTextDelta \/ Stream!ResponseCompleted
    BY <2>4, Parsing DEF Stream!OutputTextDelta, Stream!ResponseCompleted
  <2>5. CASE Stream!ResponseFailed \/ Stream!ResponsesEof
    BY <2>5, Parsing DEF Stream!ResponseFailed, Stream!Fails, Stream!ResponsesEof
  <2> QED BY ONLY <1>3, <2>1, <2>2, <2>3, <2>4, <2>5 DEF Stream!ChatGpt
<1>4. CASE Stream!MockStream
  BY <1>4 DEF Stream!MockStream, Stream!Ask, Asks
<1>5. CASE Stream!Broken
  BY <1>5, Parsing DEF Stream!Broken
<1>6. CASE Stream!TakeText \/ Stream!TakeToolUse \/ Stream!TakeError
  <2>1. ASSUME NEW t, Stream!Taken(t), messages' = messages PROVE Leaves
    BY <2>1 DEF Stream!Taken, Leaves, Reading
  <2> QED BY <1>6, <2>1, Zenon DEF Stream!TakeText, Stream!TakeToolUse, Stream!TakeError
<1>7. CASE Stream!Exhausted
  BY <1>7 DEF Stream!Exhausted, Stream!Polled, Leaves, Reading
<1>8. CASE UNCHANGED Stream!vars
  BY <1>8 DEF Stream!vars, Leaves, Reading
<1> QED BY ONLY <1>1, <1>2, <1>3, <1>4, <1>5, <1>6, <1>7, <1>8, [Stream!Next]_(Stream!vars)
        DEF Stream!Next

(* What was said so far stays, and what fits it is added. *)
LEMMA ConversationGrows ==
  ASSUME NEW ms, Conversation(ms), NEW ns, Fit(ns), NoPrompt(ns), NEW all, all = ms \o ns
  PROVE  Conversation(all)
<1>1. Fit(ms) /\ Fit(all)
  BY FitJoined DEF Conversation
<1>2. PICK a \in Nat : a = Len(ms)
  BY DEF Conversation
<1>3. PICK b \in Nat : b = Len(ns)
  BY DEF Fit
<1>4. /\ Len(all) = a + b /\ DOMAIN ns = 1..b
      /\ \A i \in 1..a : all[i] = ms[i]
      /\ \A k \in 1..b : all[a + k] = ns[k]
      /\ \A i \in 1..(a + b) : i \in 1..a \/ \E k \in 1..b : i = a + k
  <2>1. ms \in Seq(Messages) /\ ns \in Seq(Messages)
    BY <1>1 DEF Fit
  <2>2. /\ Len(ms \o ns) = Len(ms) + Len(ns) /\ DOMAIN ns = 1..Len(ns)
        /\ \A i \in 1..Len(ms) : (ms \o ns)[i] = ms[i]
        /\ \A k \in 1..Len(ns) : (ms \o ns)[Len(ms) + k] = ns[k]
        /\ \A i \in 1..(Len(ms) + Len(ns)) : i \in 1..Len(ms) \/ \E k \in 1..Len(ns) : i = Len(ms) + k
    BY ONLY <2>1, Joined2
  <2> QED BY ONLY <1>2, <1>3, <2>2, all = ms \o ns
<1>5. /\ a # 0 /\ ms[1].role = "system" /\ ms[1].content = <<Prompt>>
      /\ \A i \in 2..a : ms[i].role # "system"
  BY <1>2 DEF Conversation
<1>6. 1 \in 1..a /\ a + b # 0 /\ \A i \in 2..(a + b) : i \in 1..(a + b) /\ (i \in 1..a => i \in 2..a)
  BY <1>5
<1>7. all[1].role = "system" /\ all[1].content = <<Prompt>>
  BY ONLY <1>4, <1>5, <1>6
<1>8. ASSUME NEW i \in 2..(a + b) PROVE all[i].role # "system"
  <2>1. \A k \in 1..b : ns[k].role # "system"
    BY <1>4 DEF NoPrompt
  <2>2. CASE i \in 1..a
    BY ONLY <1>4, <1>5, <1>6, <2>2, i \in 2..(a + b)
  <2>3. ASSUME NEW k \in 1..b, i = a + k PROVE all[i].role # "system"
    BY ONLY <1>4, <2>1, <2>3
  <2> QED BY <1>4, <1>6, <2>2, <2>3
<1> QED BY <1>1, <1>4, <1>6, <1>7, <1>8 DEF Conversation

(* A round of tools adds its calls and their results, and the last one the
   request to answer without tools. *)
LEMMA RoundEnds ==
  ASSUME StreamTypes, RequestInv, Stream!TakeDone
  PROVE  RequestInv'
<1>1. loop.round \in Nat /\ loop.calls \in Seq(Uses)
  BY DEF StreamTypes
<1>2. PICK a, b : a = Stream!Assistant(loop.round, loop) /\ b = Stream!ToolResults(loop.round, loop)
  OBVIOUS
<1>3. ~Reading'
  <2>1. ASSUME NEW t, DOMAIN t = DOMAIN loop,
               \/ Stream!Taken([t EXCEPT !.state = "ok"])
               \/ Stream!Taken([t EXCEPT !.state = "ask", !.round = @ + 1])
        PROVE  ~Reading'
    <3>1. "state" \in DOMAIN t
      BY <2>1 DEF StreamTypes
    <3> QED BY <2>1, <3>1 DEF Stream!Taken, Reading
  <2>2. PICK t : /\ DOMAIN t = DOMAIN loop
                 /\ \/ Stream!Taken([t EXCEPT !.state = "ok"])
                    \/ Stream!Taken([t EXCEPT !.state = "ask", !.round = @ + 1])
    BY DEF Stream!TakeDone
  <2> QED BY <2>1, <2>2
<1>4. \/ messages' = messages
      \/ messages' = (messages \o <<a, b>>) \o <<Stream!NoMoreTools>>
      \/ messages' = (messages \o <<a, b>>) \o <<>>
  BY <1>2, Zenon DEF Stream!TakeDone
<1>5. Conversation(messages)
  BY DEF RequestInv
<1>6. Fit(<<a, b>>) /\ NoPrompt(<<a, b>>)
  BY <1>1, <1>2, RoundFits
<1>7. PICK ms : ms = messages \o <<a, b>>
  OBVIOUS
<1>8. Conversation(ms)
  BY <1>5, <1>6, <1>7, ConversationGrows
<1>9. Conversation(ms \o <<Stream!NoMoreTools>>)
  BY <1>8, LastFits, ConversationGrows
<1>10. ms \o <<>> = ms
  BY <1>8 DEF Conversation, Fit
<1>11. Conversation(messages')
  BY <1>4, <1>5, <1>7, <1>8, <1>9, <1>10
<1>12. Conversation(messages)'
  BY <1>11 DEF Conversation, Fit, Paired, OfOneKind, Holds, Prompt, Piece
<1> QED BY <1>3, <1>12 DEF RequestInv

LEMMA RequestKept ==
  ASSUME StreamTypes, RequestInv, [Stream!Next]_(Stream!vars)
  PROVE  RequestInv'
<1>1. ASSUME messages' = messages PROVE Conversation(messages)'
  BY <1>1 DEF RequestInv
<1>2. ASSUME wire' = wire, messages' = messages
      PROVE  Stream!Body(messages)' = Stream!Body(messages)
  BY <1>2, Zenon DEF Stream!Body
<1>3. CASE Asks
  BY <1>1, <1>2, <1>3 DEF Asks, RequestInv
<1>4. CASE Leaves
  BY <1>1, <1>2, <1>4 DEF Leaves, RequestInv
<1>5. CASE Stream!TakeDone
  BY <1>5, RoundEnds
<1> QED BY <1>3, <1>4, <1>5, Asking

LEMMA SameFlatten == \A parts : Stream!FlattenSeq(parts) = FlattenSeq(parts)
BY Zenon DEF Stream!FlattenSeq, FlattenSeq

LEMMA SameSpoken == \A ms : Stream!Spoken(ms) = Spoken(ms)
BY SameFlatten DEF Stream!Spoken, Spoken

(* The form of OpenAI keeps every message, because none mixes results with other pieces. *)
LEMMA OpenAiKeeps ==
  ASSUME NEW content \in Seq(Pieces), OfOneKind(content),
         NEW found, found = Stream!ResultsIn(content)
  PROVE  (IF found # <<>> THEN found ELSE content) = content
<1>1. PICK n \in Nat : DOMAIN content = 1..n
  OBVIOUS
<1>2. PICK parts : parts = [k \in DOMAIN content |->
                             IF Stream!IsResult(content[k]) THEN <<content[k]>> ELSE <<>>]
  OBVIOUS
<1>3. found = FlattenSeq(parts)
  BY <1>2, SameFlatten DEF Stream!ResultsIn
<1>4. CASE \A k \in DOMAIN content : Stream!IsResult(content[k])
  <2>1. parts = [k \in DOMAIN content |-> <<content[k]>>]
    BY <1>2, <1>4
  <2>2. found = content
    BY <1>3, <2>1, FlatElements
  <2> QED BY <2>2
<1>5. CASE \A k \in DOMAIN content : ~Stream!IsResult(content[k])
  <2>1. parts = [k \in 1..n |-> <<>>]
    BY <1>1, <1>2, <1>5
  <2>2. found = <<>>
    BY <1>3, <2>1, FlatOfNothing
  <2> QED BY <2>2
<1> QED BY <1>4, <1>5 DEF OfOneKind

(* What is in the messages, and what of it is said beside the system prompt. *)
Contents(ms) == [i \in DOMAIN ms |-> ms[i].content]
Others(ms)   == [i \in DOMAIN ms |-> IF ms[i].role = "system" THEN <<>> ELSE ms[i].content]

LEMMA Parts ==
  ASSUME NEW ms, Conversation(ms)
  PROVE  /\ Contents(ms) \in Seq(Seq(Pieces)) /\ Len(Contents(ms)) = Len(ms)
         /\ Others(ms) \in Seq(Seq(Pieces)) /\ Len(Others(ms)) = Len(ms)
         /\ DOMAIN ms = 1..Len(ms) /\ DOMAIN Contents(ms) = DOMAIN ms /\ DOMAIN Others(ms) = DOMAIN ms
<1>1. PICK n \in Nat : n = Len(ms) /\ DOMAIN ms = 1..n
  BY DEF Conversation, Fit
<1>2. \A i \in 1..n : ms[i] \in Messages
  BY <1>1 DEF Conversation, Fit
<1>3. \A i \in 1..n : ms[i].content \in Seq(Pieces)
  BY <1>2 DEF Messages
<1>4. <<>> \in Seq(Pieces)
  OBVIOUS
<1>5. PICK cs : cs = [i \in 1..n |-> ms[i].content]
  OBVIOUS
<1>6. cs \in Seq(Seq(Pieces)) /\ Len(cs) = n /\ DOMAIN cs = 1..n
  BY <1>3, <1>5
<1>7. PICK os : os = [i \in 1..n |-> IF ms[i].role = "system" THEN <<>> ELSE ms[i].content]
  OBVIOUS
<1>8. os \in Seq(Seq(Pieces)) /\ Len(os) = n /\ DOMAIN os = 1..n
  BY <1>3, <1>4, <1>7
<1> QED BY <1>1, <1>5, <1>6, <1>7, <1>8 DEF Contents, Others

LEMMA BodyIs ==
  ASSUME NEW ms, Conversation(ms), wire \in {"anthropic", "openai_compat", "chatgpt"}
  PROVE  Stream!Body(ms) = IF wire = "openai_compat" THEN FlattenSeq(Contents(ms)) ELSE Spoken(ms)
<1>1. CASE wire = "openai_compat"
  <2>1. ASSUME NEW i \in DOMAIN ms
        PROVE  (IF Stream!ResultsIn(ms[i].content) # <<>> THEN Stream!ResultsIn(ms[i].content)
                ELSE ms[i].content) = ms[i].content
    <3>1. ms[i] \in Messages /\ OfOneKind(ms[i].content)
      BY DEF Conversation, Fit
    <3>2. ms[i].content \in Seq(Pieces)
      BY <3>1 DEF Messages
    <3> QED BY <3>1, <3>2, OpenAiKeeps
  <2>2. Stream!OpenAiBody(ms) = Stream!FlattenSeq(Contents(ms))
    BY <2>1, Zenon DEF Stream!OpenAiBody, Contents
  <2> QED BY <1>1, <2>2, SameFlatten DEF Stream!Body
<1>2. CASE wire \in {"anthropic", "chatgpt"}
  BY <1>2, SameSpoken DEF Stream!Body, Stream!AnthropicBody, Stream!ChatGptBody
<1> QED BY <1>1, <1>2

LEMMA PromptFirst ==
  ASSUME NEW ms, Conversation(ms)
  PROVE  FlattenSeq(Contents(ms)) = <<Prompt>> \o Spoken(ms)
<1>1. PICK n \in Nat \ {0} : n = Len(ms)
  BY DEF Conversation
<1>2. Prompt \in Pieces
  BY PieceIs DEF Prompt
<1>3. 1 \in 1..n /\ \A i \in 2..n : i \in 1..n
  OBVIOUS
<1>4. Contents(ms)[1] = <<Prompt>> /\ Others(ms)[1] = <<>>
  BY <1>1, <1>3, Parts DEF Conversation, Contents, Others
<1>5. \A i \in 2..n : Contents(ms)[i] = Others(ms)[i]
  BY <1>1, <1>3, Parts DEF Conversation, Contents, Others
<1>6. PICK cs \in Seq(Seq(Pieces)) : cs = Contents(ms) /\ Len(cs) = n
  BY <1>1, Parts
<1>7. PICK os \in Seq(Seq(Pieces)) : os = Others(ms) /\ Len(os) = n
  BY <1>1, Parts
<1>8. FlattenSeq(cs) = <<Prompt>> \o FlattenSeq(os)
  <2>1. Behind(cs, os, Prompt)
    BY ONLY <1>1, <1>4, <1>5, <1>6, <1>7 DEF Behind
  <2> QED BY ONLY <1>2, <1>6, <1>7, <2>1, FlatBehind
<1> QED BY <1>6, <1>7, <1>8 DEF Spoken, Others

LEMMA PairsStay ==
  ASSUME NEW ms, Conversation(ms), NEW parts, parts = Contents(ms) \/ parts = Others(ms),
         NEW r \in Nat, NEW n \in Nat, NEW c, c = Piece("use", r, n), NEW d, d = Piece("result", r, n),
         NEW flat, flat = FlattenSeq(parts), Holds(flat, c) \/ Holds(flat, d)
  PROVE  \E p, q \in DOMAIN flat : p < q /\ flat[p] = c /\ flat[q] = d
<1>1. parts \in Seq(Seq(Pieces)) /\ DOMAIN parts = DOMAIN ms
  BY Parts
<1>2. ASSUME NEW i \in DOMAIN ms, NEW x \in {c, d}
      PROVE  Holds(parts[i], x) <=> Holds(ms[i].content, x)
  <2>1. x # Prompt
    BY DEF Piece, Prompt
  <2>2. CASE parts[i] = ms[i].content
    BY <2>2
  <2>3. CASE ms[i].role = "system" /\ parts[i] = <<>>
    <3>1. i = 1
      BY <2>3, Parts DEF Conversation
    <3>2. ms[i].content = <<Prompt>>
      BY <3>1 DEF Conversation
    <3> QED BY <2>1, <2>3, <3>2 DEF Holds
  <2> QED BY <2>2, <2>3 DEF Contents, Others
<1>3. /\ \A i \in DOMAIN ms : Holds(ms[i].content, c) =>
           \E j \in DOMAIN ms : i < j /\ Holds(ms[j].content, d)
      /\ \A j \in DOMAIN ms : Holds(ms[j].content, d) =>
           \E i \in DOMAIN ms : i < j /\ Holds(ms[i].content, c)
  BY DEF Conversation, Fit, Paired
<1>4. /\ \A i \in DOMAIN parts : Holds(parts[i], c) =>
           \E j \in DOMAIN parts : i < j /\ Holds(parts[j], d)
      /\ \A j \in DOMAIN parts : Holds(parts[j], d) =>
           \E i \in DOMAIN parts : i < j /\ Holds(parts[i], c)
  BY <1>1, <1>2, <1>3
<1>5. Pairs(parts, c, d)
  BY ONLY <1>4 DEF Pairs
<1> QED BY ONLY <1>1, <1>5, flat = FlattenSeq(parts), Holds(flat, c) \/ Holds(flat, d), FlatPairs

LEMMA RequestFollows ==
  ASSUME Stream!StreamBounds, Stream!WireNames, StreamTypes, RequestInv
  PROVE  RequestIsWhole
<1> SUFFICES ASSUME wire # "mock", loop.state = "reading"
             PROVE  /\ body = (IF wire = "openai_compat" THEN <<Prompt>> ELSE <<>>) \o Spoken(messages)
                    /\ \A r \in 1..MaxToolTurns, n \in 1..MaxCalls :
                         Piece("use", r, n) \in ToSet(body) \/ Piece("result", r, n) \in ToSet(body)
                           => Before(Piece("use", r, n), Piece("result", r, n))
  BY DEF RequestIsWhole, Prompt
<1>1. wire \in {"anthropic", "openai_compat", "chatgpt"}
  BY DEF StreamTypes, Stream!WireNames
<1>2. Conversation(messages) /\ body = Stream!Body(messages)
  BY DEF RequestInv, Reading
<1>3. PICK parts : /\ body = FlattenSeq(parts)
                   /\ parts = Contents(messages) \/ parts = Others(messages)
  BY <1>1, <1>2, BodyIs DEF Spoken, Others
<1>4. body = (IF wire = "openai_compat" THEN <<Prompt>> ELSE <<>>) \o Spoken(messages)
  <2>1. CASE wire = "openai_compat"
    BY <1>1, <1>2, <2>1, BodyIs, PromptFirst
  <2>2. CASE wire # "openai_compat"
    <3>1. body = Spoken(messages)
      BY <1>1, <1>2, <2>2, BodyIs
    <3>2. Spoken(messages) \in Seq(Pieces)
      BY <1>2, Parts, Flattened DEF Spoken, Others
    <3>3. <<>> \o Spoken(messages) = Spoken(messages)
      BY <3>2
    <3> QED BY <2>2, <3>1, <3>3
  <2> QED BY <2>1, <2>2
<1>5. ASSUME NEW r \in 1..MaxToolTurns, NEW n \in 1..MaxCalls, NEW c, c = Piece("use", r, n),
             NEW d, d = Piece("result", r, n), c \in ToSet(body) \/ d \in ToSet(body)
      PROVE  Before(c, d)
  <2>1. r \in Nat /\ n \in Nat
    BY DEF Stream!StreamBounds
  <2>2. Holds(body, c) \/ Holds(body, d)
    BY <1>5 DEF ToSet, Holds
  <2>3. \E p, q \in DOMAIN body : p < q /\ body[p] = c /\ body[q] = d
    BY <1>2, <1>3, <1>5, <2>1, <2>2, PairsStay
  <2> QED BY <2>3 DEF Before
<1> QED BY <1>4, <1>5

(* Every request a provider is sent, in whatever format and after any number of
   rounds, is the conversation: each text and each call, in order, and each
   call's result after it, so that no service can refuse it for a call without
   a result or a result without a call (build_body, provider/anthropic.rs,
   openai_compat.rs and chatgpt.rs). *)
THEOREM RequestsWhole ==
  ASSUME Stream!StreamBounds, Stream!WireNames, Stream!ScriptsAssumption
  PROVE  Stream!Spec => []RequestIsWhole
<1>1. Stream!Init => StreamInv /\ RequestInv
  BY StreamStarts, RequestStarts
<1>2. StreamInv /\ RequestInv /\ [Stream!Next]_(Stream!vars) => (StreamInv /\ RequestInv)'
  BY StreamKept, RequestKept DEF StreamInv
<1>3. StreamInv /\ RequestInv => RequestIsWhole
  BY RequestFollows DEF StreamInv
<1> QED BY <1>1, <1>2, <1>3, PTL DEF Stream!Spec

-----------------------------------------------------------------------------
(* A turn's rounds. *)

USE LimitsAssumption, SizesAssumption

(* Typing. *)

LEMMA RoundOfCalls ==
  ASSUME NEW u \in UsesOfARound
  PROVE  /\ Len(u) \in Nat \ {0} /\ DOMAIN u = 1..Len(u)
         /\ \A i \in 1..Len(u) : u[i] \in Calls
<1>1. PICK n \in 1..MaxUses : u \in [1..n -> Calls]
  BY DEF UsesOfARound
<1>2. u \in Seq(Calls)
  BY <1>1
<1> QED BY <1>1, <1>2, LenProperties

(* TypeOK, and where the fields are fresh or complete. *)
TypeInv ==
  /\ TypeOK
  /\ phase \in {"stream", "tools", "clip"} => round <= MaxToolTurns
  /\ phase \in {"tools", "clip"} => uses # <<>>
  /\ phase = "tools" => given = <<>>
  /\ phase # "tools" => \A i \in DOMAIN uses : outcomes[i] # Pending

LEMMA UsesType ==
  ASSUME TypeOK
  PROVE  Len(uses) \in Nat /\ DOMAIN uses = 1..Len(uses)
BY RoundOfCalls DEF TypeOK

LEMMA ClippedType ==
  ASSUME NEW m \in Nat, NEW s \in Nat
  PROVE  /\ Clipped(m, s) \in Nat
         /\ Clipped(m, s) >= Least(m, Least(ResultChars, Floor))
         /\ s + Clipped(m, s) <= Most(TurnChars, s + Floor)
BY DEF Clipped, Allowance, Minus, Least, Most

LEMMA ToolRoundTypes ==
  ASSUME TypeInv, NEW u \in UsesOfARound, ToolRound(u)
  PROVE  TypeInv'
<1> DEFINE first == [i \in DOMAIN u |-> seen[u[i]]]
<1>1. /\ Len(u) \in Nat \ {0} /\ DOMAIN u = 1..Len(u)
      /\ \A i \in DOMAIN u : u[i] \in Calls
  BY RoundOfCalls
<1>2. \A i \in DOMAIN u : first[i] \in Nat
  BY <1>1 DEF TypeInv, TypeOK
<1>3. round \in 1..MaxToolTurns /\ round \in Nat
  BY DEF TypeInv, TypeOK, ToolRound, Most
<1>4. uses' = u /\ uses' # <<>>
  BY <1>1 DEF ToolRound
<1>5. repeats' \in [DOMAIN uses' -> Nat]
  BY <1>2, <1>4 DEF ToolRound
<1>6. outcomes' \in [DOMAIN uses' -> Nat \cup {Pending}]
  BY <1>2, <1>4 DEF ToolRound
<1>7. given' = <<>> /\ given' \in Seq(Nat) /\ Len(given') <= Len(uses')
  BY <1>1, <1>4 DEF ToolRound
<1>8. seen' \in [Calls -> 0..MaxToolTurns]
  BY <1>3 DEF ToolRound, Seen, TypeInv, TypeOK
<1>9. stalled' \in Nat
  BY DEF ToolRound, Stalled, TypeInv, TypeOK
<1>10. ran' \in [Calls -> Nat]
  <2>1. ran \in [Calls -> Nat]
    BY DEF TypeInv, TypeOK
  <2>2. \A c \in Calls : ran[c] + 1 \in Nat /\ ran[c] + 0 \in Nat
    BY <2>1
  <2> QED BY <2>2 DEF ToolRound
<1>11. phase' = "tools" /\ UNCHANGED <<round, spent, count>>
  BY DEF ToolRound
<1>12. TypeOK'
  BY <1>4, <1>5, <1>6, <1>7, <1>8, <1>9, <1>10, <1>11 DEF TypeInv, TypeOK
<1> QED BY <1>3, <1>4, <1>7, <1>11, <1>12 DEF TypeInv

LEMMA ToolReturnsTypes ==
  ASSUME TypeInv, NEW i \in DOMAIN uses, NEW z \in Sizes, ToolReturns(i, z)
  PROVE  TypeInv'
<1>1. outcomes' \in [DOMAIN uses -> Nat \cup {Pending}]
  BY DEF ToolReturns, TypeInv, TypeOK
<1>2. TypeOK'
  BY <1>1 DEF ToolReturns, TypeInv, TypeOK, turn
<1> QED BY <1>2 DEF ToolReturns, TypeInv, turn

(* The result that is handed on next is in. *)
LEMMA NextResult ==
  ASSUME TypeInv, Clip
  PROVE  /\ Len(given) + 1 \in DOMAIN outcomes /\ Len(given) + 1 <= Len(uses)
         /\ outcomes[Len(given) + 1] \in Nat
<1>1. Len(given) + 1 \in 1..Len(uses)
  BY DEF Clip, TypeInv, TypeOK
<1> QED BY <1>1, UsesType DEF Clip, TypeInv, TypeOK

LEMMA ClipTypes ==
  ASSUME TypeInv, Clip
  PROVE  TypeInv'
<1> DEFINE chars == Clipped(outcomes[Len(given) + 1], spent)
<1>1. chars \in Nat
  BY NextResult, ClippedType DEF TypeInv, TypeOK
<1>2. given' = Append(given, chars) /\ spent' = spent + chars /\ count' = count + 1
  BY DEF Clip
<1>3. given' \in Seq(Nat) /\ Len(given') = Len(given) + 1
  BY <1>1, <1>2 DEF TypeInv, TypeOK
<1>4. spent' \in Nat /\ count' \in Nat
  <2>1. spent \in Nat /\ count \in Nat
    BY DEF TypeInv, TypeOK
  <2> HIDE DEF chars
  <2> QED BY <1>1, <1>2, <2>1
<1>5. phase = "clip" /\ UNCHANGED <<phase, round, uses, repeats, outcomes, seen, stalled, ran>>
  BY DEF Clip
<1>6. TypeOK'
  BY <1>3, <1>4, <1>5, NextResult DEF TypeInv, TypeOK
<1> QED BY <1>5, <1>6 DEF TypeInv

LEMMA NextRoundTypes ==
  ASSUME TypeInv, NextRound
  PROVE  TypeInv'
<1>1. phase = "clip" /\ UNCHANGED <<results, turn>>
  BY DEF NextRound
<1>2. /\ phase' \in {"force", "stream"} /\ round' \in 1..Most(MaxToolTurns, 1)
      /\ phase' = "stream" => round' <= MaxToolTurns
  BY SMTT(30) DEF NextRound, TypeInv, TypeOK, Most
<1>3. TypeOK'
  BY <1>1, <1>2 DEF TypeInv, TypeOK, results, turn
<1> QED BY <1>1, <1>2, <1>3 DEF TypeInv, results

LEMMA InitTypes == Init => TypeInv
BY DEF Init, TypeInv, TypeOK, Most

LEMMA StepTypes == TypeInv /\ [Next]_vars => TypeInv'
<1> SUFFICES ASSUME TypeInv, [Next]_vars PROVE TypeInv'
  OBVIOUS
<1>1. ASSUME NEW u \in UsesOfARound, ToolRound(u) PROVE TypeInv'
  BY <1>1, ToolRoundTypes
<1>2. ASSUME NEW i \in DOMAIN uses, NEW z \in Sizes, ToolReturns(i, z) PROVE TypeInv'
  BY <1>2, ToolReturnsTypes
<1>3. ASSUME FinalRound \/ Joined \/ ForcedAnswer \/ Fail PROVE TypeInv'
  <2>1. phase' \in {"clip", "done", "failed"} /\ UNCHANGED <<round, results, turn>>
    BY <1>3 DEF FinalRound, Joined, ForcedAnswer, Fail
  <2>2. TypeOK'
    BY <2>1 DEF TypeInv, TypeOK, results, turn
  <2>3. phase' = "clip" => phase = "tools" /\ \A i \in DOMAIN uses : outcomes[i] # Pending
    BY <1>3 DEF FinalRound, Joined, ForcedAnswer, Fail
  <2>4. phase' # "clip" => phase # "tools"
    BY <1>3 DEF FinalRound, Joined, ForcedAnswer, Fail
  <2> QED BY <2>1, <2>2, <2>3, <2>4 DEF TypeInv, results
<1>4. ASSUME Clip PROVE TypeInv'
  BY <1>4, ClipTypes
<1>5. ASSUME NextRound PROVE TypeInv'
  BY <1>5, NextRoundTypes
<1>6. ASSUME UNCHANGED vars PROVE TypeInv'
  BY <1>6 DEF vars, results, turn, TypeInv, TypeOK
<1> QED BY <1>1, <1>2, <1>3, <1>4, <1>5, <1>6 DEF Next
-----------------------------------------------------------------------------
(* The properties. *)

(* Every variable of a turn keeps its type. *)
THEOREM TypeCorrect == Spec => []TypeOK
<1>1. Spec => []TypeInv
  BY InitTypes, StepTypes, PTL DEF Spec
<1>2. TypeInv => TypeOK
  BY DEF TypeInv
<1> QED BY <1>1, <1>2, PTL

(* Together the results of a turn take no more of the model's context than the
   turn's budget and a floor for each of them, whatever tools return. *)
THEOREM BudgetIsKept == Spec => []BudgetHolds
<1>1. Init => BudgetHolds
  BY DEF Init, BudgetHolds
<1>2. TypeInv /\ BudgetHolds /\ [Next]_vars => BudgetHolds'
  <2> SUFFICES ASSUME TypeInv, BudgetHolds, [Next]_vars PROVE BudgetHolds'
    OBVIOUS
  <2> DEFINE floors == count * Floor
  <2>1. spent \in Nat /\ count \in Nat /\ TurnChars \in Nat /\ Floor \in Nat
    BY DEF TypeInv, TypeOK
  <2>2. floors \in Nat /\ (count + 1) * Floor = floors + Floor
    BY <2>1
  <2>3. spent <= TurnChars + floors
    BY DEF BudgetHolds
  <2>4. CASE Clip
    <3> DEFINE chars == Clipped(outcomes[Len(given) + 1], spent)
    <3>1. chars \in Nat /\ spent + chars <= Most(TurnChars, spent + Floor)
      BY <2>1, <2>4, NextResult, ClippedType
    <3>2. spent' = spent + chars /\ count' = count + 1
      BY <2>4 DEF Clip
    <3> HIDE DEF chars, floors
    <3>3. spent' <= TurnChars + (floors + Floor)
      BY <2>1, <2>2, <2>3, <3>1, <3>2 DEF Most
    <3> QED BY <2>2, <3>2, <3>3 DEF BudgetHolds
  <2>5. CASE ~Clip
    <3>1. UNCHANGED <<spent, count>>
      BY <2>5 DEF Next, ToolRound, ToolReturns, FinalRound, Joined, NextRound, ForcedAnswer, Fail,
                  vars, results, turn
    <3> QED BY <2>3, <3>1 DEF BudgetHolds
  <2> QED BY <2>4, <2>5
<1>3. Spec => []TypeInv
  BY InitTypes, StepTypes, PTL DEF Spec
<1> QED BY <1>1, <1>2, <1>3, PTL DEF Spec

(* With the budget spent the model still receives the beginning of every
   result, so that no call it makes is in vain. *)
THEOREM ResultsAreGiven == Spec => []NeverEmptyHanded
<1>1. Init => NeverEmptyHanded
  BY DEF Init, NeverEmptyHanded
<1>2. TypeInv /\ NeverEmptyHanded /\ [Next]_vars => NeverEmptyHanded'
  <2> SUFFICES ASSUME TypeInv, NeverEmptyHanded, [Next]_vars PROVE NeverEmptyHanded'
    OBVIOUS
  <2>1. ASSUME NEW u \in UsesOfARound, ToolRound(u) PROVE NeverEmptyHanded'
    BY <2>1 DEF ToolRound, NeverEmptyHanded
  <2>2. ASSUME NEW i \in DOMAIN uses, NEW z \in Sizes, ToolReturns(i, z)
        PROVE  NeverEmptyHanded'
    BY <2>2 DEF ToolReturns, TypeInv, NeverEmptyHanded
  <2>3. CASE Clip
    <3> DEFINE n == Len(given) + 1
               chars == Clipped(outcomes[n], spent)
    <3>1. chars \in Nat /\ chars >= Least(outcomes[n], Least(ResultChars, Floor))
      BY <2>3, NextResult, ClippedType DEF TypeInv, TypeOK
    <3>2. given' = Append(given, chars) /\ outcomes' = outcomes
      BY <2>3 DEF Clip
    <3>4. given \in Seq(Nat) /\ n = Len(given) + 1
      BY DEF TypeInv, TypeOK
    <3> HIDE DEF chars, n
    <3>3. /\ DOMAIN given = 1..Len(given) /\ DOMAIN given' = 1..n
          /\ \A i \in 1..Len(given) : given'[i] = given[i]
          /\ given'[n] = chars
      BY <3>1, <3>2, <3>4
    <3>5. \A i \in DOMAIN given' : i \in DOMAIN given \/ i = n
      BY <3>3, <3>4
    <3> QED BY <3>1, <3>2, <3>3, <3>5 DEF NeverEmptyHanded
  <2>4. CASE FinalRound \/ Joined \/ NextRound \/ ForcedAnswer \/ Fail \/ UNCHANGED vars
    <3>1. UNCHANGED <<given, outcomes>>
      BY <2>4 DEF FinalRound, Joined, NextRound, ForcedAnswer, Fail, vars, results
    <3> QED BY <3>1 DEF NeverEmptyHanded
  <2> QED BY <2>1, <2>2, <2>3, <2>4 DEF Next
<1>3. Spec => []TypeInv
  BY InitTypes, StepTypes, PTL DEF Spec
<1> QED BY <1>1, <1>2, <1>3, PTL DEF Spec

(* No call is dispatched in two rounds, and none is refused before it was. *)
THEOREM CallsRunOnce == Spec => []OneRoundPerCall
<1>1. Init => OneRoundPerCall
  BY DEF Init, OneRoundPerCall
<1>2. TypeInv /\ OneRoundPerCall /\ [Next]_vars => OneRoundPerCall'
  <2> SUFFICES ASSUME TypeInv, OneRoundPerCall, [Next]_vars PROVE OneRoundPerCall'
    OBVIOUS
  <2>1. ASSUME NEW u \in UsesOfARound, ToolRound(u) PROVE OneRoundPerCall'
    <3> SUFFICES ASSUME NEW c \in Calls
                 PROVE  ran'[c] = IF seen'[c] = 0 THEN 0 ELSE 1
      BY DEF OneRoundPerCall
    <3> DEFINE asked == \E i \in DOMAIN u : u[i] = c
    <3>1. round # 0
      BY DEF TypeInv, TypeOK
    <3>2. seen'[c] = IF seen[c] = 0 /\ asked THEN round ELSE seen[c]
      BY <2>1 DEF ToolRound, Seen
    <3>3. ran'[c] = ran[c] + IF asked /\ seen[c] = 0 THEN 1 ELSE 0
      BY <2>1 DEF ToolRound
    <3>4. ran[c] = IF seen[c] = 0 THEN 0 ELSE 1
      BY DEF OneRoundPerCall
    <3> QED BY <3>1, <3>2, <3>3, <3>4
  <2>2. ASSUME NEW i \in DOMAIN uses, NEW z \in Sizes, ToolReturns(i, z)
        PROVE  OneRoundPerCall'
    BY <2>2 DEF ToolReturns, turn, OneRoundPerCall
  <2>3. CASE FinalRound \/ Joined \/ Clip \/ NextRound \/ ForcedAnswer \/ Fail \/ UNCHANGED vars
    <3>1. UNCHANGED <<ran, seen>>
      BY <2>3 DEF FinalRound, Joined, Clip, NextRound, ForcedAnswer, Fail, vars, turn
    <3> QED BY <3>1 DEF OneRoundPerCall
  <2> QED BY <2>1, <2>2, <2>3 DEF Next
<1>3. Spec => []TypeInv
  BY InitTypes, StepTypes, PTL DEF Spec
<1> QED BY <1>1, <1>2, <1>3, PTL DEF Spec

-----------------------------------------------------------------------------
(* Rounds and stalls. *)

Made == {c \in Calls : seen[c] # 0}

(* After k calls were made, rounds that made a new one and rounds that did not
   alternate at worst. *)
IdleInv ==
  LET k == Cardinality(Made)
  IN  /\ IsFiniteSet(Made)
      /\ phase = "stream" =>
           (round = 1 /\ stalled = 0) \/ (round <= 2 * k + stalled /\ stalled <= 1)
      /\ phase \in {"tools", "clip"} => round + 1 <= 2 * k + stalled /\ stalled <= 2
      /\ NoIdleRounds

LEMMA IdleFrame ==
  ASSUME IdleInv, UNCHANGED <<seen, stalled, round>>,
         \/ phase' = phase
         \/ phase = "tools" /\ phase' = "clip"
         \/ phase' \in {"done", "failed"}
  PROVE  IdleInv'
<1>1. Made' = Made
  BY DEF Made
<1> QED BY <1>1 DEF IdleInv, NoIdleRounds, Made

LEMMA IdleArithmetic ==
  ASSUME NEW r \in Nat, NEW k \in Nat, NEW k2 \in Nat, NEW s \in Nat, NEW s2 \in Nat,
         k2 >= 1, k2 >= k, s2 # 0 => k >= 1, s2 = 0 => k2 >= k + 1,
         s2 = 0 \/ s2 = s + 1,
         (r = 1 /\ s = 0) \/ (r <= 2 * k + s /\ s <= 1)
  PROVE  r + 1 <= 2 * k2 + s2 /\ s2 <= 2 /\ r <= 2 * k2 + 1
<1>1. CASE s2 = 0
  BY <1>1
<1>2. CASE s2 = s + 1
  BY <1>2
<1> QED BY <1>1, <1>2

LEMMA MadeGrows ==
  ASSUME TypeInv, IsFiniteSet(Made), NEW u \in UsesOfARound, ToolRound(u)
  PROVE  /\ IsFiniteSet(Made')
         /\ Cardinality(Made) \in Nat /\ Cardinality(Made') \in Nat
         /\ Cardinality(Made') >= 1
         /\ Cardinality(Made') >= Cardinality(Made)
         /\ stalled' # 0 => Cardinality(Made) >= 1
         /\ stalled' = 0 => Cardinality(Made') >= Cardinality(Made) + 1
<1> DEFINE R == {u[i] : i \in 1..Len(u)}
<1>1. /\ Len(u) \in Nat \ {0} /\ DOMAIN u = 1..Len(u)
      /\ \A i \in 1..Len(u) : u[i] \in Calls
  BY RoundOfCalls
<1>2. IsFiniteSet(R)
  <2>1. [i \in 1..Len(u) |-> u[i]] \in Surjection(1..Len(u), R)
    BY DEF Surjection
  <2>2. IsFiniteSet(1..Len(u))
    BY <1>1, FS_Interval
  <2> QED BY <2>1, <2>2, FS_Surjection
<1>3. round # 0
  BY DEF TypeInv, TypeOK
<1>4. Made' = Made \cup R
  BY <1>1, <1>3 DEF Made, ToolRound, Seen
<1>5. IsFiniteSet(Made') /\ Made \in SUBSET Made'
  BY <1>2, <1>4, FS_Union
<1>6. /\ Cardinality(Made) \in Nat /\ Cardinality(Made') \in Nat
      /\ Cardinality(Made) <= Cardinality(Made')
      /\ Cardinality(Made) = Cardinality(Made') => Made = Made'
  BY <1>5, FS_Subset, FS_CardinalityType
<1>7. u[1] \in Made'
  BY <1>1, <1>4
<1>8. Cardinality(Made') # 0
  BY <1>5, <1>7, FS_EmptySet
<1>9. ASSUME stalled' # 0 PROVE Cardinality(Made) # 0
  <2>1. \A i \in DOMAIN u : seen[u[i]] # 0
    BY <1>9 DEF ToolRound, Stalled
  <2>2. u[1] \in Made
    BY <1>1, <2>1 DEF Made
  <2> QED BY <2>2, FS_EmptySet
<1>10. ASSUME stalled' = 0 PROVE Made # Made'
  <2>1. stalled + 1 # 0
    BY DEF TypeInv, TypeOK
  <2>2. PICK i \in DOMAIN u : seen[u[i]] = 0
    BY <1>10, <2>1 DEF ToolRound, Stalled
  <2>3. u[i] \in Made' /\ u[i] \notin Made
    BY <1>1, <1>4, <2>2 DEF Made
  <2> QED BY <2>3
<1> QED BY <1>5, <1>6, <1>8, <1>9, <1>10

(* A model that repeats itself is made to answer: it has two rounds at most for
   each call it made. *)
THEOREM LoopsAreCut == Spec => []NoIdleRounds
<1>1. Init => IdleInv
  <2> SUFFICES ASSUME Init PROVE IdleInv
    OBVIOUS
  <2>1. Made = {}
    BY DEF Init, Made
  <2>2. IsFiniteSet(Made) /\ Cardinality(Made) = 0
    BY <2>1, FS_EmptySet
  <2> QED BY <2>2 DEF Init, IdleInv, NoIdleRounds, Made
<1>2. TypeInv /\ IdleInv /\ [Next]_vars => IdleInv'
  <2> SUFFICES ASSUME TypeInv, IdleInv, [Next]_vars PROVE IdleInv'
    OBVIOUS
  <2> DEFINE k == Cardinality(Made)
  <2>1. k \in Nat /\ round \in Nat /\ stalled \in Nat
    <3>1. round \in Nat /\ stalled \in Nat
      BY DEF TypeInv, TypeOK
    <3> QED BY <3>1, FS_CardinalityType DEF IdleInv
  <2>2. ASSUME NEW u \in UsesOfARound, ToolRound(u) PROVE IdleInv'
    <3>1. /\ IsFiniteSet(Made') /\ k' \in Nat /\ k' >= 1 /\ k' >= k
          /\ stalled' # 0 => k >= 1
          /\ stalled' = 0 => k' >= k + 1
      BY <2>2, MadeGrows DEF IdleInv
    <3>2. stalled' = 0 \/ stalled' = stalled + 1
      BY <2>2 DEF ToolRound, Stalled
    <3>3. (round = 1 /\ stalled = 0) \/ (round <= 2 * k + stalled /\ stalled <= 1)
      BY <2>2 DEF ToolRound, IdleInv
    <3>4. phase' = "tools" /\ round' = round
      BY <2>2 DEF ToolRound
    <3>5. round + 1 <= 2 * k' + stalled' /\ stalled' <= 2 /\ round <= 2 * k' + 1
      BY <2>1, <3>1, <3>2, <3>3, IdleArithmetic, SMTT(30)
    <3> QED BY <3>1, <3>4, <3>5 DEF IdleInv, NoIdleRounds, Made
  <2>3. CASE NextRound
    <3>1. UNCHANGED <<seen, stalled>> /\ Made' = Made
      BY <2>3 DEF NextRound, turn, Made
    <3>2. round + 1 <= 2 * k + stalled /\ stalled <= 2 /\ round <= 2 * k + 1
      BY <2>3 DEF NextRound, IdleInv, NoIdleRounds, Made
    <3>3. \/ phase' = "force" /\ round' = round
          \/ phase' = "stream" /\ round' = round + 1 /\ stalled < 2
      BY <2>1, <2>3 DEF NextRound
    <3> HIDE DEF k
    <3>4. /\ round' <= 2 * k + 1
          /\ phase' = "stream" => round' <= 2 * k + stalled /\ stalled <= 1
      BY <2>1, <3>2, <3>3
    <3> USE DEF k
    <3> QED BY <3>1, <3>3, <3>4 DEF IdleInv, NoIdleRounds, Made
  <2>4. ASSUME NEW i \in DOMAIN uses, NEW z \in Sizes, ToolReturns(i, z) PROVE IdleInv'
    BY <2>4, IdleFrame DEF ToolReturns, turn
  <2>5. CASE FinalRound \/ Joined \/ Clip \/ ForcedAnswer \/ Fail \/ UNCHANGED vars
    BY <2>5, IdleFrame DEF FinalRound, Joined, Clip, ForcedAnswer, Fail, vars, turn
  <2> QED BY <2>2, <2>3, <2>4, <2>5 DEF Next
<1>3. Spec => []TypeInv
  BY InitTypes, StepTypes, PTL DEF Spec
<1>4. IdleInv => NoIdleRounds
  BY DEF IdleInv
<1> QED BY <1>1, <1>2, <1>3, <1>4, PTL DEF Spec
=============================================================================
