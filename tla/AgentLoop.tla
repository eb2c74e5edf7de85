------------------------------ MODULE AgentLoop ------------------------------
(***************************************************************************)
(* The rounds of one turn (run_turn_inner, force_answer and clip_tool_result *)
(* of agent/loop_.rs): what the model may still call, what it is given of     *)
(* the results, and when it is made to answer.  AskTurn models the same turn  *)
(* from outside: its frames, rows and cancellation.                          *)
(*                                                                         *)
(* A call is a (tool, arguments) pair, a result is its size in characters.   *)
(***************************************************************************)
EXTENDS TurnLimits, Naturals, Sequences, FiniteSets

CONSTANTS
  Calls,        \* what the model can call
  MaxUses,      \* bound: calls the model makes in one round
  Sizes,        \* sizes of serialised results
  RefusalSize,  \* size of a duplicate_call result
  ResultChars,  \* limits.max_tool_result_chars
  TurnChars,    \* limits.max_turn_tool_chars
  Floor,        \* TOOL_RESULT_FLOOR_CHARS
  Pending       \* no result yet

ASSUME LimitsAssumption ==
  {MaxUses, RefusalSize, MaxToolTurns, ResultChars, TurnChars, Floor} \subseteq Nat
ASSUME SizesAssumption == Sizes \subseteq Nat /\ Pending \notin Nat

VARIABLES
  phase,     \* stream, tools, clip, force; then done or failed
  round,
  uses,      \* tool_uses of the round
  repeats,   \* for each of them, the round of the first identical call, 0 if none
  outcomes,  \* for each of them, the size of its result, Pending until it is in
  given,     \* for each result already handed on, what the model receives of it
  seen,      \* seen_calls: the round of each call made, 0 if none
  stalled,   \* stalled_rounds
  spent,     \* tool_chars_spent
  count,     \* st.tool_call_count
  ran        \* in how many rounds each call was dispatched (no state of the code)

turn == <<seen, stalled, spent, count, ran>>
results == <<uses, repeats, outcomes, given>>
vars == <<phase, round, results, turn>>

Init ==
  /\ phase = IF MaxToolTurns = 0 THEN "force" ELSE "stream"
  /\ round = 1
  /\ uses = <<>> /\ repeats = <<>> /\ outcomes = <<>> /\ given = <<>>
  /\ seen = [c \in Calls |-> 0]
  /\ stalled = 0 /\ spent = 0 /\ count = 0
  /\ ran = [c \in Calls |-> 0]

-----------------------------------------------------------------------------
(* clip_tool_result *)

Least(m, n) == IF m <= n THEN m ELSE n
Most(m, n) == IF m <= n THEN n ELSE m

(* saturating_sub *)
Minus(m, n) == IF m <= n THEN 0 ELSE m - n

(* Mutant of Allowance: what was spent is forgotten. *)
AllowanceIgnoresSpent(s) == Least(ResultChars, Most(TurnChars, Floor))

Allowance(s) == Least(ResultChars, Most(Minus(TurnChars, s), Floor))

Clipped(size, s) == Least(size, Allowance(s))

-----------------------------------------------------------------------------
(* A round. *)

(* Mutant of Stalled: a refused call does not count as a stall of the round. *)
StalledNever(first) == 0

(* stalled_rounds, after a round whose calls were first made at `first`. *)
Stalled(first) == IF \A i \in DOMAIN first : first[i] # 0 THEN stalled + 1 ELSE 0

(* seen_calls, after the calls u. *)
Seen(u) ==
  [c \in Calls |-> IF seen[c] = 0 /\ \E i \in DOMAIN u : u[i] = c THEN round ELSE seen[c]]

(* The stream ends with tool calls.  Those already made in an earlier round
   are refused at once; two equal calls of one round both run. *)
ToolRound(u) ==
  /\ phase = "stream"
  /\ LET first == [i \in DOMAIN u |-> seen[u[i]]]
     IN  /\ uses' = u
         /\ repeats' = first
         /\ outcomes' = [i \in DOMAIN u |-> IF first[i] # 0 THEN RefusalSize ELSE Pending]
         /\ stalled' = Stalled(first)
         /\ ran' = [c \in Calls |-> ran[c] +
                     IF \E i \in DOMAIN u : u[i] = c /\ first[i] = 0 THEN 1 ELSE 0]
  /\ seen' = Seen(u)
  /\ given' = <<>>
  /\ phase' = "tools"
  /\ UNCHANGED <<round, spent, count>>

(* The stream ends without one: the answer. *)
FinalRound ==
  /\ phase = "stream"
  /\ phase' = "done"
  /\ UNCHANGED <<round, results, turn>>

(* The futures of the round run side by side and end in any order ... *)
ToolReturns(i, size) ==
  /\ phase = "tools" /\ i \in DOMAIN uses /\ outcomes[i] = Pending
  /\ outcomes' = [outcomes EXCEPT ![i] = size]
  /\ UNCHANGED <<phase, round, uses, repeats, given, turn>>

(* ... join_all returns when the last one has, with their outcomes in the
   order of the calls ... *)
Joined ==
  /\ phase = "tools" /\ \A i \in DOMAIN uses : outcomes[i] # Pending
  /\ phase' = "clip"
  /\ UNCHANGED <<round, results, turn>>

(* ... and they are clipped and handed on one by one.  (The frame that is sent
   before the call is counted may fail: nobody reads the budget then.) *)
Clip ==
  LET i == Len(given) + 1
      chars == Clipped(outcomes[i], spent)
  IN  /\ phase = "clip" /\ i <= Len(uses)
      /\ given' = Append(given, chars)
      /\ spent' = spent + chars
      /\ count' = count + 1
      /\ UNCHANGED <<phase, round, uses, repeats, outcomes, seen, stalled, ran>>

(* After the last one: another round, unless the model goes in circles or the
   rounds are spent. *)
NextRound ==
  /\ phase = "clip" /\ Len(given) = Len(uses)
  /\ IF stalled >= 2 \/ round = MaxToolTurns
     THEN phase' = "force" /\ UNCHANGED round
     ELSE phase' = "stream" /\ round' = round + 1
  /\ UNCHANGED <<results, turn>>

(* force_answer: tools withheld, tool calls ignored. *)
ForcedAnswer ==
  /\ phase = "force"
  /\ phase' = "done"
  /\ UNCHANGED <<round, results, turn>>

(* The provider or a frame to the client fails.  (A tool does not: its failure
   is a result.)  A turn that is cut off just stops. *)
Fail ==
  /\ phase \in {"stream", "clip", "force"}
  /\ phase' = "failed"
  /\ UNCHANGED <<round, results, turn>>

UsesOfARound == UNION {[1..n -> Calls] : n \in 1..MaxUses}

Next ==
  \/ \E u \in UsesOfARound : ToolRound(u)
  \/ \E i \in DOMAIN uses, z \in Sizes : ToolReturns(i, z)
  \/ FinalRound \/ Joined \/ Clip \/ NextRound \/ ForcedAnswer \/ Fail

Spec == Init /\ [][Next]_vars

-----------------------------------------------------------------------------
(* Properties. *)

TypeOK ==
  /\ phase \in {"stream", "tools", "clip", "force", "done", "failed"}
  /\ round \in 1..Most(MaxToolTurns, 1)
  /\ uses \in {<<>>} \cup UsesOfARound
  /\ repeats \in [DOMAIN uses -> Nat]
  /\ outcomes \in [DOMAIN uses -> Nat \cup {Pending}]
  /\ given \in Seq(Nat) /\ Len(given) <= Len(uses)
  /\ seen \in [Calls -> 0..MaxToolTurns]
  /\ {stalled, spent, count} \subseteq Nat
  /\ ran \in [Calls -> Nat]

(* The budget of the turn bounds what the model is given, whatever the sizes
   and however many results: it is exceeded by the floor of each result at
   most. *)
BudgetHolds == spent <= TurnChars + count * Floor

(* And yet no result is withheld: the model gets the whole of it, or as much
   as the caps let through with the budget spent. *)
NeverEmptyHanded ==
  \A i \in DOMAIN given : given[i] >= Least(outcomes[i], Least(ResultChars, Floor))

(* A call runs in one round of the turn at most, and a call that is refused
   has run: the model is referred to a result that exists. *)
OneRoundPerCall == \A c \in Calls : ran[c] = IF seen[c] = 0 THEN 0 ELSE 1

(* A model that goes in circles is stopped: a turn never has more than twice as
   many rounds as it made different calls, and one. *)
NoIdleRounds == round <= 2 * Cardinality({c \in Calls : seen[c] # 0}) + 1
=============================================================================
