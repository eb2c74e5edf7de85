----------------------------- MODULE AtMostOnce -----------------------------
(***************************************************************************)
(* What a caller of the code daemon may rely on (the CodeDaemonClient       *)
(* trait): a call is executed at most once, its answer comes from its own   *)
(* execution, and it gets one outcome.  A call that failed may still have   *)
(* been executed, or be executed later.                                     *)
(***************************************************************************)
EXTENDS Naturals

CONSTANT Calls

VARIABLES
  outcome,    \* of each call: none yet, ok or failed
  executed    \* how often the code daemon has executed each

Init ==
  /\ outcome = [c \in Calls |-> "none"]
  /\ executed = [c \in Calls |-> 0]

Execute(c) ==
  /\ executed[c] = 0
  /\ executed' = [executed EXCEPT ![c] = 1]
  /\ UNCHANGED outcome

Answer(c) ==
  /\ outcome[c] = "none" /\ executed[c] = 1
  /\ outcome' = [outcome EXCEPT ![c] = "ok"]
  /\ UNCHANGED executed

(* One event may fail several calls (the connection is lost) and leave some
   of them executed (the daemon died after their work, before its answer). *)
Fail ==
  /\ \E F \in SUBSET {c \in Calls : outcome[c] = "none"} :
       outcome' = [c \in Calls |-> IF c \in F THEN "failed" ELSE outcome[c]]
  /\ \E E \in SUBSET {c \in Calls : executed[c] = 0} :
       executed' = [c \in Calls |-> IF c \in E THEN 1 ELSE executed[c]]

Next == Fail \/ \E c \in Calls : Execute(c) \/ Answer(c)

Spec == Init /\ [][Next]_<<outcome, executed>>
=============================================================================
