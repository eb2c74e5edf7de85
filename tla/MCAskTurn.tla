----------------------------- MODULE MCAskTurn -----------------------------
(* Every ask of the instance addresses the one session.  The visitors compete
   for its slot, before, beside and after the other asks, and get no further:
   their upgrade fails (bound). *)
EXTENDS AskTurn

CONSTANT Visitors

MCSessionOf == [a \in Asks |-> CHOOSE s \in Sessions : TRUE]

MCNext == Next /\ \A a \in Visitors : pc'[a] \notin Upgraded

MCSpec == Init /\ [][MCNext]_vars /\ Fairness
=============================================================================
