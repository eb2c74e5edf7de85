--------------------------- MODULE MCPresentation ---------------------------
(* A first answer with two presentation calls, a second with one. *)
EXTENDS Presentation

MCCallsOf == <<2, 1>>
=============================================================================
