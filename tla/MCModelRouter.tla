--------------------------- MODULE MCModelRouter ---------------------------
(***************************************************************************)
(* A small instance of ModelRouter: the tiers' timeouts and the budgets in *)
(* the order of the code's values (2.5 s < 6 s < 8 s < 15 s).              *)
(***************************************************************************)
EXTENDS ModelRouter

Timeouts == [cheap |-> 1, mid |-> 2, top |-> 6]

Deadlines == [challenger |-> 3, examiner |-> 3, scorer |-> None, voice |-> None]
=============================================================================
