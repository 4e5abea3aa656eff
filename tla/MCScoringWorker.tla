-------------------------- MODULE MCScoringWorker ---------------------------
(***************************************************************************)
(* A small instance of ScoringWorker: requests that hand over the same     *)
(* jobs, and a lifespan entered twice.                                     *)
(***************************************************************************)
EXTENDS ScoringWorker

CONSTANTS j1, j2, j3, c1, c2, t1, t2
=============================================================================
