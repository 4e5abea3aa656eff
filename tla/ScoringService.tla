--------------------------- MODULE ScoringService ---------------------------
(***************************************************************************)
(* What the background scoring of a server process promises its callers    *)
(* (adapters/scorer/background_worker.py): an accepted job is scored once, *)
(* one job at a time, and its fate is a completion in the event log, or    *)
(* the loss of the thread that was scoring it.                             *)
(***************************************************************************)
CONSTANT Jobs

VARIABLE status

Init == status = [j \in Jobs |-> "new"]

Move(j, from, to) == status[j] = from /\ status' = [status EXCEPT ![j] = to]

Accept(j) == Move(j, "new", "accepted")

Begin(j) == /\ \A k \in Jobs : status[k] # "scoring"
            /\ Move(j, "accepted", "scoring")

Record(j) == Move(j, "scoring", "recorded")

Lose(j) == Move(j, "scoring", "lost")

Next == \E j \in Jobs : Accept(j) \/ Begin(j) \/ Record(j) \/ Lose(j)

Spec == Init /\ [][Next]_status
=============================================================================
