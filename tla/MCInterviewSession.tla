------------------------ MODULE MCInterviewSession ------------------------
(***************************************************************************)
(* Small instances of InterviewSession: two planned problems, one scored   *)
(* dimension each, forms of which one carries code.                        *)
(***************************************************************************)
EXTENDS InterviewSession, TLC

CONSTANTS p1, p2, d1, d2, n1, n2, h1, h2

\* Requests are interchangeable.
Requests == Permutations({h1, h2})

\* So are forms that carry the same.
SameForms == Permutations({n1, n2})

TwoProblems == <<p1, p2>>
OneProblem  == <<p1>>

\* n1 carries an answer, n2 an answer and code.
Forms == n1 :> {"markdown"} @@ n2 :> {"markdown", "code_cell"}
TextForms == [n \in {n1, n2} |-> {"markdown"}]

SameDim  == [p \in {p1, p2} |-> <<d1>>]
OwnDim   == p1 :> <<d1>> @@ p2 :> <<d2>>

\* A session whose first problem awaits the review of the candidate's answer:
\* what a page view and a submission of n1 leave in the log.
Answered ==
  <<Event("SessionStarted", "start"), Event("ProblemPlanSelected", "plan"),
    Event("ProblemIntroduced", p1), Turn(Opener(p1), "challenger", "question"),
    Turn(n1, "candidate", "answer"), Artifact("markdown", n1)>>

AnsweredSpec ==
  /\ log = Answered
  /\ task = [h \in Handlers |-> Idle] /\ worker = NewWorker
  /\ queue = <<>> /\ queued = {} /\ stale = {} /\ crashes = 0
  /\ [][Next]_vars

\* A session whose problems have both been answered and closed; the thread has scored
\* the first, and not yet recorded that.
BothClosed ==
  LET asked(p, n) == <<Event("ProblemClosed", p), ScoringRequest(p, {<<"markdown", n>>})>>
  IN /\ log = Answered \o asked(p1, n1)
                \o <<Event("ProblemIntroduced", p2), Turn(Opener(p2), "challenger", "question"),
                     Turn(n2, "candidate", "answer"), Artifact("markdown", n2)>>
                \o asked(p2, n2)
                \o <<Signal(p1, d1, "llm", {<<"markdown", n1>>})>>
     /\ queue = <<Job(p2, {<<"markdown", n2>>})>> /\ queued = {p1, p2}
     /\ task = [h \in Handlers |-> Idle]
     /\ worker = [NewWorker EXCEPT !.todo = <<Event("ScoringCompleted", p1)>>]
     /\ stale = {} /\ crashes = 0

\* From the start, or from there.
LiveSpec == (Init \/ BothClosed) /\ [][Next]_vars /\ Fairness
===========================================================================
