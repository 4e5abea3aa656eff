---------------------------- MODULE Orchestrator ----------------------------
(***************************************************************************)
(* The two pure decision functions every request evaluates on the replayed *)
(* log: next_action (core/orchestrator.py) and ProblemSequencer.next_event *)
(* (core/problem_sequencer.py).                                            *)
(***************************************************************************)
EXTENDS SessionLog

CONSTANTS Plan,                \* the planned problems, in order
          ScoredDims,          \* SessionRunner.scored_dimensions
          TargetAnswers,       \* SessionStarted.target_answers
          MaxProbesPerPrompt   \* SessionStarted.max_probes_per_prompt

Problems == {Plan[i] : i \in DOMAIN Plan}

\* --- ProblemSequencer ----------------------------------------------------

Fresh(L) == {i \in DOMAIN Plan : ~ Introduced(L, Plan[i])}

\* Mutant of NextToIntroduce: the active problem is not waited for.
NextUnintroduced(L) ==
  LET first == CHOOSE i \in Fresh(L) : \A j \in Fresh(L) : i <= j
  IN IF Fresh(L) = {} THEN None ELSE Plan[first]

\* The problem next_event introduces, or None when an active problem is in
\* flight or every problem has been introduced.
NextToIntroduce(L) ==
  LET first == CHOOSE i \in Fresh(L) : \A j \in Fresh(L) : i <= j
  IN IF CurrentProblem(L) # None \/ Fresh(L) = {} THEN None ELSE Plan[first]

\* --- next_action ---------------------------------------------------------

Questions(L) ==
  {i \in TurnsOf(L, "challenger") : L[i].kind = "question"}

Answers(L) == {i \in TurnsOf(L, "candidate") : L[i].kind = "answer"}

\* Probes since the last challenger question.
ProbesOnPrompt(L) ==
  {i \in TurnsOf(L, "examiner") :
     L[i].kind = "probe" /\ i > LastOf(Questions(L))}

\* Every artifact of the candidate's turns, the runs of their code included.
ScorableArtifacts(L) ==
  {L[i].id : i \in {a \in Positions(L, {"ArtifactAttached"}) :
     /\ L[a].kind # "prompt"
     /\ \E t \in TurnsOf(L, "candidate") : L[t].id = L[a].turn}}

Unscored(L) ==
  {x \in ScorableArtifacts(L) \X ScoredDims : ~ IsScored(L, x[1], x[2])}

\* Mutant of CodeToRun: an earlier run is not looked for.
CodeAlwaysToRun(L) ==
  /\ L[LastTurn(L)].actor = "candidate"
  /\ HasArtifact(L, L[LastTurn(L)].id, "code_cell")

\* The last turn is the candidate's and its code cell has not been run.
CodeToRun(L) ==
  LET last == L[LastTurn(L)]
  IN /\ last.actor = "candidate"
     /\ last.kind \in {"answer", "defense"}
     /\ HasArtifact(L, last.id, "code_cell")
     /\ ~ HasRun(L, last.id)

NextAction(L) ==
  CASE Ended(L)                -> "NoAction"
    [] ~ Ended(L) /\ Scored(L) -> "EndSession"
    [] ~ Ended(L) /\ ~ Scored(L) /\ Questions(L) = {} -> "RequestChallenge"
    [] OTHER ->
       IF CodeToRun(L) THEN "RequestExecution"
       ELSE IF L[LastTurn(L)].actor \in {"challenger", "examiner"}
       THEN "RequestCandidateInput"
       ELSE IF Cardinality(ProbesOnPrompt(L)) < MaxProbesPerPrompt
       THEN "RequestProbe"
       ELSE IF Cardinality(Answers(L)) < TargetAnswers
       THEN "RequestChallenge"
       ELSE IF Unscored(L) # {} THEN "RequestScoring"
       ELSE IF \A d \in ScoredDims : HasAny(L, d) THEN "RequestAggregate"
       ELSE "NoAction"
=============================================================================
