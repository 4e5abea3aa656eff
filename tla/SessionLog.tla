----------------------------- MODULE SessionLog -----------------------------
(***************************************************************************)
(* The event log of one session as the interview code reads it: a sequence *)
(* of events (core/events.py), the idempotent append, and the projections  *)
(* every request rebuilds from it (core/projections.py and the log readers *)
(* of adapters/http/session_runner.py).                                    *)
(*                                                                         *)
(* An event is a record with its `type`, an `id` and the fields the        *)
(* interview logic reads.  The code draws fresh uuids for turns and        *)
(* artifacts; an event's id here is what it is for: the problem, the form, *)
(* the turn it answers.  The key its handler gives it is Key.              *)
(***************************************************************************)
EXTENDS Naturals, Sequences, FiniteSets

CONSTANT None

\* --- events --------------------------------------------------------------

Turn(id, actor, kind) ==
  [type |-> "TurnPosted", id |-> id, actor |-> actor, kind |-> kind]

Artifact(kind, turn) ==
  [type |-> "ArtifactAttached", id |-> <<kind, turn>>, kind |-> kind,
   turn |-> turn]

Event(type, id) == [type |-> type, id |-> id]

ScoringRequest(p, artifacts) ==
  [type |-> "ScoringRequested", id |-> p, artifacts |-> artifacts]

\* The id of a signal of the model's holds what it cites, that of a heuristic one
\* does not.
Signal(p, dim, src, refs) ==
  [type |-> "SignalEmitted", id |-> <<p, dim, IF src = "llm" THEN refs ELSE {}>>,
   dim |-> dim, refs |-> refs]

\* why stands for the hash of the reason the code puts in the key.
ScorerFailure(p, dim, why) ==
  [type |-> "ScorerFailed", id |-> <<p, dim, why>>, dim |-> dim]

\* Ids of the turns the system posts: the opener of problem p, and the probe
\* that follows candidate turn n.
Opener(p)     == <<"opener", p>>
ProbeAfter(n) == <<"probe", n>>

\* --- append --------------------------------------------------------------

\* Mutant of TurnKey: the candidate's turn by form and kind.
TurnKeyByKind(e) ==
  CASE e.actor = "challenger" -> <<"problem-opener-turn", e.id[2]>>
    [] e.actor = "examiner"   -> <<"probe-after", e.id[2]>>
    [] OTHER                  -> <<"nonce", e.id, e.kind>>

\* The candidate's turn is posted under the nonce of its form.
TurnKey(e) ==
  CASE e.actor = "challenger" -> <<"problem-opener-turn", e.id[2]>>
    [] e.actor = "examiner"   -> <<"probe-after", e.id[2]>>
    [] OTHER                  -> <<"nonce", e.id>>

\* The output of a run has no key.
ArtifactKey(e) ==
  CASE e.kind = "markdown"  -> <<"nonce-answer", e.turn>>
    [] e.kind = "code_cell" -> <<"nonce-code", e.turn>>
    [] OTHER                -> <<>>

\* The idempotency key each handler appends its event under: the runner's
\* (_do_introduce_problem, _do_close_problem, _planned_problems, _do_aggregate), the
\* scoring thread's (_idem_key_for_event, _process) and post_turn's.  <<>> where there
\* is none: that of a run and of SessionStarted.
Key(e) ==
  CASE e.type = "TurnPosted"          -> TurnKey(e)
    [] e.type = "ArtifactAttached"    -> ArtifactKey(e)
    [] e.type = "ProblemPlanSelected" -> <<"problem-plan-selected">>
    [] e.type = "ProblemIntroduced"   -> <<"problem-introduced", e.id>>
    [] e.type = "ProblemClosed"       -> <<"problem-closed", e.id>>
    [] e.type = "ScoringRequested"    -> <<"scoring-requested", e.id>>
    [] e.type = "SignalEmitted"       -> <<"scoring-signal", e.id>>
    [] e.type = "ScorerFailed"        -> <<"scoring-failed", e.id>>
    [] e.type = "ScoringCompleted"    -> <<"scoring-completed", e.id>>
    [] e.type = "ScoreComputed"       -> <<"score-computed">>
    [] e.type = "SessionEnded"        -> <<"session-ended", e.id>>
    [] OTHER                          -> <<>>

Keyless(e) == Key(e) = <<>>

SameKey(e, f) == Key(e) = Key(f)

Logged(L, type, id) == \E i \in DOMAIN L : L[i].type = type /\ L[i].id = id

IdemAppend(L, e) ==
  IF ~ Keyless(e) /\ \E i \in DOMAIN L : SameKey(L[i], e)
  THEN L ELSE Append(L, e)

\* --- SessionStore --------------------------------------------------------

Positions(L, types) == {i \in DOMAIN L : L[i].type \in types}

\* The last of a set of positions, 0 when there is none.
LastOf(S) == IF S = {} THEN 0 ELSE CHOOSE i \in S : \A j \in S : j <= i

\* The numbers of I in increasing order: one sequence.
InOrder(I) ==
  {s \in [1 .. Cardinality(I) -> I] : \A i, j \in DOMAIN s : i < j => s[i] < s[j]}

Ended(L)  == Positions(L, {"SessionEnded"}) # {}
Planned(L) == Positions(L, {"ProblemPlanSelected"}) # {}
Introduced(L, p) == Logged(L, "ProblemIntroduced", p)

\* problem_status[p] is active: introduced and not closed since.
Active(L, p) ==
  \E i \in DOMAIN L :
    /\ L[i].type = "ProblemIntroduced" /\ L[i].id = p
    /\ ~ \E j \in i .. Len(L) : L[j].type = "ProblemClosed" /\ L[j].id = p

Closed(L, p) == Introduced(L, p) /\ ~ Active(L, p)

\* current_problem_id: the last problem introduced, unless closed since.
CurrentProblem(L) ==
  LET i == LastOf(Positions(L, {"ProblemIntroduced"}))
  IN IF i # 0 /\ Active(L, L[i].id) THEN L[i].id ELSE None

TurnsOf(L, actor) ==
  {i \in Positions(L, {"TurnPosted"}) : L[i].actor = actor}

LastTurn(L) == LastOf(Positions(L, {"TurnPosted"}))

\* The interviewer's last turn is a probe, so the candidate's next is a defense.
ProbeAwaitsAnswer(L) ==
  LET i == LastOf(TurnsOf(L, "challenger") \cup TurnsOf(L, "examiner"))
  IN i # 0 /\ L[i].kind = "probe"

\* The id of the candidate's last turn, or None.
LastCandidateTurn(L) ==
  LET i == LastOf(TurnsOf(L, "candidate")) IN IF i = 0 THEN None ELSE L[i].id

HasArtifact(L, n, kind) == Logged(L, "ArtifactAttached", <<kind, n>>)

\* --- RuntimeStore, SignalStore, ScoreStore -------------------------------

HasRun(L, n) ==
  Logged(L, "RuntimeExecuted", n) \/ Logged(L, "RuntimeFailed", n)

HasAny(L, dim) ==
  \E i \in Positions(L, {"SignalEmitted", "ScorerFailed"}) : L[i].dim = dim

IsScored(L, artifact, dim) ==
  \E i \in Positions(L, {"SignalEmitted"}) :
    L[i].dim = dim /\ artifact \in L[i].refs

Scored(L) == Positions(L, {"ScoreComputed"}) # {}

Requested(L) == {L[i].id : i \in Positions(L, {"ScoringRequested"})}
Completed(L) == {L[i].id : i \in Positions(L, {"ScoringCompleted"})}

\* A problem is pending from its request to the next completion after it.
Pending(L) ==
  {L[i].id : i \in {j \in Positions(L, {"ScoringRequested"}) :
     ~ \E k \in j .. Len(L) : L[k].type = "ScoringCompleted" /\ L[k].id = L[j].id}}

\* --- readers of session_runner.py ----------------------------------------

\* Position i lies in the bracket of problem p opened at position j.
InBracket(L, p, j, i) ==
  /\ j < i
  /\ L[j].type = "ProblemIntroduced" /\ L[j].id = p
  /\ ~ \E k \in (j + 1) .. (i - 1) :
         \/ L[k].type = "ProblemIntroduced"
         \/ L[k].type = "ProblemClosed" /\ L[k].id = p

\* Mutant of CandidateArtifacts: code cells are forgotten.
CandidateAnswers(L, p) ==
  {L[i].id : i \in {a \in Positions(L, {"ArtifactAttached"}) :
     /\ L[a].kind = "markdown"
     /\ \E t \in TurnsOf(L, "candidate"), j \in DOMAIN L :
          /\ L[t].id = L[a].turn
          /\ j < t /\ t < a
          /\ InBracket(L, p, j, a)}}

\* The artifacts attached, inside the bracket of p, to a candidate turn posted
\* in that bracket.
CandidateArtifacts(L, p) ==
  {L[i].id : i \in {a \in Positions(L, {"ArtifactAttached"}) :
     /\ L[a].kind # "prompt"
     /\ \E t \in TurnsOf(L, "candidate"), j \in DOMAIN L :
          /\ L[t].id = L[a].turn
          /\ j < t /\ t < a
          /\ InBracket(L, p, j, a)}}

\* The probes posted since p was introduced and before it was closed.
ProbeCount(L, p) ==
  Cardinality({i \in TurnsOf(L, "examiner") :
    /\ L[i].kind = "probe"
    /\ Active(SubSeq(L, 1, i), p)})

\* A problem is active and its last turn is the candidate's.
NeedsExaminer(L) ==
  /\ CurrentProblem(L) # None
  /\ LastTurn(L) # 0
  /\ L[LastTurn(L)].actor = "candidate"
  /\ L[LastTurn(L)].kind \in {"answer", "defense"}

\* Mutant of AsyncScoringReady: one completion is enough.
AnyScoringReady(L) == Completed(L) # {}

\* All requested scoring has completed, and there was some.
AsyncScoringReady(L) ==
  /\ Requested(L) # {}
  /\ Pending(L) = {}
  /\ Requested(L) \subseteq Completed(L)
=============================================================================
