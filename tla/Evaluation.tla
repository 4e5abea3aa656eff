----------------------------- MODULE Evaluation -----------------------------
(***************************************************************************)
(* What becomes of the evidence of a session: the plan is drawn and stored *)
(* (ProblemSelection), closed problems are scored in the background, a     *)
(* page view aggregates the signals once scoring is complete, and a        *)
(* recruiter overrides single dimensions at any time.                      *)
(*                                                                         *)
(* Sources: adapters/scorer/aggregator.py, the aggregation in              *)
(* adapters/http/session_runner.py and recruiter_override in               *)
(* adapters/http/app.py.  As in InterviewSession one request is in         *)
(* progress at a time, beside the scoring thread; an append the thread has *)
(* overtaken may be refused.  A problem is its ordinal in the plan.        *)
(*                                                                         *)
(* Scores are integers in units of 1/10000, to which the code rounds; a    *)
(* tie, where the outcome depends on the binary fraction, rounds up.  The  *)
(* values of signals are not rounded: their unit is finer, by Grain.       *)
(***************************************************************************)
EXTENDS ProblemSelection, SequencesExt

CONSTANTS Grain,        \* the units of a signal's value in one of a score
          Weights,      \* Weights[d]: the rubric's weight of dimension d
          TargetDims,   \* TargetDims[p]: the dimensions problem p is scored on
          MinSignals,   \* min_signals_per_dimension
          Weighted,     \* confidence_weighting
          Judgements,   \* <<value, confidence>> the model may give for a dimension
          Hits,         \* keywords of a dimension that an answer may contain
          Overrides,    \* override forms, [dim, value, refs]: refs are the problems cited
          None,
          MaxClosed,    \* bound on problems scored
          MaxCrashes    \* bound on crashes of the process

\* The value of a full mark, and full confidence, which is counted in tenths.
FullScore == 10000 * Grain
Sure == 10

ASSUME GrainAssumption == Grain \in Nat \ {0}
ASSUME MinSignalsAssumption == MinSignals \in Nat \ {0}
ASSUME HitsAssumption == Hits \subseteq Nat
ASSUME OverridesAssumption ==
  \A o \in Overrides : /\ o.dim \in DOMAIN Weights /\ o.refs \subseteq 1 .. Count
                       /\ o.value \in 0 .. FullScore
ASSUME NoneAssumption == None \notin Nat /\ None \notin Overrides

\* Of the weights of a rubric the loader checks only the sum; one may be zero.
ASSUME WeightsAssumption ==
  IsFiniteSet(DOMAIN Weights) /\ \A d \in DOMAIN Weights : Weights[d] \in Nat

ASSUME TargetDimsAssumption ==
  MaxClosed \in Nat /\ \A p \in 1 .. MaxClosed : TargetDims[p] \subseteq DOMAIN Weights

VARIABLES planned,        \* the plan is stored
          closed,         \* problems 1 .. closed are closed and sent to scoring
          due,            \* the problems whose scoring is not completed, in order
          judged,         \* the dimensions of the first of them that are dealt with
          evidence,       \* the signals stored, in order
          score,          \* the last ScoreComputed
          keyed,          \* one was stored under the key score-computed
          problemScores,  \* PerProblemScoreComputed, by problem
          feedback,       \* the score the feedback file shows
          ended,          \* SessionEnded is stored
          req,            \* the request in progress
          form,           \* form[o]: new, sent, answered, refused, cut
          stale,          \* the thread appended past the request's last step
          crashes

results == <<score, keyed, problemScores, feedback, ended>>
session == <<planned, closed, due, judged, evidence, results, req, form, stale, crashes>>
vars == <<selection, session>>

At(step) == [at |-> step, form |-> None, score |-> None, todo |-> <<>>]
Idle == At("idle")

Init ==
  /\ SelectionInit
  /\ planned = FALSE /\ closed = 0 /\ due = <<>> /\ judged = {} /\ evidence = <<>>
  /\ score = None /\ keyed = FALSE /\ problemScores = <<>>
  /\ feedback = None /\ ended = FALSE
  /\ req = Idle /\ form = [o \in Overrides |-> "new"]
  /\ stale = FALSE /\ crashes = 0

\* --- RubricAggregator ----------------------------------------------------

\* round(n / d, 4), in units
Rounded(n, d) == (2 * n + d) \div (2 * d)

\* The value v of a signal, as a score shows it.
Shown(v) == Rounded(v, Grain)

\* Mutant of DimensionScore: the weighted values are divided by their number.
DimensionScoreByCount(E, is) ==
  LET weight == [i \in is |-> E[i].confidence]
  IN IF SumFunction(weight) = 0 THEN None
     ELSE Rounded(SumFunction([i \in is |-> E[i].value * weight[i]]), Grain * Cardinality(is))

\* _dimension_score of the signals at the positions is; without confidence weighting
\* all weigh the same.
DimensionScore(E, is) ==
  LET weight == [i \in is |-> IF Weighted THEN E[i].confidence ELSE 1]
      total == SumFunction(weight)
  IN IF total = 0 THEN None
     ELSE Rounded(SumFunction([i \in is |-> E[i].value * weight[i]]), Grain * total)

\* Those of the signals is that count: where a reviewer has spoken, reviewers only,
\* if they are preferred.
Counted(E, is, preferred) ==
  LET reviewers == {i \in is : E[i].by = "reviewer"}
  IN IF preferred /\ reviewers # {} THEN reviewers ELSE is

\* The mean of the dimensions by weight, if one of them has any.
Composite(per) ==
  LET weight == [d \in DOMAIN per |-> Weights[d]]
      total == SumFunction(weight)
  IN IF total = 0 THEN 0
     ELSE Rounded(SumFunction([d \in DOMAIN per |-> per[d] * weight[d]]), total)

\* A score has a value for every dimension of the rubric with enough signals, and
\* their mean by weight.
ScoreOf(E, is, preferred) ==
  LET about(d) == {i \in is : E[i].dim = d}
      value(d) == DimensionScore(E, Counted(E, about(d), preferred))
      scored == {d \in DOMAIN Weights : Cardinality(about(d)) >= MinSignals /\ value(d) # None}
      per == [d \in scored |-> value(d)]
  IN [per |-> per, composite |-> Composite(per)]

\* Mutant of Aggregated: reviewers and scorers are averaged.
AggregatedAlike(E) == ScoreOf(E, DOMAIN E, FALSE)

\* aggregate: reviewers are preferred.
Aggregated(E) == ScoreOf(E, DOMAIN E, TRUE)

\* _per_problem_scores: the signals by the problems their references lead to; here
\* reviewers and scorers count alike.
ProblemScores(E) ==
  LET of(p) == ScoreOf(E, {i \in DOMAIN E : p \in E[i].refs}, FALSE)
      scored == {p \in 1 .. closed : DOMAIN of(p).per # {}}
  IN [p \in scored |-> of(p)]

\* --- the interview -------------------------------------------------------

\* The plan is stored, and the locals of the selection are gone.
StorePlan ==
  /\ choosing = "chosen"
  /\ planned' = TRUE
  /\ profiled' = FALSE /\ dims' = <<>> /\ profileScore' = <<>> /\ ranked' = <<>>
  /\ chosen' = <<>> /\ rest' = {} /\ next' = 0 /\ choosing' = "stored"
  /\ UNCHANGED <<closed, due, judged, evidence, results, req, form, stale, crashes>>

\* _async_scoring_ready
Ready == closed > 0 /\ due = <<>>

Planned == planned /\ UNCHANGED <<selection, planned>>

\* The next problem is closed and its scoring requested; a page view that finds
\* scoring complete aggregates instead.
Close ==
  /\ Planned /\ req = Idle /\ ~ ended /\ ~ Ready
  /\ closed < MaxClosed
  /\ closed' = closed + 1
  /\ due' = Append(due, closed + 1)
  /\ UNCHANGED <<judged, evidence, results, req, form, stale, crashes>>

\* _strict_score accepts what is within [0, 1].
Strict(j) == j[1] \in 0 .. FullScore /\ j[2] \in 0 .. Sure

\* _heuristic_signal
Heuristic(hits) == <<Min({FullScore, (3500 + 1000 * hits) * Grain}), 2>>

\* ProblemLlmScorer.score_problem: the model's judgement of the dimension if it passes,
\* and else, or when the call fails, a count of keywords.
Verdicts ==
  [by : {"llm"}, of : {j \in Judgements : Strict(j)}]
    \cup [by : {"heuristic"}, of : {Heuristic(h) : h \in Hits}]

\* What an earlier delivery of the job has stored is not stored again: the key of a
\* heuristic signal is its problem and dimension.  That of the model's holds the
\* artifacts it cites, too; it may cite others, and be stored beside the first.
Known(e) ==
  e.by = "heuristic" /\ \E i \in DOMAIN evidence :
    [by |-> evidence[i].by, dim |-> evidence[i].dim, refs |-> evidence[i].refs] =
      [by |-> e.by, dim |-> e.dim, refs |-> e.refs]

\* The dimensions of the first problem that the scoring thread has still to deal with.
Unjudged == TargetDims[Head(due)] \ judged

\* The scoring thread stores the signal of the next dimension (in an order of the
\* model's, on which no score depends), or only a failure when the scorer raises.
Judge ==
  /\ Planned /\ due # <<>> /\ Unjudged # {}
  /\ LET d == CHOOSE d \in Unjudged : TRUE
         signal(v) == [by |-> v.by, dim |-> d, refs |-> {Head(due)},
                       value |-> v.of[1], confidence |-> v.of[2]]
     IN /\ judged' = judged \cup {d}
        /\ \/ UNCHANGED evidence
           \/ \E v \in Verdicts : /\ ~ Known(signal(v))
                                  /\ evidence' = Append(evidence, signal(v))
  /\ stale' = (req # Idle)
  /\ UNCHANGED <<closed, due, results, req, form, crashes>>

\* All of a problem is stored: ScoringCompleted, and the next job.
Complete ==
  /\ Planned /\ due # <<>> /\ Unjudged = {}
  /\ due' = Tail(due) /\ judged' = {}
  /\ stale' = (req # Idle)
  /\ UNCHANGED <<closed, evidence, results, req, form, crashes>>

\* --- requests: reading and appending -------------------------------------

Outcome(kind) ==
  IF req.form = None THEN UNCHANGED form ELSE form' = [form EXCEPT ![req.form] = kind]

\* The request at `step` stores its event and goes on with task t.
Stores(step, t) ==
  /\ Planned /\ req.at = step
  /\ req' = t /\ stale' = FALSE
  /\ UNCHANGED <<closed, due, judged, crashes>>

\* The log refuses an append that the scoring thread has overtaken, and the
\* request fails.
Refused ==
  /\ Planned /\ stale
  /\ req.at \in {"audit", "signal", "score", "problem"}
  /\ req' = Idle /\ stale' = FALSE
  /\ Outcome("refused")
  /\ UNCHANGED <<closed, due, judged, evidence, results, crashes>>

\* The signals are read and aggregated, and the feedback file is written.
Aggregates(t) ==
  /\ Planned
  /\ feedback' = Aggregated(evidence)
  /\ req' = [t EXCEPT !.score = Aggregated(evidence)]
  /\ stale' = FALSE
  /\ UNCHANGED <<closed, due, judged, evidence, score, keyed, problemScores, ended, form, crashes>>

\* A page or a result view lets the runner advance, which aggregates once scoring
\* is complete: at the first view, and again at every later one.  (The other way to
\* it, RequestAggregate of next_action, is for interviews without a problem bank.)
Viewed == req = Idle /\ Ready

\* --- _do_aggregate, by a page view that finds scoring complete ------------

FinishScoring ==
  /\ Viewed
  /\ Aggregates([At("score") EXCEPT !.todo = ProblemScores(evidence)])

\* The score is stored under its key: once.
StoreFinalScore ==
  /\ req.form = None
  /\ Stores("score", [req EXCEPT !.at = "problem"])
  /\ score' = IF keyed THEN score ELSE req.score
  /\ keyed' = TRUE
  /\ UNCHANGED <<evidence, problemScores, feedback, ended, form>>

\* The scores ps with s for problem p, under whose key the first one stays.
StoreByKey(ps, p, s) ==
  [q \in DOMAIN ps \cup {p} |-> IF q \in DOMAIN ps THEN ps[q] ELSE s]

\* The scores of the problems follow in order, each under its key, and the end.
StoreProblemScore ==
  /\ \E p \in DOMAIN req.todo :
       /\ \A q \in DOMAIN req.todo : p <= q
       /\ Stores("problem", [req EXCEPT !.todo = Restrict(@, DOMAIN @ \ {p})])
       /\ problemScores' = StoreByKey(problemScores, p, req.todo[p])
  /\ UNCHANGED <<evidence, score, keyed, feedback, ended, form>>

End ==
  /\ DOMAIN req.todo = {}
  /\ Stores("problem", Idle)
  /\ ended' = TRUE
  /\ UNCHANGED <<evidence, score, keyed, problemScores, feedback, form>>

\* --- recruiter_override --------------------------------------------------

\* The form is posted, for any session and at any time.
Override(o) ==
  /\ Planned /\ req = Idle /\ form[o] = "new"
  /\ req' = [At("audit") EXCEPT !.form = o]
  /\ form' = [form EXCEPT ![o] = "sent"]
  /\ UNCHANGED <<closed, due, judged, evidence, results, stale, crashes>>

\* HumanOverride, which no decision reads, is stored.
StoreAudit ==
  /\ Stores("audit", [req EXCEPT !.at = "signal"])
  /\ UNCHANGED <<evidence, results, form>>

StoreOverride ==
  /\ Stores("signal", [req EXCEPT !.at = "aggregate"])
  /\ evidence' = Append(evidence, [by |-> "reviewer", dim |-> req.form.dim,
                                   refs |-> req.form.refs, value |-> req.form.value,
                                   confidence |-> Sure])
  /\ UNCHANGED <<results, form>>

AggregateOverride ==
  /\ req.at = "aggregate"
  /\ Aggregates([req EXCEPT !.at = "score"])

\* Mutant of StoreNewScore: under the key of the final score.
StoreNewScoreOnce ==
  /\ req.form # None
  /\ Stores("score", Idle)
  /\ score' = IF keyed THEN score ELSE req.score
  /\ keyed' = TRUE
  /\ Outcome("answered")
  /\ UNCHANGED <<evidence, problemScores, feedback, ended>>

\* The new score is stored without a key, and the recruiter is answered.
StoreNewScore ==
  /\ req.form # None
  /\ Stores("score", Idle)
  /\ score' = req.score
  /\ Outcome("answered")
  /\ UNCHANGED <<evidence, keyed, problemScores, feedback, ended>>

\* The process dies.  The log and the file remain; requested scoring is taken up
\* again (InterviewSession), and a job cut short is scored from its beginning.
Crash ==
  /\ Planned /\ (req # Idle \/ judged # {})
  /\ crashes < MaxCrashes
  /\ crashes' = crashes + 1
  /\ judged' = {}
  /\ req' = Idle /\ stale' = FALSE
  /\ Outcome("cut")
  /\ UNCHANGED <<closed, due, evidence, results>>

Next ==
  \/ Selecting /\ UNCHANGED session
  \/ StorePlan \/ Close \/ Judge \/ Complete \/ Refused \/ Crash
  \/ FinishScoring \/ StoreFinalScore \/ StoreProblemScore \/ End
  \/ \E o \in Overrides : Override(o)
  \/ StoreAudit \/ StoreOverride \/ AggregateOverride \/ StoreNewScore

Spec == Init /\ [][Next]_vars

-----------------------------------------------------------------------------
(* Properties. *)

\* v is neither below nor above all of S.
Within(v, S) == (\E x \in S : x <= v) /\ (\E x \in S : v <= x)

\* What a score may show of the signals at the positions is.
ShownOf(E, is) == {Shown(E[i].value) : i \in is}

\* Once a recruiter's override has been answered, the session's score in its
\* dimension is never again anything but what recruiters said of it, whatever
\* scoring arrives later and however often the session is aggregated
\* (recruiter_override, RubricAggregator.aggregate).
ReviewerPrevails ==
  \A o \in Overrides : form[o] = "answered" =>
    /\ o.dim \in DOMAIN score.per
    /\ Within(score.per[o.dim],
              ShownOf(evidence, {i \in DOMAIN evidence :
                 evidence[i].by = "reviewer" /\ evidence[i].dim = o.dim}))

\* When a session has ended and no request is in progress, its score and the
\* feedback file are those of every signal in the log: no result of the scoring
\* thread, no override, retry or repeated aggregation is left out.  Excepted is an
\* override cut short by a crash (_do_aggregate, recruiter_override).
FinalScoreIsFull ==
  ended /\ req = Idle /\ (\A o \in Overrides : form[o] # "cut") =>
    /\ score = Aggregated(evidence)
    /\ feedback = score

\* No score leaves the range of the signals it is made of, as far as four decimals
\* show it: a dimension's lies between the least and the greatest value given, each
\* rounded like a score, the composite, if any of the dimensions has weight, between
\* the dimensions (_dimension_score, aggregate, _score_signals_without_feedback).
ScoreWithinEvidence ==
  LET sound(s, is) ==
        /\ \A d \in DOMAIN s.per :
             Within(s.per[d], ShownOf(evidence, {i \in is : evidence[i].dim = d}))
        /\ (\E d \in DOMAIN s.per : Weights[d] > 0) =>
             Within(s.composite, {s.per[d] : d \in DOMAIN s.per})
  IN /\ score # None => sound(score, DOMAIN evidence)
     /\ \A p \in DOMAIN problemScores :
          sound(problemScores[p], {i \in DOMAIN evidence : p \in evidence[i].refs})
=============================================================================
