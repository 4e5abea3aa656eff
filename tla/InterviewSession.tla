-------------------------- MODULE InterviewSession --------------------------
(***************************************************************************)
(* One interview session of the web application: the candidate's requests  *)
(* (adapters/http/app.py), the driver each of them runs over the log       *)
(* (SessionRunner.advance, adapters/http/session_runner.py) and the thread *)
(* that scores closed problems in the background                           *)
(* (adapters/scorer/background_worker.py), all writing to one event log.   *)
(*                                                                         *)
(* Handlers is the set of requests that can be in progress together: one   *)
(* under the single event loop of the documented deployment (no handler    *)
(* awaits between two appends), several when the application is called     *)
(* from several threads, as tests/integration/test_e2e_concurrent.py does, *)
(* or runs in several processes.  Log, task and queue are the shared state;*)
(* a crash keeps the log only.                                             *)
(*                                                                         *)
(* Appends of observations nobody decides by (timings, coverage, snapshots,*)
(* pacing, prompt texts, per-problem scores) take part in the races for    *)
(* sequence numbers but are not kept in log; consecutive ones are one step.*)
(***************************************************************************)
EXTENDS Orchestrator

CONSTANTS Handlers,             \* requests in progress together
          Worker,               \* the scoring thread, as an author of appends
          Nonces,               \* one per answer form the candidate may submit
          Body,                 \* Body[n]: what form n carries, markdown or code
          TargetDims,           \* TargetDims[p]: the dimensions p is scored on
          MaxProbesPerProblem,  \* SessionRunner.max_probes_per_problem
          MaxCited,             \* bound on artifacts the model cites if not all
          MaxCrashes            \* bound on crashes of the process

\* The dimensions problems are scored on.
Dims == UNION {{TargetDims[p][i] : i \in DOMAIN TargetDims[p]} : p \in Problems}

ASSUME HandlersAssumption == Worker \notin Handlers
ASSUME PlanAssumption == Plan \in Seq(Problems)
ASSUME DimsAssumption == \A p \in Problems : TargetDims[p] \in Seq(Dims)
ASSUME BoundsAssumption == {MaxProbesPerProblem, MaxCited, MaxCrashes} \subseteq Nat
ASSUME BodyAssumption ==
  \A n \in Nonces : Body[n] # {} /\ Body[n] \subseteq {"markdown", "code_cell"}
ASSUME NoneAssumption == None \notin Nonces /\ None \notin Problems
ASSUME FormsAssumption ==
  Nonces \cap ({Opener(p) : p \in Problems} \cup {ProbeAfter(n) : n \in Nonces \cup {None}}) = {}

VARIABLES log,      \* the session's events, in sequence order
          task,     \* task[h]: where request h stands
          queue,    \* jobs waiting for the scoring thread
          queued,   \* _queued_or_done: the problems it was ever handed
          worker,   \* the scoring thread: what it has left to append
          stale,    \* authors another author has appended past since they last stepped
          crashes

vars == <<log, task, queue, queued, worker, stale, crashes>>

\* --- requests in progress ------------------------------------------------

\* A request is at a step of its handler; while it appends, todo is what it has
\* left to append and `then` the step that follows.  p, n and arts are the
\* locals the code carries over: the problem under review or being closed, the
\* candidate's last turn, and the artifacts handed to the scorer.
AtWith(step, p, n, arts) ==
  [at |-> step, todo |-> <<>>, then |-> "idle", p |-> p, n |-> n, arts |-> arts]

At(step) == AtWith(step, None, None, {})

Idle == At("idle")

\* Append todo one event per step, then go on with task k.
Posting(todo, k) ==
  IF todo = <<>> THEN k
  ELSE [k EXCEPT !.at = "append", !.todo = todo, !.then = k.at]

Become(h, k) == task' = [task EXCEPT ![h] = k]

NewWorker == [alive |-> TRUE, todo |-> <<>>, tries |-> 0]

Init ==
  /\ log = <<Event("SessionStarted", "start")>>
  /\ task = [h \in Handlers |-> Idle]
  /\ queue = <<>>
  /\ queued = {}
  /\ worker = NewWorker
  /\ stale = {}
  /\ crashes = 0

\* --- appending -----------------------------------------------------------

\* The authors with appends left to make.
Authors ==
  {h \in Handlers : task[h].at = "append"}
    \cup (IF worker.todo # <<>> THEN {Worker} ELSE {})

\* RuntimeAdapter.execute appends the output at the sequence number after the
\* run's, read before both.
SeqReadEarly(e) == e.type = "ArtifactAttached" /\ e.kind = "cell_output"

Observation == Event("Observed", None)

\* Author a's append of e is stored, or answered from the log by its key; an
\* observation may be either.
Store(a, e) ==
  /\ SeqReadEarly(e) => a \notin stale
  /\ log' = IF e = Observation THEN log ELSE IdemAppend(log, e)
  /\ \/ /\ e = Observation \/ log' # log
        /\ stale' = (stale \ {a}) \cup (Authors \ {a})
     \/ log' = log /\ stale' = stale \ {a}

\* Another author's append fell between a's last_seq() and its append: the log
\* refuses e with a ValueError.
Lose(a, e) ==
  /\ a \in stale
  /\ e = Observation \/ IdemAppend(log, e) # log
  /\ stale' = stale \ {a}
  /\ UNCHANGED log

\* Mutant of AppendNext: a refused append is passed over.
AppendOrPass(h) ==
  LET t == task[h]
      resumed == AtWith(t.then, t.p, t.n, t.arts)
  IN /\ t.at = "append"
     /\ Store(h, Head(t.todo)) \/ Lose(h, Head(t.todo))
     /\ Become(h, Posting(Tail(t.todo), resumed))
     /\ UNCHANGED <<queue, queued, worker, crashes>>

\* A handler does not retry a refused append: the request ends with an error.
AppendNext(h) ==
  LET t == task[h]
      resumed == AtWith(t.then, t.p, t.n, t.arts)
  IN /\ t.at = "append"
     /\ \/ Store(h, Head(t.todo)) /\ Become(h, Posting(Tail(t.todo), resumed))
        \/ Lose(h, Head(t.todo)) /\ Become(h, Idle)
     /\ UNCHANGED <<queue, queued, worker, crashes>>

\* --- requests ------------------------------------------------------------

\* Every other action of a handler only decides what to do next.
Decides(h, step) ==
  /\ task[h].at = step
  /\ UNCHANGED <<log, worker, stale, crashes>>

NoJobs == UNCHANGED <<queue, queued>>

\* GET /sessions/{id} and GET /sessions/{id}/result: both run advance.
Get(h) == Decides(h, "idle") /\ NoJobs /\ Become(h, At("loop"))

\* Mutant of Post: a session that has ended still takes turns.
PostAnyway(h, n) ==
  /\ Decides(h, "idle") /\ NoJobs
  /\ Become(h, Posting(<<Turn(n, "candidate", "answer"), Artifact("markdown", n)>>, Idle))

\* POST /sessions/{id}/turn with form n, new or submitted again.
Post(h, n) ==
  LET kind == IF ProbeAwaitsAnswer(log) THEN "defense" ELSE "answer"
      part(k) == IF k \in Body[n] THEN <<Artifact(k, n)>> ELSE <<>>
  IN /\ Decides(h, "idle") /\ NoJobs
     /\ ~ Ended(log)
     /\ Become(h, Posting(<<Turn(n, "candidate", kind)>>
                            \o part("markdown") \o part("code_cell")
                            \o <<Observation>>, Idle))

\* --- advance: the scoring part of an iteration ---------------------------

\* _planned_problems draws the plan and the iteration starts again.
SelectPlan(h) ==
  /\ Decides(h, "loop") /\ NoJobs
  /\ ~ Planned(log)
  /\ Become(h, Posting(<<Event("ProblemPlanSelected", "plan")>>, At("loop")))

\* _do_aggregate
Aggregation ==
  Posting(<<Event("ScoreComputed", "score"),
            Observation,
            Event("SessionEnded", "scored")>>, Idle)

FinishScoring(h) ==
  /\ Decides(h, "loop") /\ NoJobs
  /\ Planned(log) /\ AsyncScoringReady(log)
  /\ Become(h, Aggregation)

Job(p, arts) == [p |-> p, arts |-> arts]

\* BackgroundScoringWorker.enqueue of jobs it was never handed.
Enqueued(jobs) ==
  /\ queue' = queue \o jobs
  /\ queued' = queued \cup {jobs[i].p : i \in DOMAIN jobs}

\* Mutant of RecoverPending: requests lost with the queue are not taken up.
RecoverNothing == NoJobs

\* _recover_pending_scoring_jobs: whatever was requested and has not completed
\* is handed to the worker again, which takes what it has not got.
RecoverPending ==
  LET lost == {r \in Positions(log, {"ScoringRequested"}) :
                 /\ log[r].id \notin Completed(log) \cup queued
                 /\ CandidateArtifacts(log, log[r].id) # {}}
      job(r) == Job(log[r].id, CandidateArtifacts(log, log[r].id))
  IN \E rs \in InOrder(lost) : Enqueued([i \in DOMAIN rs |-> job(rs[i])])

\* --- advance: the interview part of an iteration -------------------------

Drives(h) ==
  /\ Decides(h, "loop")
  /\ Planned(log) /\ ~ AsyncScoringReady(log)
  /\ RecoverPending

\* _do_introduce_problem
Introduction(p) ==
  Posting(<<Event("ProblemIntroduced", p),
            Turn(Opener(p), "challenger", "question"),
            Observation>>, At("loop"))

IntroduceNext(h) ==
  /\ Drives(h)
  /\ NextToIntroduce(log) # None
  /\ Become(h, Introduction(NextToIntroduce(log)))

\* No problem to introduce: the orchestrator's action decides.
Dispatches(h, actions) ==
  /\ Drives(h)
  /\ NextToIntroduce(log) = None
  /\ NextAction(log) \in actions

\* _do_probe, for a candidate turn of the active problem or at the
\* orchestrator's request.
AskExaminer(h) ==
  /\ \/ /\ NeedsExaminer(log)
        /\ Dispatches(h, {"NoAction", "EndSession", "RequestChallenge", "RequestProbe",
                          "RequestScoring", "RequestAggregate"})
     \/ ~ NeedsExaminer(log) /\ Dispatches(h, {"RequestProbe"})
  /\ Become(h, At("probe"))

\* _do_execution and RuntimeAdapter.execute
Execute(h) ==
  LET n == log[LastTurn(log)].id
      ran == <<Event("RuntimeExecuted", n), Artifact("cell_output", n)>>
      failed == <<Event("RuntimeFailed", n)>>
  IN /\ Dispatches(h, {"RequestExecution"})
     /\ \E outcome \in {ran, failed} : Become(h, Posting(outcome, At("loop")))

\* The active problem is presented again, under the same keys.
Challenge(h) ==
  /\ Dispatches(h, {"RequestChallenge"}) /\ ~ NeedsExaminer(log)
  /\ CurrentProblem(log) # None
  /\ Become(h, Introduction(CurrentProblem(log)))

\* With no problem active the iteration is repeated, _MAX_STEPS times, and the
\* request gives up; until then it stands at "loop".
GiveUp(h) ==
  /\ Dispatches(h, {"RequestChallenge"}) /\ ~ NeedsExaminer(log)
  /\ CurrentProblem(log) = None
  /\ Become(h, Idle)

Aggregate(h) ==
  /\ Dispatches(h, {"RequestAggregate"}) /\ ~ NeedsExaminer(log)
  /\ Become(h, Aggregation)

\* The request is answered: a page that awaits input, the result page while
\* scoring is pending, or the end.
Respond(h) ==
  /\ Dispatches(h, {"RequestCandidateInput", "RequestScoring", "EndSession", "NoAction"})
  /\ ~ NeedsExaminer(log)
  /\ Become(h, Idle)

\* --- _do_probe -----------------------------------------------------------

\* The turn under review is read again, and its coverage recorded.
Observe(h) ==
  LET p == CurrentProblem(log)
      n == LastCandidateTurn(log)
      covers == p # None /\ n # None /\ HasArtifact(log, n, "markdown")
  IN /\ Decides(h, "probe") /\ NoJobs
     /\ Become(h, Posting(IF covers THEN <<Observation>> ELSE <<>>,
                          AtWith("examine", p, n, {})))

\* Mutant of Examine: the cap is off by one.
ExamineOnceMore(h) ==
  LET t == task[h]
      capped == t.p # None /\ ProbeCount(log, t.p) > MaxProbesPerProblem
  IN /\ Decides(h, "examine") /\ NoJobs
     /\ Become(h, IF capped THEN AtWith("close", t.p, None, {})
                  ELSE [t EXCEPT !.at = "review"])

\* The safety cap, or the call of the examiner.
Examine(h) ==
  LET t == task[h]
      capped == t.p # None /\ ProbeCount(log, t.p) >= MaxProbesPerProblem
  IN /\ Decides(h, "examine") /\ NoJobs
     /\ Become(h, IF capped THEN AtWith("close", t.p, None, {})
                  ELSE [t EXCEPT !.at = "review"])

\* Mutant of Review: without a probe text no turn is posted.
ReviewInSilence(h) ==
  LET t == task[h]
      before == IF t.p = None THEN {<<>>, <<Observation>>} ELSE {<<Observation>>}
      turn == <<Turn(ProbeAfter(t.n), "examiner", "probe"), Observation>>
  IN /\ Decides(h, "review") /\ NoJobs
     /\ \/ t.p # None /\ Become(h, AtWith("close", t.p, None, {}))
        \/ \E seen \in before, said \in {<<>>, turn} :
             Become(h, Posting(seen \o said, At("loop")))

\* The examiner's answer: close the problem, or probe.  A snapshot of the problem's
\* coverage, a backchannel and a pause of the pacer may be observed before the probe.
Review(h) ==
  LET t == task[h]
      before == IF t.p = None THEN {<<>>, <<Observation>>} ELSE {<<Observation>>}
      turn == <<Turn(ProbeAfter(t.n), "examiner", "probe"), Observation>>
  IN /\ Decides(h, "review") /\ NoJobs
     /\ \/ t.p # None /\ Become(h, AtWith("close", t.p, None, {}))
        \/ \E seen \in before : Become(h, Posting(seen \o turn, At("loop")))

\* --- _do_close_problem ---------------------------------------------------

\* The artifacts are read,
Close(h) ==
  LET p == task[h].p
  IN /\ Decides(h, "close") /\ NoJobs
     /\ Become(h, AtWith("request", p, None, CandidateArtifacts(log, p)))

\* and whether scoring was requested before.
Request(h) ==
  LET p == task[h].p
      arts == task[h].arts
      closed == <<Event("ProblemClosed", p)>>
      requested == <<ScoringRequest(p, arts)>>
  IN /\ Decides(h, "request") /\ NoJobs
     /\ Become(h,
          IF arts = {} THEN Posting(closed, At("loop"))
          ELSE Posting(closed \o requested,
                       IF p \in Requested(log) THEN At("loop")
                       ELSE AtWith("enqueue", p, None, arts)))

Enqueue(h) ==
  /\ Decides(h, "enqueue")
  /\ IF task[h].p \in queued THEN NoJobs
     ELSE Enqueued(<<Job(task[h].p, task[h].arts)>>)
  /\ Become(h, At("loop"))

\* --- the scoring thread --------------------------------------------------

\* What the model may cite of the artifacts arts; all of them, if it names none.
Citations(arts) == {arts} \cup {c \in SUBSET arts : Cardinality(c) \in 1 .. MaxCited}

\* A signal per dimension: the model's, which cites some of the artifacts, cited[i],
\* and for the other dimensions heuristic ones, which cite all.
SignalsOf(job, cited) ==
  [i \in DOMAIN TargetDims[job.p] |->
     IF i \in DOMAIN cited THEN Signal(job.p, TargetDims[job.p][i], "llm", cited[i])
     ELSE Signal(job.p, TargetDims[job.p][i], "heuristic", job.arts)]

FailuresOf(job, s, why) == [i \in DOMAIN s |-> ScorerFailure(job.p, TargetDims[job.p][s[i]], why)]

\* A failure beside every heuristic signal, and one for whatever else of the model's
\* answer was malformed.
Scorings(job, cited, more) ==
  {SignalsOf(job, cited) \o FailuresOf(job, s, "fallback") :
     s \in InOrder((DOMAIN TargetDims[job.p] \ DOMAIN cited) \cup more)}

\* A failure per dimension when the scorer raises.
RaisedOf(job) ==
  [i \in DOMAIN TargetDims[job.p] |-> ScorerFailure(job.p, TargetDims[job.p][i], "raised")]

\* The events score_problem may return for a job.
Results(job) ==
  LET at == DOMAIN TargetDims[job.p]
      citations == UNION {[llm -> Citations(job.arts)] : llm \in SUBSET at}
  IN {RaisedOf(job)}
       \cup UNION {Scorings(job, cited, more) : cited \in citations, more \in SUBSET at}

\* Mutant of Score: the completion is recorded before the results.
ScoreLate ==
  /\ worker.alive /\ worker.todo = <<>> /\ queue # <<>>
  /\ \E events \in Results(Head(queue)) :
       worker' = [worker EXCEPT
         !.todo = <<Event("ScoringCompleted", Head(queue).p)>> \o events]
  /\ queue' = Tail(queue)
  /\ UNCHANGED <<log, task, queued, stale, crashes>>

\* _process: score the next job; its completion is appended last.
Score ==
  /\ worker.alive /\ worker.todo = <<>> /\ queue # <<>>
  /\ \E events \in Results(Head(queue)) :
       worker' = [worker EXCEPT
         !.todo = events \o <<Event("ScoringCompleted", Head(queue).p)>>]
  /\ queue' = Tail(queue)
  /\ UNCHANGED <<log, task, queued, stale, crashes>>

\* Mutant of WorkerAppend: the refused append is retried without end.
WorkerAppendForever ==
  /\ worker.todo # <<>>
  /\ \/ /\ Store(Worker, Head(worker.todo))
        /\ worker' = [worker EXCEPT !.todo = Tail(@), !.tries = 0]
     \/ /\ Lose(Worker, Head(worker.todo))
        /\ worker' = [worker EXCEPT !.tries = @ + 1]
  /\ UNCHANGED <<task, queue, queued, crashes>>

\* The worker tries four times; a fourth refusal ends its thread.
WorkerAppend ==
  /\ worker.todo # <<>>
  /\ \/ /\ Store(Worker, Head(worker.todo))
        /\ worker' = [worker EXCEPT !.todo = Tail(@), !.tries = 0]
     \/ /\ Lose(Worker, Head(worker.todo))
        /\ worker' = IF worker.tries < 3
                     THEN [worker EXCEPT !.tries = @ + 1]
                     ELSE [NewWorker EXCEPT !.alive = FALSE]
  /\ UNCHANGED <<task, queue, queued, crashes>>

\* --- the process dies and is started again -------------------------------

Crash ==
  /\ crashes < MaxCrashes
  /\ task' = [h \in Handlers |-> Idle]
  /\ queue' = <<>>
  /\ queued' = {}
  /\ worker' = NewWorker
  /\ stale' = {}
  /\ crashes' = crashes + 1
  /\ UNCHANGED log

\* -------------------------------------------------------------------------

Step(h) ==
  \/ AppendNext(h)
  \/ SelectPlan(h) \/ FinishScoring(h)
  \/ IntroduceNext(h) \/ AskExaminer(h) \/ Execute(h) \/ Challenge(h)
  \/ GiveUp(h) \/ Aggregate(h) \/ Respond(h)
  \/ Observe(h) \/ Examine(h) \/ Review(h) \/ Close(h) \/ Request(h)
  \/ Enqueue(h)

Next ==
  \/ \E h \in Handlers : Get(h) \/ Step(h) \/ \E n \in Nonces : Post(h, n)
  \/ Score
  \/ WorkerAppend
  \/ Crash

Spec == Init /\ [][Next]_vars

\* Fairness: a request in progress is run to its end and the scoring thread is
\* scheduled; the candidate keeps opening the page, however often forms are
\* submitted in between.
Fairness ==
  /\ \A h \in Handlers : WF_vars(Step(h)) /\ SF_vars(Get(h))
  /\ WF_vars(Score \/ WorkerAppend)

FairSpec == Spec /\ Fairness

-----------------------------------------------------------------------------
(* Properties. *)

Steps == {"idle", "loop", "append", "probe", "examine", "review", "close", "request",
          "enqueue"}

\* What the events, jobs and requests are made of.
Kinds == {"markdown", "code_cell", "cell_output"}
ArtifactIds == Kinds \X Nonces

HandlerEvents ==
  {Event("SessionStarted", "start"), Event("ProblemPlanSelected", "plan"),
   Event("ScoreComputed", "score"), Event("SessionEnded", "scored"), Observation}
  \cup {Event(type, p) : type \in {"ProblemIntroduced", "ProblemClosed"}, p \in Problems}
  \cup {Event(type, n) : type \in {"RuntimeExecuted", "RuntimeFailed"}, n \in Nonces}
  \cup {Turn(Opener(p), "challenger", "question") : p \in Problems}
  \cup {Turn(n, "candidate", kind) : n \in Nonces, kind \in {"answer", "defense"}}
  \cup {Turn(ProbeAfter(n), "examiner", "probe") : n \in Nonces \cup {None}}
  \cup {Artifact(kind, n) : kind \in Kinds, n \in Nonces}
  \cup {ScoringRequest(p, arts) : p \in Problems, arts \in SUBSET ArtifactIds}

WorkerEvents ==
  {Event("ScoringCompleted", p) : p \in Problems}
  \cup {Signal(p, d, src, refs) : p \in Problems, d \in Dims, src \in {"llm", "heuristic"},
                                  refs \in SUBSET ArtifactIds}
  \cup {ScorerFailure(p, d, why) : p \in Problems, d \in Dims, why \in {"fallback", "raised"}}

Tasks == [at : Steps, todo : Seq(HandlerEvents), then : Steps \ {"append"},
          p : Problems \cup {None}, n : Nonces \cup {None}, arts : SUBSET ArtifactIds]

\* Types of the state; a request that appends has something to append and one that
\* closes or hands over has a problem; the queue holds problems the worker was handed.
TypeOK ==
  /\ log \in Seq(HandlerEvents \cup WorkerEvents)
  /\ task \in [Handlers -> Tasks]
  /\ \A h \in Handlers :
       /\ (task[h].at = "append") <=> (task[h].todo # <<>>)
       /\ {task[h].at, task[h].then} \cap {"close", "request", "enqueue"} # {} => task[h].p # None
  /\ queue \in Seq([p : queued, arts : SUBSET ArtifactIds])
  /\ queued \subseteq Problems
  /\ worker \in [alive : BOOLEAN, todo : Seq(WorkerEvents), tries : 0 .. 3]
  /\ ~ worker.alive => worker.todo = <<>>
  /\ stale \subseteq Authors
  /\ crashes \in 0 .. MaxCrashes

\* Between two introductions the first problem was closed
\* (core/invariants.md, "Close before next introduce").
OneProblemAtATime ==
  \A i, j \in Positions(log, {"ProblemIntroduced"}) :
    i < j => \E k \in i .. j : log[k].type = "ProblemClosed" /\ log[k].id = log[i].id

\* A scoring request names everything the candidate attached, while the problem
\* was active, to a turn of that problem: no part of an answer goes unscored.
RequestIsComplete ==
  \A r \in Positions(log, {"ScoringRequested"}), a \in Positions(log, {"ArtifactAttached"}) :
    LET p == log[r].id
    IN (/\ Active(SubSeq(log, 1, a), p)
        /\ \E t \in TurnsOf(log, "candidate") :
             t < a /\ log[t].id = log[a].turn /\ Active(SubSeq(log, 1, t), p))
       => log[a].id \in log[r].artifacts

\* What tells the events of a session apart, and what an event says of earlier ones:
\* its turn, its problem's introduction or closing, the artifacts it lists.  The output
\* of a run is the exception: RuntimeExecuted names it in advance, so the output is what
\* refers to the run here.
Named(e) == <<e.type, e.id>>

Attached(arts) == {<<"ArtifactAttached", x>> : x \in arts}

Cites(e) ==
  CASE e.type = "ProblemIntroduced" -> {<<"ProblemPlanSelected", "plan">>}
    [] e.type = "ProblemClosed" -> {<<"ProblemIntroduced", e.id>>}
    [] e.type = "TurnPosted" /\ e.actor = "challenger" -> {<<"ProblemIntroduced", e.id[2]>>}
    [] e.type = "TurnPosted" /\ e.actor = "examiner" /\ e.id[2] # None -> {<<"TurnPosted", e.id[2]>>}
    [] e.type = "ArtifactAttached" /\ e.kind # "cell_output" -> {<<"TurnPosted", e.turn>>}
    [] e.type = "ArtifactAttached" /\ e.kind = "cell_output" -> {<<"RuntimeExecuted", e.turn>>}
    [] e.type \in {"RuntimeExecuted", "RuntimeFailed"} -> Attached({<<"code_cell", e.id>>})
    [] e.type = "ScoringRequested" -> {<<"ProblemClosed", e.id>>} \cup Attached(e.artifacts)
    [] e.type = "SignalEmitted" -> {<<"ScoringRequested", e.id[1]>>} \cup Attached(e.refs)
    [] e.type = "ScorerFailed" -> {<<"ScoringRequested", e.id[1]>>}
    [] e.type = "ScoringCompleted" -> {<<"ScoringRequested", e.id>>}
    [] e.type = "SessionEnded" -> {<<"ScoreComputed", "score">>}
    [] OTHER -> {}

\* Nothing is in the log twice, whichever requests are repeated and jobs redelivered:
\* no problem is introduced, presented or closed twice, no form posts two turns, also
\* when it is submitted again after a probe, no turn gets two probes, no result of a
\* scoring is stored once more.  Excepted are runs and their output, which have no key.
RecordedOnce ==
  \A i, j \in DOMAIN log :
    Named(log[i]) = Named(log[j]) =>
      \/ i = j
      \/ log[i].type \in {"RuntimeExecuted", "RuntimeFailed"}
      \/ log[i].type = "ArtifactAttached" /\ log[i].kind = "cell_output"

\* Whoever replays the log to any point finds there what its events refer to
\* (core/invariants.md, "Referential"), whichever appends were refused, whichever
\* jobs were taken up again after a crash, and whatever else was in progress.
EventsCiteThePast ==
  \A i \in DOMAIN log : Cites(log[i]) \subseteq {Named(log[j]) : j \in 1 .. i - 1}

\* A problem is given at most MaxProbesPerProblem probes.
ProbeCap == \A p \in Problems : ProbeCount(log, p) <= MaxProbesPerProblem

SignalsBefore(p, i) ==
  \A k \in DOMAIN TargetDims[p] :
    \E j \in 1 .. i - 1 :
      /\ log[j].type \in {"SignalEmitted", "ScorerFailed"}
      /\ log[j].id[1] = p /\ log[j].dim = TargetDims[p][k]

\* When scoring of a problem is recorded as completed, every target dimension
\* has a signal or a failure in the log: a crash or a lost race in the middle
\* of a job never leaves a completion without its results.
CompletedMeansScored ==
  \A i \in Positions(log, {"ScoringCompleted"}) : SignalsBefore(log[i].id, i)

\* The session's score is computed after the results of every problem whose
\* scoring was requested by then.
ScoreNeedsSignals ==
  \A i \in Positions(log, {"ScoreComputed"}),
     r \in Positions(log, {"ScoringRequested"}) :
    r < i => SignalsBefore(log[r].id, i)

\* Nothing of the interview is appended once the session has ended: no turn, no
\* artifact, no problem, no scoring request.
QuietAfterEnd ==
  \A i \in Positions(log, {"SessionEnded"}),
     j \in Positions(log, {"TurnPosted", "ArtifactAttached", "ProblemIntroduced",
                           "ProblemClosed", "ScoringRequested"}) : j < i

\* The code of a turn is run to a recorded outcome at most once, although run
\* events carry no key.
CodeRunOnce ==
  \A i, j \in Positions(log, {"RuntimeExecuted", "RuntimeFailed"}) :
    log[i].id = log[j].id => i = j

AwaitsReview(n) ==
  /\ CurrentProblem(log) # None
  /\ LastTurn(log) # 0 /\ log[LastTurn(log)].id = n

\* Every turn the candidate posts while a problem is active is answered, by a
\* probe or by closing the problem, unless the session ends first.
EveryAnswerReviewed ==
  \A n \in Nonces : AwaitsReview(n) ~> (~ AwaitsReview(n) \/ Ended(log))

\* Once the last problem is closed the session ends with a score, if there was
\* anything to score, even when the process crashes and the queue is lost, unless the
\* scoring thread died.
ResultArrives ==
  (\A p \in Problems : Closed(log, p)) /\ Requested(log) # {}
    ~> (Ended(log) \/ ~ worker.alive)

\* SessionEnded never comes while a planned problem is active or still to be
\* introduced (core/invariants.md, "End after last close").
EndAfterLastClose ==
  Ended(log) => \A p \in Problems : Closed(log, p)

\* A probe of a problem comes after the turn that presents its opener
\* (core/invariants.md: the opener is posted in the same step).
OpenerFirst ==
  \A i \in TurnsOf(log, "examiner") :
    LET before == SubSeq(log, 1, i)
    IN CurrentProblem(before) # None
       => Logged(before, "TurnPosted", Opener(CurrentProblem(before)))
=============================================================================
