# InterviewSystem in TLA+

A verification project for the interview server: an event-sourced FastAPI
application whose only durable state is an append-only SQLite log. Every request
replays the log, asks two pure functions what to do next, and appends the result;
a background thread scores finished problems and appends to the same log. Nothing
holds a lock across a request. The correctness of the system is therefore the
correctness of (1) one `append`, and (2) all the interleavings of "read the log,
decide, append at `last_seq() + 1`". Around that core stand the parts that
feed it: the scoring thread's life cycle, the questions to the language model, the
voice channel, and the arithmetic that picks problems and turns signals into a score.
Each has modules of its own.

## Inventory

| component | state | operations | talks to |
|---|---|---|---|
| Event log (`adapters/eventlog/sqlite_log.py`, `core/eventlog.py`) | table `events`, one connection and one lock per process | `append`, `get_session`, `last_seq` | everything below |
| Projections (`core/projections.py`, `core/session_boot.py`) | none: functions of the log | `apply`, `replay` | read by every request |
| Orchestrator, sequencer (`core/orchestrator.py`, `core/problem_sequencer.py`) | none | `next_action`, `next_event` | called by the runner |
| Session runner (`adapters/http/session_runner.py`) | none between calls | `advance` and its `_do_*` steps | log, examiner, runtime, scoring worker |
| Candidate routes (`adapters/http/app.py`) | none | GET session, GET result, POST turn, POST sessions | runner, log |
| Recruiter routes (`adapters/http/app.py`) | none | list, evidence, override | log, aggregator |
| Scoring worker (`adapters/scorer/background_worker.py`) | queue, `_queued_or_done`, thread | `enqueue`, `start`, `stop`, `_process` | log, problem scorer |
| Code execution (`adapters/runtime/*`) | none | `execute` | subprocess, log |
| Model router and providers (`adapters/llm/*`) | deadline, attempt and tier of a call | `call`, `call_json`, streaming | network |
| Challenger, examiner, scorers (`adapters/challenger`, `examiner`, `scorer`) | none | prompt and parse | model router |
| Aggregator, coverage (`adapters/scorer/aggregator.py`, `core/coverage.py`) | none | arithmetic on signals | runner |
| Problem bank, selection (`core/problem_bank.py`, `core/problem_selection.py`) | YAML files | pick a plan | runner |
| Voice (`adapters/http/voice_runner.py`, `stt`, `tts`, `static/voice.js`) | a socket, an audio queue and a generator per turn; the chain's list of fallbacks | one spoken turn | log, router |
| Intake, packs, observability, tools | files, counters | parsing, reports | - |

What is hard in it: two writers that read the same `last_seq`; handlers of
several appends cut short by a lost race or a crash; a queue that lives in memory
only beside requests that live in the log; retries and double submissions that
must not record anything twice; a decision (`advance` replays once per iteration)
applied to a log that another author has extended since; a thread that is stopped,
restarted and killed by its own exceptions; deadlines shared out among retries;
sockets that vanish in the middle of a sentence. `PROJECT.json` lists each
of these at its line, with the properties that watch it or the reason none does.

What makes each component correct: the log refuses or stores, never both, and
never out of order; the keys make every handler's appends idempotent; one problem
is active at a time; the scorer sees all of an answer; a score follows the signals
it is computed from; a request for scoring is eventually answered by a score; an
accepted job is scored once; a question to the model has a bounded cost and an answer
in time; what was said is what the log says was said; a reviewer's word stands.

## Modules

| module | models |
|---|---|
| `EventLog` | the abstract contract of `append`: an atomic step between call and return |
| `SqliteLog` | `SqliteEventLog.append`, one action per SQL statement, for threads and processes, with crashes |
| `SqliteLogProofs` | proofs about `SqliteLog`, including that it implements `EventLog` |
| `SessionLog` | the events of one session, the idempotent append, and the projections as operators on the log |
| `SessionLogProofs` | lemmas about `SessionLog`: how each reader of the log changes when an event is appended |
| `Orchestrator` | `next_action` and `ProblemSequencer.next_event` on that log |
| `InterviewSession` | page views, form posts, the `advance` loop, the scoring thread, crashes |
| `InterviewSessionProofs` | proofs about `InterviewSession` |
| `ScoringService` | what the scoring thread promises: a job is accepted, scored once and one at a time, and recorded or lost |
| `ScoringWorker` | `BackgroundScoringWorker`: `enqueue`, `start`, `stop`, the queue with its sentinel, the thread and its death |
| `ScoringWorkerProofs` | proofs about `ScoringWorker`, including that it implements `ScoringService` |
| `ModelRouter` | one question to the model: `call_json`, `call`, the fallback chain, the two kinds of provider, streams, and the agents' use of the answer |
| `ModelRouterProofs` | proofs about `ModelRouter` |
| `VoiceTurn` | the voice websocket, `next_turn`, the audio generator and the TTS chain, for several sockets of a session |
| `VoiceTurnProofs` | proofs about `VoiceTurn` |
| `ProblemSelection` | ranking and exchanges of the problem selector and of the bank's own picker |
| `ProblemSelectionProofs` | proofs about `ProblemSelection` |
| `Evaluation` | storing the plan, scoring, aggregation, per-problem scores, overrides, crashes; extends `ProblemSelection` |
| `EvaluationProofs` | proofs about `Evaluation`, from the sums up |
| `MCSqliteLog`, `MCInterviewSession`, `MCScoringWorker`, `MCModelRouter`, `MCVoiceTurn`, `MCEvaluation` | small instances |

`Orchestrator` extends `SessionLog`, and `InterviewSession` extends
`Orchestrator`. `SqliteLog` is the justification for the atomic append of
`InterviewSession`: `Store` and `Lose` there are `Store` and `Refuse` of
`EventLog`, which `SqliteLog` is proved to implement. The other modules meet at the
same log: `ScoringWorker` is the thread that `InterviewSession` takes to be running,
`Evaluation` the aggregation it takes to be one step, `ModelRouter` says which
outcomes of a model call the free choices of `InterviewSession` stand for, and
`VoiceTurn` is the other way into a session.

### SqliteLog

`pc[w]` is the statement thread `w` runs next. `pyLock` is `self._lock` of each
process, `dbLock` the writer slot of the file. `BeginBusy` is the
`OperationalError` after SQLite's busy timeout; `CheckSeq` and `Insert` are the two
refusals. A crash drops the threads of a process and rolls its transaction back.
An envelope is its session, sequence number and key: `append` looks at nothing
else of it.

### InterviewSession

`log` is the session's events in sequence order. The code draws fresh uuids for turns
and artifacts; an event's `id` says what it is for (the problem, the form, the turn it
answers, the artifacts a signal cites). The idempotency key its handler appends it under
is a function of its own, `Key`, and the log looks at nothing else: `IdemAppend` drops an
event whose key is stored, whatever its id. That each handler builds a key that is neither
too narrow nor too wide is therefore a property (`RecordedOnce`), not an assumption; the
uuids of forms are assumed to be different from the names of openers and probes
(`FormsAssumption`). `task[h]` is request `h`: the step of the handler it stands at, the
appends it has left, and the local variables the code carries from one read of the
log to a later append (`p`, `n`, `arts`). `queue`, `queued` and `worker` are the
worker's queue, `_queued_or_done` and thread.

Each action is one stretch of the handler between two accesses to the log: it
reads the log as it is, decides, and sets the appends to be made; each append is a
step of its own (`AppendNext`, `WorkerAppend`).

* *Sequence races.* `_append` reads `last_seq()` and then appends. Another
  author's append may fall between the two, and only if it comes after the
  author's previous step; `stale` holds the authors for which that is so. Such an
  append may be stored (the read came late) or refused (`Lose`). A request that
  loses fails with an error, as no handler catches the `ValueError`; the worker
  tries four times, and then its thread ends. `RuntimeAdapter` reads the number of
  its second event before its first, so for it a stale append is always refused.
* *Observations.* Appends nobody decides by (timings, coverage, snapshots, pacing,
  prompt texts, per-problem scores) are one event, `Observation`, and consecutive
  ones are one append. What matters of them is that they can lose and win races
  for sequence numbers, so they are appended like the others but not kept in
  `log`; whether such an append is new or answered by its key is a free choice.
* *Closing a problem* is three steps: its artifacts are read (`Close`), then whether its
  scoring was requested before (`Request`), and after the two appends the job is handed
  over (`Enqueue`). Another author may append between any two of them.
* *The model's answers* are free choices: the examiner closes or probes; scoring
  yields a signal of the model or the heuristic per dimension, with failures
  beside them, or raises. A signal of the model's cites all artifacts of its job or up to
  `MaxCited` of them (`Citations`), a heuristic one all; what it cites is part of its key,
  so a job scored again after a crash may leave a second signal.
* *A crash* keeps the log and nothing else.
* GET `/result` runs `advance` like the page itself and is the same action.
  `Post` takes any form at any time, new or resubmitted, since the server does not
  check that it handed the nonce out.

`Handlers` is the set of requests in progress together. The server of the README
is one uvicorn process whose handlers are `async` and do not await between two
appends, so requests do not interleave with each other, only with the scoring
thread: one handler. Two handlers are what `tests/integration/test_e2e_concurrent.py`
or several processes do.

### ScoringWorker

`known` is `_queued_or_done`, `queue` the queue with `None` for the sentinel,
`putting[c]` a job a caller has entered under `_job_lock` and not yet queued,
`current` is `_thread`. `thread[t]` is a thread `start` has created: `get`, `score`,
`read` (before `last_seq`), `append`, and the two ends: `ended` at the sentinel,
`dead` by an exception nothing catches. Of the log the worker sees whether anybody has
appended since its `last_seq`; `fresh` is that bit, and `Overtake` clears it. `left`
counts the events of the job still to be appended and `tries` the refusals in a row.
`app` is the lifespan in `app.py` that starts and stops the worker; `Join` returns
when the thread has ended or after its timeout, so a start may meet the old thread
still draining, and `leftover` remembers that a sentinel was left behind.

`ScoringService` is what `InterviewSession` relies on. Under the refinement mapping
`Fates` a job is accepted from `Claim`, in scoring from `Get`, recorded with its
completion in the log, and lost when its thread dies with it.

### ModelRouter

`call` holds the locals of one question: when it was `asked`, the router's attempt, tier
and deadline (`began` plus the agent's budget), whether it is inside the fallback chain
(`falling`), the timeout of the request in progress (`limit`), the provider's tries,
and what has come out of it. `AskAgain` is the challenger's second round, which calls the
router with the whole budget again: `began` is new, `asked` stays. `now` is the clock:
requests and sleeps advance it, the code between takes no time. The timeout given to
`urlopen` holds for each operation of the socket and not for the request, so before its
last operation a request makes up to `MaxReads` others (`Transfer`, `ReadStream`), each of
which may take all of `limit`. Two kinds of provider, because they part ways at a
timeout: `single` raises it to the router, which starts the chain; `retrying`
(`OpenAIRouter`, what the factory builds) tries again by itself and raises
`RuntimeError` in the end, so that the chain never starts in production. A stream
is opened by reading it, past all of the router's retries.

`json`, `text`, `placeholder`, `part` and `silence` are all the agents tell apart. The
last actions (`Challenge`, `Review`, `Score`, `Speak`) are what each agent makes of
the outcome.

### VoiceTurn

One event loop runs all handlers, so the code between two awaits is one step. `turn[c]`
is the handler of socket `c`, `client[c]` its client, who may switch to text or vanish
at any moment; sends fail accordingly. Since the scoring thread may overtake, each
appending step stores some first part of its events and, if not all, fails (`lost`).
The `finally` of the audio generator (`Record`) runs at its end, at an exception, or
when the abandoned generator is collected after the socket is gone: that is
the state `abandoned`. `pending` is the chain's list of fallbacks, shared by all sockets.

### ProblemSelection and Evaluation

A problem is its place in the order of its hash, so `1 .. BankSize` is the bank. `Rank`
sorts, `Exchange` is one round of `_improve_dimension_coverage`, `Try` one candidate of
`pick_sequence`, `Choose` the return. `Evaluation` adds the rest of a score's life, with
the locals of a request in `req`. Scores are integers in units of 1/10000, the four
decimals the code rounds to. The values of signals are not rounded by anybody (the model's
and the recruiter's are any float of the scale), so they are integers in a unit finer by
`Grain`, which may be any number; weights and confidences are integers. Rounding the score
alone can leave the range of what was given: a single 0.99996 scores 1.0. So
`ScoreWithinEvidence` compares a score with its signals as four decimals show them
(`Shown`). Each problem has its `TargetDims`; `judged` are the dimensions of the job in
progress that the thread has dealt with, and a crash forgets them: the job is scored again
from its beginning, where a heuristic signal finds its key (`Known`) and one of the model's
may come a second time. `RequestAggregate`, the other way to `_do_aggregate`, is for
sessions without a problem bank, which the application does not create, and left out.
`score`,
`problemScores` and `feedback` are the last `ScoreComputed`, the
`PerProblemScoreComputed` events and the feedback file, which every result view
writes again.

## Runs

| run | configuration | shows |
|---|---|---|
| `sqlite` | `MCSqliteLog.cfg`: 2 processes, 3 threads, 2 sequence numbers, 1 key | locks, checks, uniqueness, order, refinement of `EventLog`, and that locks are released |
| `interview` | `MCInterview.cfg`: 1 handler, 2 problems, 2 forms (symmetric), 1 probe per problem | a whole interview beside the scoring thread: nothing is stored twice, the probe cap, scores behind their signals, nothing after the end |
| `crash` | `MCInterviewCrash.cfg`: 1 handler, 1 problem, 2 forms of which one has code, 1 crash | nothing of an answer is left out of scoring, no completion without results, code runs once, events refer to earlier ones |
| `live` | `MCInterviewLive.cfg`: 1 handler, 2 problems, 1 form, 1 crash, fairness; from the start or from both problems closed (`LiveSpec`) | every candidate turn is reviewed, the result arrives once the last problem is closed |
| `concurrent` | `MCInterviewConcurrent.cfg`: 2 handlers from a session with one answer, symmetric | the keys keep problems apart; events refer to earlier ones |
| `end_early` | `MCEndEarly.cfg` | finding 1 |
| `opener_lost` | `MCOpenerLost.cfg` | finding 2 |
| `worker` | `MCScoringWorker.cfg`: 2 jobs, 2 callers, 2 threads, 2 lifespans | a job is in one place, `stop` drains, `ScoringService` is implemented, accepted jobs finish |
| `router` | `MCModelRouter.cfg`: 4 agents, 2 kinds of provider, 3 attempts of each, timeouts and budgets in the order of the code's | requests are bounded, lateness is bounded per round, placeholders and failures are explained and never used |
| `voice` | `MCVoice.cfg`: 2 sockets of a turn each, audio, 1 refused append | what was said is recorded, once, in order and completely |
| `voice_switch` | `MCVoiceSwitch.cfg`: 1 socket, 2 turns | finding 3 |
| `evaluation` | `MCEvaluation.cfg`: a bank of 5, a plan of 3, 2 problems scored, 2 dimensions, 2 overrides, 1 crash | plans are worth their exchanges, overrides prevail, final scores are full, scores stay in the range of their signals to four decimals |

Bounds. The log needs no bound of its own: every append but a run's carries a key, so it
grows with `Nonces`, `Plan` and the probe caps, which are finite. `Nonces` (forms),
`MaxCrashes`, `MaxCited`, `MaxProbesPerProblem` and `MaxProbesPerPrompt` are the bounds.
`MaxCited` is one in `interview`, where a job of two artifacts has three citations, one
of each and both; in `crash`, for the size of it, zero: the model's signals cite the
whole job there, and a job scored again differs from the first time by being judged by
the model or the heuristic. Two forms are an answer and a defense, or a resubmission
beside a new form; two problems are what "the next one" needs; one crash meets every
pair of appends; three threads in two processes are the smallest set with both a shared
and a foreign connection. One session suffices for `SqliteLog`: sessions share only the
locks, and the theorems cover any number of them.

`ScoringWorker`: two callers of the same two jobs meet at the lock, and two lifespans
give the second start an old thread that is still draining; more jobs only lengthen
the queue. `ModelRouter`: the numbers of attempts are the code's; times are ticks with
the tiers and budgets in the code's order (2.5 s < 6 s < 8 s < 15 s), so a budget is
longer than the cheaper timeouts and shorter than the top one; `MaxReads` is two, a
first chunk and another. `VoiceTurn`: two sockets are a client that came back before its
old socket was noticed; one chunk of audio tells "none" from "some"; one turn loses an
append. `Evaluation`: five problems with one exchange that undoes another, two
judgements (one without confidence and not on the grid of a score, one out of range), and
overrides with and without references, on that grid and off it.

`live` has two sets of initial states, because the whole of a two-problem session with
forms for both is beyond what TLC can check for liveness in minutes: a fresh session with
one form, in which the turns are reviewed, and a session whose problems are both closed,
the first one scored but not recorded so and the second one queued (`BothClosed`, a state
`interview` passes through), in which the scoring of both must come to an end over a crash.
`ResultArrives` starts where the last problem is closed: before that, a session may end
only by finding 1, and a promise that counted on it would count on the fault.

Symmetry is used where the elements play the same part: the two requests of
`concurrent`, the two forms of `interview`, which carry the same; never in a run of a
liveness property.

Deadlock is checked where nothing may stop: a page can always be opened, an `append`
always returns, a result can always be viewed. It is not checked where the system
ends: a question to the model (`router`), a server that is not started again
(`worker`), a client that does not open another socket (`voice`, `voice_switch`).

Fairness. `SqliteLog!FairSpec` has weak fairness of the statements inside a
transaction: nothing they wait for can block for ever. It does not ask that a
waiting thread gets the lock. `InterviewSession!FairSpec` has weak fairness of a
request in progress and of the scoring thread (both are threads the operating
system schedules), and strong fairness of `Get`: a candidate who keeps opening the
page succeeds in doing so, however many forms are posted in between. Nothing is
assumed of the examiner, of `Post`, or of crashes. `ScoringWorker!FairSpec` has weak
fairness of the scoring threads and of a caller between lock and queue, as threads are
scheduled; the scorer's call ends by the router's deadline or its providers' timeouts.
Nobody has to enqueue, start or stop. `VoiceTurn!FairSpec` has weak fairness of the
handler of an open socket: the event loop runs it, and recognition, model and synthesis
answer or time out within limits of their own. The client owes nothing.

## Findings

1. `end_early`. `_async_scoring_ready` looks at the problems whose scoring has been
   requested so far. When the worker completes the first problem while the second
   is active, the next page view computes the score and appends `SessionEnded`.
   `core/invariants.md` ("End after last close") and the docstring of
   `core/problem_sequencer.py` exclude this.
2. `opener_lost`. `ProblemIntroduced` and the opener's turn are two appends, and the
   second may lose its sequence number to the scoring thread. The next page view
   sees an active problem whose last turn is the candidate's (of the problem
   before) and has the examiner probe or close it: the opener is missing when the
   probe comes. `core/invariants.md` says both happen "in the same step".
3. `voice_switch`. The docstring of `ClientModeSwitch` says a switch to text cancels the
   current voice turn. The reader only ends the audio and closes the socket; the turn
   goes on with what was heard, which is posted as the candidate's answer.

## Proofs

`SqliteLogProofs`, for any sets of threads, processes, sessions, keys and sequence
numbers:

* `Invariance`: the inductive invariant `IInv`. The properties are not inductive by
  themselves: that a check is still true at the insert needs to know that nobody
  else can commit in between, that is, who holds which lock at which statement
  (`LocksInv`).
* `TypeCorrect`, `ChecksHold`, `Uniqueness` (one event per key), `SeqUniqueness` (one per
  sequence number) and `OneTransactionPerConnection` follow from it; `AppendOnly` is
  the action property that rows are only added, behind all of their session.
* `Refinement`: `Spec => Linearizable`. The mapping is the identity on the table and the
  callers' calls and answers; `Commit`, the refusals and the hit of `LookupKey` are
  the instant of the contract's append, every other statement a stutter.

Assumptions: `None` is no thread, envelope or answer, `NoKey` no key, the two
exceptions are no envelopes, sequence numbers are positive, and each thread runs in
one process.

`InterviewSessionProofs`, for any forms, plans, target dimensions, caps and crashes.
Every proof about a step has the same first half: a step leaves the log alone, or
appends one event that a request or the scoring thread has planned (`NextCases`), and
`SessionLogProofs` says what that does to each reader of the log. For any number of
concurrent requests:

* `NothingIsStoredTwice` (`RecordedOnce`): no two events of the log say the same, runs and
  their outputs, which have no key, excepted. What is stored came through `IdemAppend`
  (`LogStep`), so it remains to show that events of the same name have the same key: of a
  form, whatever kind its turn was when it was sent, of a probe, whoever asks for it, of a
  result, whoever scores it (`RecordsOnce`). `Once` adds the one event without a key that
  is not a run's, the start of the session, which nobody appends again (`StartsNothing`).
* `Types` (`TypeOK`): the state's types, which say what each step of a handler may have
  planned; the other proofs rest on it.
* `CompletionsAreReported` (`CompletedMeansScored`): whatever the thread still has to
  append, each completion in it has the results of its job before it or in the log
  (`WillReport` in `CompletionInv`), so that the thread may lose races and die anywhere.
* `PastIsCited` (`EventsCiteThePast`), the rule "Referential" of `core/invariants.md` for all
  events: whoever replays a prefix of the log finds in it what its events refer to. `CiteInv`
  says so of the log and of what every author has left to append: each event there refers
  to the log or to what its author appends before it (`Cited`). A refused append is
  therefore harmless only because the rest of its script is dropped with it, and an event
  whose key is found because another author has stored the same one counts as stored. What a
  request carries from one step to the next must be in the log already: the form under
  review, the artifacts handed to the scorer, and (`SequencerInv`) the problem being closed;
  a job on the queue cites its request, also when it is taken up again from the log.
* `OneAtATime` (`OneProblemAtATime`): `SequencerInv` says that a log has at most one
  problem active and that a task introduces only what its author may still introduce:
  the first fresh problem, or one that somebody else has introduced meanwhile, whose key
  it will find.

With one request at a time (`OneRequest`: any two members of `Handlers` are the same), the
deployment the README of the repository documents. With two, TLC finds each of these
properties violated (two handlers in the configurations above and a second form suffice), as
the hazards note: a request appends what it decided on a log that the other has extended
since.

* `CodeIsRunOnce` (`CodeRunOnce`): a run that is planned has no outcome in the log and is
  the next append (`CodeInv`). `NothingAfterEnd` (`QuietAfterEnd`): once the session has
  ended or a request is about to end it, the plan is settled and nothing else is planned
  (`EndInv`). `ProbesAreCapped` (`ProbeCap`): a planned probe has room under the cap
  (`CapInv`). `RequestsAreComplete` (`RequestIsComplete`): the artifacts a task carries are
  all there are until the problem is closed, and afterwards none are added (`RequestInv`);
  that the code, reading the log backwards from the introduction, finds them all needs that
  a problem is introduced once.
* `ScoresAreBacked` (`ScoreNeedsSignals`), for sessions scored on the dimensions of all
  their problems (`AllDimsScored`, which is how `create_app` configures them): one of the
  two ways to the score counts completions; the other counts artifacts with signals, and is
  right only because a signal cites the artifacts of its own problem (`SourceInv`).

`ScoringWorkerProofs`, for any jobs, callers, threads and numbers of results and
restarts:

* `Inductive`: `OnePlace` as it stands is nearly inductive; the strengthening adds types
  and that only the current thread can be alive (`OneThread`), without which two threads
  could take jobs at once.
* `Accounted` (`OnePlace`) and `Refinement` (`ServiceSpec`): `Claim`, `Get`, the append of
  the completion and the death of a thread are the service's four steps, everything else
  a stutter. `OneThread` gives "one job at a time".
* `Drained` (`StopDrains`): while a stop is under way its sentinel stands in the queue behind
  everything that was due, or the thread has met it (`Draining`); and no run starts with a
  sentinel in its queue unless `leftover` says so (`DrainInv`).

`ModelRouterProofs`, for any timeouts, budgets, retries, pauses and providers:

* `Bounded` (`RequestsBounded`): the invariant accounts for what a call has cost.
  Earlier rounds cost at most their bound; within a round, an attempt in progress stands
  for at most the attempts before it, the tries of this one, and the steps of the chain
  below the tier it began with; the chain starts once, since nothing leads from it back
  to an attempt.
* `Explanation` (`OutcomeExplained`) and `NoPlaceholder` (`OnlyAnswersUsed`), from the
  same invariant, which knows at each step which failures can be in hand.
* `InGoodTime` (`Punctual`): `Timely` adds the clock. Before a request the time is within the
  deadline, or past it by a sleep that began in time, and then no request follows; a
  request begun within the deadline was given what is left of it, for every operation of
  its socket and every try of the provider. The property counts from the moment the agent
  asks, over both rounds of the challenger, each with a budget of its own, and says "or": a
  sleep too many and a request that overruns never add up. The bound is what the code keeps,
  several times what an agent passes as its deadline; no document promises less.

`ProblemSelectionProofs`, for any bank, targets, profile and plan size:

* The ranking is a bijection of the bank: `Before` is a strict total order, so the
  numbers of problems ahead are different and hence all of `0 .. BankSize - 1`.
* `PlansPay` (`ExchangesPay`): each exchange adds at least one dimension and at most one
  problem from outside the preferred ones. `PlansSettle` (`NoExchangeLeft`): plan and rest
  are the whole bank, so a plan returned for want of exchanges has none over the bank.

`VoiceTurnProofs`, for any sockets, stages, turns, audio chunks and refused appends:

* `Agreement`: the inductive invariant. Each turn stands at a step that says what of it
  was shown and what the log must hold of it (`Stands`): no examiner's turn until the
  `finally` of the audio generator, the candidate's turn and its transcript before it,
  and afterwards the examiner's turn or a lost event. A step appends events of one turn
  only (`Extends`), so every other turn keeps its agreement; and a number of a socket's
  turn is new to the log when the turn begins (`Begun`), without which a later turn could
  find an earlier one's reply.
* `OneReplyPerTurn` (`RepliesInOrder`) and `LogMatchesScreen` (`ShownIsRecorded`) follow
  from it. The bounds may be any numbers.
* `CompleteTurns` (`GoodbyeMeansComplete`) and `StagesFollow` (`StageIsCurrent`): a second
  inductive invariant (`Told`) says at each step which events of the turn the log has
  exactly once and which not at all, what was sounded, and that the stage the turn holds is
  the one its first event has in the log.

`EvaluationProofs`, for any rubric, judgements, overrides, problems and crashes:

* Sums: the aggregator's sums are folds over finite sets of any size. Induction by a theorem
  with an operator parameter is out of reach, but a least counterexample is not: a failing
  set of smallest size exists (`LeastNumber`, `SmallestSubset`), and taking from it the
  element the fold takes next contradicts it. So a sum exists and is built element by element
  (`SumIsStepwise`), and is between the least and the greatest value times the total weight
  (`SumAtLeast`, `SumAtMost`); rounded, it is between those values rounded (`RoundedNear`,
  `MeanBetween`).
* `PlansPayInSession` and `PlansSettleInSession`: the theorems of `ProblemSelectionProofs` hold
  of `Evaluation`, whose steps are the selection's until the plan is stored (`Selected`).
* `ScoresAreBounded` (`ScoreWithinEvidence`): a score is sound when computed
  (`ScoreIsSound`), it may wait in a request before it is stored (`Backed`), and signals are
  only added. A composite of dimensions that all weigh nothing is 0 in the code, so the
  property speaks of composites with weight.
* `ScoresAreFinal` (`FinalScoreIsFull`): from the first final score on scoring is complete and
  the only new signals are overrides, each of which aggregates again before its request ends
  (`Full`). `ReviewersPrevail` (`ReviewerPrevails`): every score since an answered override
  counts reviewers only in its dimension (`Heard`). It is proved for rubrics in which one
  signal suffices for a dimension (`OneSignalSuffices`), as in every rubric of the
  repository: with a higher minimum an override may leave its dimension without a score.

Assumptions of these are the named ones of the modules: the values for "nothing" are
none of the others, bounds are naturals, a target set is finite and not empty, a stream
has no budget, a plan is a sequence of problems and a problem's target dimensions one of
dimensions, weights are naturals, an override is of a dimension of the rubric with a value
within the scale.

Every safety property that a passing run checks is thereby a theorem. Model-checked only
are the liveness properties (`ResultArrives`, `EveryAnswerReviewed`, `LocksReleased`,
`JobsFinish`, `SocketsClose`): fairness and ENABLED are beyond the proof system. Of the
hypotheses, `OneRequest`, `AllDimsScored` and `OneSignalSuffices` hold in the runs that check
the properties they are used for.

## Not modelled, and the plan

What is left to prove: with several requests at a time, what remains of the five properties
proved for one (`RecordedOnce`, `OneProblemAtATime`, `CompletedMeansScored` and
`EventsCiteThePast` need no such hypothesis).

Not modelled, and why:

* `create_session`: three appends around an upload, before anything else can touch the
  session; `InterviewSession` begins after it. Its hazard is listed.
* The break offer: one observation appended once, after more candidate turns than the
  bounds allow; nothing reads it but the page that shows it.
* The legacy stage driver and synchronous scoring (`_do_scoring`): sessions without
  planned problems or without a worker, which only tests and tools create.
* `core/coverage.py`: its result goes into the examiner's prompt and into observations.
* `static/voice.js`: browser code; `VoiceTurn` lets sockets reach the server in any order.
* Providers and parsing (network and text), templates, the probe stream (read-only),
  intake and packs (files read once), reports and demos, counters and sleeps.
