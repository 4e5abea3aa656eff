------------------------ MODULE InterviewSessionProofs ------------------------
(***************************************************************************)
(* What holds of a session's log for any number of forms, problems,        *)
(* probes and crashes.                                                     *)
(*                                                                         *)
(* For any number of concurrent requests: every step of every author       *)
(* leaves the log alone or appends one event through IdemAppend (lemma     *)
(* LogStep), which keeps keys unique; the handlers' keys (Key) tell their  *)
(* events apart (KeyNames), so that nothing is stored twice                *)
(* (NothingIsStoredTwice); the state keeps its types (Types), what is      *)
(* requested of the scoring thread is reported (CompletionsAreReported), a *)
(* task of the sequencer stores only what the log it has read allows       *)
(* (SequencerInv), which a second request that comes between cannot undo   *)
(* (OneAtATime), and events refer to earlier ones (PastIsCited).           *)
(*                                                                         *)
(* With one request at a time (OneRequest), what a request has read is     *)
(* what it decides on: a session's end, its probes and its code results    *)
(* follow (the theorems after OneRequestCases).                            *)
(***************************************************************************)
EXTENDS InterviewSession, SessionLogProofs, SequenceTheorems, TLAPS

IsLog(L) == \E S : L \in Seq(S)

UniqueKeys(L) ==
  \A i, j \in DOMAIN L : i # j /\ SameKey(L[i], L[j]) => Keyless(L[i])

IInv == IsLog(log) /\ UniqueKeys(log)

\* The idempotent append of SqliteEventLog keeps keys unique.
LEMMA AppendKeepsKeys ==
  ASSUME NEW L, NEW e, IsLog(L), UniqueKeys(L)
  PROVE  IsLog(IdemAppend(L, e)) /\ UniqueKeys(IdemAppend(L, e))
<1>1. PICK S : L \in Seq(S)
  BY DEF IsLog
<1>2. CASE IdemAppend(L, e) = L
  BY <1>2
<1>3. CASE IdemAppend(L, e) = Append(L, e)
  <2> DEFINE M == Append(L, e)
             T == S \cup {e}
  <2>1. L \in Seq(T)
    <3>1. \A i \in 1 .. Len(L) : L[i] \in T
      BY <1>1
    <3> QED
      BY <1>1, <3>1
  <2>2. /\ M \in Seq(T)
        /\ Len(M) = Len(L) + 1
        /\ DOMAIN M = 1 .. Len(L) + 1
        /\ DOMAIN L = 1 .. Len(L)
        /\ \A i \in 1 .. Len(L) : M[i] = L[i]
        /\ M[Len(L) + 1] = e
    BY <2>1
  <2>3. SUFFICES ASSUME NEW i \in DOMAIN M, NEW j \in DOMAIN M, i # j,
                        SameKey(M[i], M[j])
                 PROVE  Keyless(M[i])
    BY <1>3, <2>2 DEF IsLog, UniqueKeys
  <2>4. CASE i \in DOMAIN L /\ j \in DOMAIN L
    BY <2>2, <2>3, <2>4 DEF UniqueKeys
  <2>5. CASE ~ (i \in DOMAIN L /\ j \in DOMAIN L)
    <3>1. \E k \in DOMAIN L : SameKey(L[k], e)
      BY <2>2, <2>3, <2>5 DEF SameKey
    <3>2. Keyless(e)
      <4>1. Len(L) \in Nat
        BY <1>1
      <4>2. Len(M) = Len(L) + 1
        BY <2>2
      <4>3. M # L
        <5> HIDE DEF M
        <5> QED BY <4>1, <4>2
      <4>4. IdemAppend(L, e) # L
        BY <1>3, <4>3
      <4> QED
        BY <3>1, <4>4 DEF IdemAppend
    <3> QED
      BY <2>2, <2>3, <2>5, <3>2 DEF SameKey, Keyless
  <2> QED
    BY <2>4, <2>5
<1> QED
  BY <1>2, <1>3 DEF IdemAppend

\* A session starts with one event.
LEMMA InitIInv == Init => IInv
<1> SUFFICES ASSUME Init PROVE IInv
  OBVIOUS
<1> DEFINE start == Event("SessionStarted", "start")
<1>1. log = <<start>>
  BY DEF Init
<1>2. log \in Seq({start}) /\ DOMAIN log = {1}
  BY <1>1
<1> QED
  BY <1>2 DEF IInv, IsLog, UniqueKeys

\* Every step leaves the log as it is or appends one event idempotently.
LEMMA LogStep ==
  ASSUME [Next]_vars
  PROVE  log' = log \/ \E e : log' = IdemAppend(log, e)
<1>1. CASE UNCHANGED vars
  BY <1>1 DEF vars
<1>2. ASSUME NEW h \in Handlers, AppendNext(h)
      PROVE  log' = log \/ \E e : log' = IdemAppend(log, e)
  BY <1>2 DEF AppendNext, Store, Lose
<1>3. ASSUME NEW h \in Handlers, NEW step, Decides(h, step)
      PROVE  log' = log
  BY <1>3 DEF Decides
<1>4. ASSUME NEW h \in Handlers, Get(h) \/ \E n \in Nonces : Post(h, n)
      PROVE  log' = log
  BY <1>3, <1>4 DEF Get, Post
<1>5. ASSUME NEW h \in Handlers, Drives(h)
      PROVE  log' = log
  BY <1>3, <1>5 DEF Drives
<1>6. ASSUME NEW h \in Handlers,
             SelectPlan(h) \/ FinishScoring(h) \/ IntroduceNext(h) \/ AskExaminer(h)
               \/ Execute(h) \/ Challenge(h) \/ GiveUp(h) \/ Aggregate(h) \/ Respond(h)
      PROVE  log' = log
  BY <1>3, <1>5, <1>6
     DEF SelectPlan, FinishScoring, IntroduceNext, AskExaminer, Execute, Challenge,
         GiveUp, Aggregate, Respond, Dispatches
<1>7. ASSUME NEW h \in Handlers,
             Observe(h) \/ Examine(h) \/ Review(h) \/ Close(h) \/ Request(h) \/ Enqueue(h)
      PROVE  log' = log
  BY <1>3, <1>7 DEF Observe, Examine, Review, Close, Request, Enqueue
<1>8. CASE WorkerAppend
  BY <1>8 DEF WorkerAppend, Store, Lose
<1>9. CASE Score \/ Crash
  BY <1>9 DEF Score, Crash
<1> QED
  BY <1>1, <1>2, <1>4, <1>6, <1>7, <1>8, <1>9 DEF Next, Step

\* For every number of concurrent requests, forms, problems, probes and crashes,
\* an idempotency key marks one event of the log only.
LEMMA KeysUnique == Spec => []UniqueKeys(log)
<1>1. IInv /\ [Next]_vars => IInv'
  <2> SUFFICES ASSUME IInv, [Next]_vars PROVE IInv'
    OBVIOUS
  <2>1. CASE log' = log
    BY <2>1 DEF IInv, IsLog, UniqueKeys
  <2>2. CASE \E e : log' = IdemAppend(log, e)
    <3>1. PICK e : log' = IdemAppend(log, e)
      BY <2>2
    <3>2. IsLog(IdemAppend(log, e)) /\ UniqueKeys(IdemAppend(log, e))
      BY AppendKeepsKeys DEF IInv
    <3> QED
      BY <3>1, <3>2 DEF IInv
  <2> QED
    BY <2>1, <2>2, LogStep
<1>2. IInv => UniqueKeys(log)
  BY DEF IInv
<1> QED
  BY InitIInv, <1>1, <1>2, PTL DEF Spec

-----------------------------------------------------------------------------
(* What events and requests are made of. *)

\* The events a request appends, by type.
LEMMA HandlerEventFacts ==
  ASSUME NEW e \in HandlerEvents
  PROVE  /\ e.type \in {"SessionStarted", "ProblemPlanSelected", "ScoreComputed", "SessionEnded",
                        "Observed", "ProblemIntroduced", "ProblemClosed", "RuntimeExecuted",
                        "RuntimeFailed", "TurnPosted", "ArtifactAttached", "ScoringRequested"}
         /\ e.type \in {"ProblemIntroduced", "ProblemClosed"} => e.id \in Problems
         /\ e.type \in {"RuntimeExecuted", "RuntimeFailed"} => e.id \in Nonces
         /\ e.type = "ScoringRequested" => e.id \in Problems /\ e.artifacts \subseteq ArtifactIds
         /\ e.type = "ProblemPlanSelected" => e.id = "plan"
         /\ e.type = "ScoreComputed" => e.id = "score"
         /\ e.type = "SessionEnded" => e.id = "scored"
         /\ e.type = "ArtifactAttached" =>
              e.kind \in Kinds /\ e.turn \in Nonces /\ e.id = <<e.kind, e.turn>>
         /\ e.type = "TurnPosted" =>
              \/ e.actor = "candidate" /\ e.id \in Nonces /\ e.kind \in {"answer", "defense"}
              \/ e.actor = "examiner" /\ e.kind = "probe" /\ \E n \in Nonces \cup {None} : e.id = ProbeAfter(n)
              \/ e.actor = "challenger" /\ e.kind = "question" /\ \E p \in Problems : e.id = Opener(p)
BY DEF HandlerEvents, Event, Turn, Artifact, ScoringRequest, Observation

\* The events the scoring thread appends.
LEMMA WorkerEventFacts ==
  ASSUME NEW e \in WorkerEvents
  PROVE  /\ e.type \in {"ScoringCompleted", "SignalEmitted", "ScorerFailed"}
         /\ e.type = "ScoringCompleted" => e.id \in Problems
         /\ e.type \in {"SignalEmitted", "ScorerFailed"} =>
              e.id[1] \in Problems /\ e.dim \in Dims /\ e.dim = e.id[2]
         /\ e.type = "SignalEmitted" => e.refs \subseteq ArtifactIds
BY DEF WorkerEvents, Event, Signal, ScorerFailure

\* What an event of a type is keyed by.
LEMMA KeyFacts ==
  ASSUME NEW e \in HandlerEvents \cup WorkerEvents
  PROVE  /\ e.type = "TurnPosted" =>
              \/ e.actor = "candidate" /\ e.id \in Nonces /\ Key(e) = <<"nonce", e.id>>
              \/ /\ e.actor = "examiner"
                 /\ \E n \in Nonces \cup {None} : e.id = ProbeAfter(n) /\ Key(e) = <<"probe-after", n>>
              \/ /\ e.actor = "challenger"
                 /\ \E p \in Problems : e.id = Opener(p) /\ Key(e) = <<"problem-opener-turn", p>>
         /\ e.type = "ArtifactAttached" =>
              /\ e.id = <<e.kind, e.turn>>
              /\ \/ e.kind = "markdown" /\ Key(e) = <<"nonce-answer", e.turn>>
                 \/ e.kind = "code_cell" /\ Key(e) = <<"nonce-code", e.turn>>
                 \/ e.kind = "cell_output" /\ Key(e) = <<>>
         /\ e.type = "ProblemPlanSelected" => e.id = "plan" /\ Key(e) = <<"problem-plan-selected">>
         /\ e.type = "ScoreComputed" => e.id = "score" /\ Key(e) = <<"score-computed">>
         /\ e.type = "ProblemIntroduced" => Key(e) = <<"problem-introduced", e.id>>
         /\ e.type = "ProblemClosed" => Key(e) = <<"problem-closed", e.id>>
         /\ e.type = "ScoringRequested" => Key(e) = <<"scoring-requested", e.id>>
         /\ e.type = "SignalEmitted" => Key(e) = <<"scoring-signal", e.id>>
         /\ e.type = "ScorerFailed" => Key(e) = <<"scoring-failed", e.id>>
         /\ e.type = "ScoringCompleted" => Key(e) = <<"scoring-completed", e.id>>
         /\ e.type = "SessionEnded" => Key(e) = <<"session-ended", e.id>>
         /\ e.type \in {"SessionStarted", "Observed", "RuntimeExecuted", "RuntimeFailed"} => Key(e) = <<>>
         /\ e.type \in {"SessionStarted", "Observed", "RuntimeExecuted", "RuntimeFailed", "TurnPosted",
                        "ArtifactAttached", "ProblemPlanSelected", "ScoreComputed", "ProblemIntroduced",
                        "ProblemClosed", "ScoringRequested", "SignalEmitted", "ScorerFailed",
                        "ScoringCompleted", "SessionEnded"}
<1>1. /\ e.type \in {"SessionStarted", "ProblemPlanSelected", "ScoreComputed", "SessionEnded",
                     "Observed", "ProblemIntroduced", "ProblemClosed", "RuntimeExecuted",
                     "RuntimeFailed", "TurnPosted", "ArtifactAttached", "ScoringRequested",
                     "ScoringCompleted", "SignalEmitted", "ScorerFailed"}
      /\ e.type \notin {"ScoringCompleted", "SignalEmitted", "ScorerFailed"} => e \in HandlerEvents
  BY HandlerEventFacts, WorkerEventFacts
<1>2. CASE e.type = "TurnPosted"
  <2>1. Key(e) = TurnKey(e)
    BY <1>2 DEF Key
  <2>2. CASE e.actor = "candidate" /\ e.id \in Nonces
    BY <1>2, <2>1, <2>2 DEF TurnKey
  <2>3. CASE e.actor = "examiner" /\ \E n \in Nonces \cup {None} : e.id = ProbeAfter(n)
    <3>1. PICK n \in Nonces \cup {None} : e.id = ProbeAfter(n)
      BY <2>3
    <3>2. Key(e) = <<"probe-after", n>>
      BY <2>1, <2>3, <3>1 DEF TurnKey, ProbeAfter
    <3> QED
      BY <1>2, <2>3, <3>1, <3>2
  <2>4. CASE e.actor = "challenger" /\ \E p \in Problems : e.id = Opener(p)
    <3>1. PICK p \in Problems : e.id = Opener(p)
      BY <2>4
    <3>2. Key(e) = <<"problem-opener-turn", p>>
      BY <2>1, <2>4, <3>1 DEF TurnKey, Opener
    <3> QED
      BY <1>2, <2>4, <3>1, <3>2
  <2> QED
    BY <1>1, <1>2, <2>2, <2>3, <2>4, HandlerEventFacts
<1>3. CASE e.type = "ArtifactAttached"
  <2>1. Key(e) = ArtifactKey(e) /\ e.kind \in Kinds /\ e.id = <<e.kind, e.turn>>
    BY <1>1, <1>3, HandlerEventFacts DEF Key
  <2> QED
    BY <1>3, <2>1 DEF ArtifactKey, Kinds
<1>4. CASE e.type \notin {"TurnPosted", "ArtifactAttached"}
  <2>1. /\ e.type = "ProblemPlanSelected" => e.id = "plan"
        /\ e.type = "ScoreComputed" => e.id = "score"
    BY <1>1, HandlerEventFacts
  <2> QED
    BY <1>1, <1>4, <2>1 DEF Key
<1> QED
  BY <1>2, <1>3, <1>4

\* An event that has no key.
LEMMA KeylessFacts ==
  ASSUME NEW e \in HandlerEvents \cup WorkerEvents
  PROVE  Keyless(e) <=>
           \/ e.type \in {"SessionStarted", "Observed", "RuntimeExecuted", "RuntimeFailed"}
           \/ e.type = "ArtifactAttached" /\ e.kind = "cell_output"
<1>1. /\ \A x : <<x>> # <<>>
      /\ \A x, y : <<x, y>> # <<>>
  OBVIOUS
<1> QED
  BY <1>1, KeyFacts DEF Keyless

\* What tells two keys apart tells two events apart, and the other way round.
LEMMA KeyNames ==
  ASSUME NEW e \in HandlerEvents \cup WorkerEvents, NEW f \in HandlerEvents \cup WorkerEvents
  PROVE  /\ SameKey(e, f) /\ ~ Keyless(e) => e.type = f.type /\ e.id = f.id
         /\ e.type = f.type /\ e.id = f.id => SameKey(e, f)
<1>1. ASSUME SameKey(e, f), ~ Keyless(e) PROVE e.type = f.type /\ e.id = f.id
  <2>1. Key(e) = Key(f) /\ Key(e)[1] = Key(f)[1] /\ Key(e)[2] = Key(f)[2] /\ ~ Keyless(f)
    BY <1>1 DEF SameKey, Keyless
  <2>2. ASSUME NEW g \in HandlerEvents \cup WorkerEvents, ~ Keyless(g)
        PROVE  /\ g.type = "TurnPosted" => Key(g)[1] \in {"nonce", "probe-after", "problem-opener-turn"}
               /\ g.type = "ArtifactAttached" => Key(g)[1] \in {"nonce-answer", "nonce-code"}
               /\ g.type = "ProblemPlanSelected" => Key(g)[1] = "problem-plan-selected"
               /\ g.type = "ScoreComputed" => Key(g)[1] = "score-computed"
               /\ g.type = "ProblemIntroduced" => Key(g)[1] = "problem-introduced"
               /\ g.type = "ProblemClosed" => Key(g)[1] = "problem-closed"
               /\ g.type = "ScoringRequested" => Key(g)[1] = "scoring-requested"
               /\ g.type = "SignalEmitted" => Key(g)[1] = "scoring-signal"
               /\ g.type = "ScorerFailed" => Key(g)[1] = "scoring-failed"
               /\ g.type = "ScoringCompleted" => Key(g)[1] = "scoring-completed"
               /\ g.type = "SessionEnded" => Key(g)[1] = "session-ended"
               /\ g.type \in {"TurnPosted", "ArtifactAttached", "ProblemPlanSelected", "ScoreComputed",
                              "ProblemIntroduced", "ProblemClosed", "ScoringRequested", "SignalEmitted",
                              "ScorerFailed", "ScoringCompleted", "SessionEnded"}
    BY <2>2, KeyFacts, KeylessFacts
  <2>3. e.type = f.type
    BY <1>1, <2>1, <2>2
  <2>4. CASE e.type = "TurnPosted"
    BY <2>1, <2>3, <2>4, KeyFacts
  <2>5. CASE e.type = "ArtifactAttached"
    BY <2>1, <2>3, <2>5, KeyFacts, KeylessFacts
  <2>6. CASE e.type \notin {"TurnPosted", "ArtifactAttached"}
    BY <1>1, <2>1, <2>2, <2>3, <2>6, KeyFacts
  <2> QED
    BY <2>3, <2>4, <2>5, <2>6
<1>2. ASSUME e.type = f.type, e.id = f.id PROVE SameKey(e, f)
  <2>1. CASE e.type = "TurnPosted"
    <3>1. ASSUME NEW n \in Nonces \cup {None}, NEW p \in Problems
          PROVE  Opener(p) # ProbeAfter(n)
      BY <3>1 DEF Opener, ProbeAfter
    <3>2. /\ \A n, m : ProbeAfter(n) = ProbeAfter(m) => n = m
          /\ \A p, q : Opener(p) = Opener(q) => p = q
      BY DEF ProbeAfter, Opener
    <3>3. ASSUME NEW g \in HandlerEvents \cup WorkerEvents, g.type = "TurnPosted"
          PROVE  /\ \/ g.id \in Nonces
                    \/ \E n \in Nonces \cup {None} : g.id = ProbeAfter(n)
                    \/ \E p \in Problems : g.id = Opener(p)
                 /\ g.id \in Nonces => Key(g) = <<"nonce", g.id>>
                 /\ \A n \in Nonces \cup {None} : g.id = ProbeAfter(n) => Key(g) = <<"probe-after", n>>
                 /\ \A p \in Problems : g.id = Opener(p) => Key(g) = <<"problem-opener-turn", p>>
      <4>1. CASE g.id \in Nonces /\ Key(g) = <<"nonce", g.id>>
        <5>1. \A n \in Nonces \cup {None} : g.id # ProbeAfter(n)
          BY <4>1, FormsAssumption
        <5>2. \A p \in Problems : g.id # Opener(p)
          BY <4>1, FormsAssumption
        <5> QED
          BY <4>1, <5>1, <5>2
      <4>2. CASE \E n \in Nonces \cup {None} : g.id = ProbeAfter(n) /\ Key(g) = <<"probe-after", n>>
        <5>1. PICK n \in Nonces \cup {None} : g.id = ProbeAfter(n) /\ Key(g) = <<"probe-after", n>>
          BY <4>2
        <5>2. g.id \notin Nonces
          BY <5>1, FormsAssumption
        <5>4. \A p \in Problems : g.id # Opener(p)
          BY <3>1, <5>1
        <5>3. ASSUME NEW m, g.id = ProbeAfter(m) PROVE m = n
          <6>1. ProbeAfter(m) = ProbeAfter(n)
            BY <5>1, <5>3
          <6> QED
            BY <3>2, <6>1
        <5> QED
          BY <5>1, <5>2, <5>3, <5>4
      <4>3. CASE \E p \in Problems : g.id = Opener(p) /\ Key(g) = <<"problem-opener-turn", p>>
        <5>1. PICK p \in Problems : g.id = Opener(p) /\ Key(g) = <<"problem-opener-turn", p>>
          BY <4>3
        <5>2. g.id \notin Nonces
          BY <5>1, FormsAssumption
        <5>4. \A n \in Nonces \cup {None} : g.id # ProbeAfter(n)
          BY <3>1, <5>1
        <5>3. ASSUME NEW q, g.id = Opener(q) PROVE q = p
          <6>1. Opener(q) = Opener(p)
            BY <5>1, <5>3
          <6> QED
            BY <3>2, <6>1
        <5> QED
          BY <5>1, <5>2, <5>3, <5>4
      <4> QED
        BY <3>3, <4>1, <4>2, <4>3, KeyFacts
    <3>4. f.type = "TurnPosted"
      BY <1>2, <2>1
    <3>5. CASE e.id \in Nonces
      BY <1>2, <2>1, <3>3, <3>4, <3>5 DEF SameKey
    <3>6. CASE \E n \in Nonces \cup {None} : e.id = ProbeAfter(n)
      BY <1>2, <2>1, <3>3, <3>4, <3>6 DEF SameKey
    <3>7. CASE \E p \in Problems : e.id = Opener(p)
      BY <1>2, <2>1, <3>3, <3>4, <3>7 DEF SameKey
    <3> QED
      BY <2>1, <3>3, <3>5, <3>6, <3>7
  <2>2. CASE e.type = "ArtifactAttached"
    <3>1. e.id = <<e.kind, e.turn>> /\ f.id = <<f.kind, f.turn>>
      BY <1>2, <2>2, KeyFacts
    <3>2. e.kind = f.kind /\ e.turn = f.turn
      <4>1. <<e.kind, e.turn>> = <<f.kind, f.turn>>
        BY <1>2, <3>1, Zenon
      <4> QED
        BY <4>1
    <3> QED
      BY <1>2, <2>2, <3>2, KeyFacts DEF SameKey
  <2>3. CASE e.type \notin {"TurnPosted", "ArtifactAttached"}
    BY <1>2, <2>3, KeyFacts DEF SameKey
  <2> QED
    BY <2>1, <2>2, <2>3
<1> QED
  BY <1>1, <1>2

\* Each event the requests build is one of theirs.
LEMMA HandlerEventsAre ==
  /\ {Event("ProblemPlanSelected", "plan"), Event("ScoreComputed", "score"),
      Event("SessionEnded", "scored"), Observation} \subseteq HandlerEvents
  /\ \A p \in Problems : Event("ProblemIntroduced", p) \in HandlerEvents
                         /\ Event("ProblemClosed", p) \in HandlerEvents
                         /\ Turn(Opener(p), "challenger", "question") \in HandlerEvents
  /\ \A p \in Problems, arts \in SUBSET ArtifactIds : ScoringRequest(p, arts) \in HandlerEvents
  /\ \A n \in Nonces : Event("RuntimeExecuted", n) \in HandlerEvents
                       /\ Event("RuntimeFailed", n) \in HandlerEvents
  /\ \A n \in Nonces, kind \in {"answer", "defense"} : Turn(n, "candidate", kind) \in HandlerEvents
  /\ \A n \in Nonces, kind \in Kinds : Artifact(kind, n) \in HandlerEvents
  /\ \A n \in Nonces \cup {None} : Turn(ProbeAfter(n), "examiner", "probe") \in HandlerEvents
BY DEF HandlerEvents

\* Each event the scoring thread builds is one of its own.
LEMMA WorkerEventsAre ==
  /\ \A p \in Problems : Event("ScoringCompleted", p) \in WorkerEvents
  /\ \A p \in Problems, d \in Dims, src \in {"llm", "heuristic"}, refs \in SUBSET ArtifactIds :
       Signal(p, d, src, refs) \in WorkerEvents
  /\ \A p \in Problems, d \in Dims, why \in {"fallback", "raised"} :
       ScorerFailure(p, d, why) \in WorkerEvents
BY DEF WorkerEvents

\* A task that is not in the middle of something it cannot be.
WellFormed(k) ==
  /\ k \in Tasks
  /\ (k.at = "append") <=> (k.todo # <<>>)
  /\ {k.at, k.then} \cap {"close", "request", "enqueue"} # {} => k.p # None

\* k has s to append and goes on to step.
Doing(k, s, step) ==
  /\ k.todo = s
  /\ k.at = IF s = <<>> THEN step ELSE "append"
  /\ s # <<>> => k.then = step

SameLocals(k, l) == k.p = l.p /\ k.n = l.n /\ k.arts = l.arts

\* A task begins a step with its locals cleared.
LEMMA AtIs ==
  ASSUME NEW step \in Steps \ {"append", "close", "request", "enqueue"}
  PROVE  WellFormed(At(step)) /\ Doing(At(step), <<>>, step) /\ At(step).p = None
BY DEF WellFormed, Doing, At, AtWith, Tasks, Steps

\* Posting gives a task something to append before it goes on.
LEMMA PostingIs ==
  ASSUME NEW k, WellFormed(k), k.at # "append", NEW s \in Seq(HandlerEvents)
  PROVE  /\ WellFormed(Posting(s, k)) /\ Doing(Posting(s, k), s, k.at)
         /\ SameLocals(Posting(s, k), k)
<1>1. CASE s = <<>>
  BY <1>1 DEF Posting, WellFormed, Doing, SameLocals
<1>2. CASE s # <<>>
  <2> DEFINE q == [at |-> "append", todo |-> s, then |-> k.at, p |-> k.p, n |-> k.n, arts |-> k.arts]
  <2>1. Posting(s, k) = q
    BY <1>2 DEF Posting, WellFormed, Tasks
  <2>2. q \in Tasks
    BY DEF WellFormed, Tasks, Steps
  <2>3. q.p # None \/ k.at \notin {"close", "request", "enqueue"}
    BY DEF WellFormed
  <2> QED
    BY <1>2, <2>1, <2>2, <2>3 DEF WellFormed, Doing, SameLocals
<1> QED
  BY <1>1, <1>2

-----------------------------------------------------------------------------
(* What the readers return. *)

Events == HandlerEvents \cup WorkerEvents

\* An event of the log whose type is a request's is a request's event.
LEMMA RequestsEvents ==
  ASSUME NEW e \in Events, e.type \notin {"ScoringCompleted", "SignalEmitted", "ScorerFailed"}
  PROVE  e \in HandlerEvents
BY WorkerEventFacts DEF Events

\* Every introduced problem is one of the plan.
LEMMA IntroducedInPlan ==
  ASSUME NEW L \in Seq(Events), NEW i \in DOMAIN L,
         L[i].type \in {"ProblemIntroduced", "ProblemClosed", "ScoringRequested"}
  PROVE  L[i].id \in Problems /\ L[i].id # None
<1>1. L[i] \in HandlerEvents
  BY RequestsEvents
<1> QED
  BY <1>1, HandlerEventFacts, NoneAssumption

\* The problem a log says is current is one of the plan.
LEMMA CurrentInPlan ==
  ASSUME NEW L \in Seq(Events)
  PROVE  CurrentProblem(L) \in Problems \cup {None}
<1> DEFINE T == Positions(L, {"ProblemIntroduced"})
<1>1. T \subseteq 1 .. Len(L) /\ Len(L) \in Nat
  BY DEF Positions
<1>2. LastOf(T) # 0 => LastOf(T) \in T
  BY <1>1, LastOfSet
<1>3. LastOf(T) # 0 => L[LastOf(T)].id \in Problems
  BY <1>2, IntroducedInPlan DEF Positions
<1> QED
  BY <1>3 DEF CurrentProblem

\* The last turn of an actor, and the last of all.
LEMMA LastTurnFacts ==
  ASSUME NEW L \in Seq(Events), NEW actor
  PROVE  /\ TurnsOf(L, actor) \subseteq Positions(L, {"TurnPosted"})
         /\ TurnsOf(L, actor) # {} =>
              /\ LastOf(TurnsOf(L, actor)) \in TurnsOf(L, actor)
              /\ LastTurn(L) \in Positions(L, {"TurnPosted"}) /\ LastTurn(L) # 0
         /\ TurnsOf(L, actor) = {} => LastOf(TurnsOf(L, actor)) = 0
         /\ LastTurn(L) # 0 => LastTurn(L) \in Positions(L, {"TurnPosted"})
<1>1. /\ Positions(L, {"TurnPosted"}) \subseteq 1 .. Len(L) /\ Len(L) \in Nat
      /\ TurnsOf(L, actor) \subseteq Positions(L, {"TurnPosted"})
  BY DEF Positions, TurnsOf
<1>2. TurnsOf(L, actor) \subseteq 1 .. Len(L)
  BY <1>1
<1>3. 0 \notin Positions(L, {"TurnPosted"})
  BY <1>1
<1> QED
  BY <1>1, <1>2, <1>3, LastOfSet DEF LastTurn

\* A candidate's turn is identified by its form.
LEMMA CandidateTurnId ==
  ASSUME NEW L \in Seq(Events), NEW i \in Positions(L, {"TurnPosted"}), L[i].actor = "candidate"
  PROVE  L[i].id \in Nonces /\ L[i].kind \in {"answer", "defense"}
<1>1. L[i] \in HandlerEvents /\ L[i].type = "TurnPosted"
  BY RequestsEvents DEF Positions
<1> QED
  BY <1>1, HandlerEventFacts

\* The last candidate turn of a log is one of the forms.
LEMMA LastCandidateTurnIsForm ==
  ASSUME NEW L \in Seq(Events)
  PROVE  LastCandidateTurn(L) \in Nonces \cup {None}
<1> DEFINE T == TurnsOf(L, "candidate")
<1>1. LastOf(T) # 0 => LastOf(T) \in T
  BY LastTurnFacts
<1>2. LastOf(T) # 0 => L[LastOf(T)].id \in Nonces
  BY <1>1, CandidateTurnId DEF TurnsOf
<1> QED
  BY <1>2 DEF LastCandidateTurn

\* The first problem of the plan that is not introduced.
Foremost(L) == Plan[CHOOSE i \in Fresh(L) : \A j \in Fresh(L) : i <= j]

\* The first problem of the plan not yet introduced is not introduced.
LEMMA ForemostIsFresh ==
  ASSUME NEW L, Fresh(L) # {}
  PROVE  Foremost(L) \in Problems /\ Foremost(L) # None /\ ~ Introduced(L, Foremost(L))
<1>1. Fresh(L) \in SUBSET Nat
  BY PlanAssumption DEF Fresh
<1>2. \E i \in Fresh(L) : \A j \in Fresh(L) : i <= j
  BY <1>1, Least
<1> DEFINE first == CHOOSE i \in Fresh(L) : \A j \in Fresh(L) : i <= j
<1>3. first \in Fresh(L)
  BY <1>2
<1> HIDE DEF first
<1>4. Plan[first] \in Problems /\ ~ Introduced(L, Plan[first])
  BY <1>3 DEF Fresh, Problems
<1> QED
  BY <1>4, NoneAssumption DEF Foremost, first

\* The sequencer introduces the first fresh problem, and only while none is current.
LEMMA NextIsForemost ==
  ASSUME NEW L, NextToIntroduce(L) # None
  PROVE  /\ NextToIntroduce(L) = Foremost(L) /\ Fresh(L) # {} /\ CurrentProblem(L) = None
         /\ NextToIntroduce(L) \in Problems
<1>1. NextToIntroduce(L) = Foremost(L) /\ Fresh(L) # {} /\ CurrentProblem(L) = None
  BY DEF NextToIntroduce, Foremost
<1> QED
  BY <1>1, ForemostIsFresh

\* What the orchestrator's answers tell of the log.
LEMMA NextActionFacts ==
  ASSUME NEW L
  PROVE  /\ Ended(L) => NextAction(L) = "NoAction"
         /\ NextAction(L) = "RequestExecution" =>
              /\ ~ Ended(L) /\ ~ Scored(L) /\ Questions(L) # {} /\ CodeToRun(L)
         /\ NextAction(L) = "RequestAggregate" => ~ Ended(L) /\ ~ Scored(L) /\ Unscored(L) = {}
BY DEF NextAction

\* The code that is run is a candidate's turn's.
LEMMA CodeIsCandidates ==
  ASSUME NEW L \in Seq(Events), NextAction(L) = "RequestExecution"
  PROVE  L[LastTurn(L)].id \in Nonces /\ ~ HasRun(L, L[LastTurn(L)].id)
<1>1. Questions(L) # {} /\ CodeToRun(L)
  BY NextActionFacts
<1>2. LastTurn(L) \in Positions(L, {"TurnPosted"})
  BY <1>1, LastTurnFacts DEF Questions
<1> QED
  BY <1>1, <1>2, CandidateTurnId DEF CodeToRun

\* What the candidate handed in for a problem are ids of artifacts.
LEMMA ArtifactsAreIds ==
  ASSUME NEW L \in Seq(Events), NEW p
  PROVE  CandidateArtifacts(L, p) \subseteq ArtifactIds
<1>1. ASSUME NEW i \in Positions(L, {"ArtifactAttached"}) PROVE L[i].id \in ArtifactIds
  <2>1. L[i] \in HandlerEvents /\ L[i].type = "ArtifactAttached"
    BY RequestsEvents DEF Positions
  <2>2. L[i].kind \in Kinds /\ L[i].turn \in Nonces /\ L[i].id = <<L[i].kind, L[i].turn>>
    BY <2>1, HandlerEventFacts
  <2> QED
    BY <2>2 DEF ArtifactIds
<1> QED
  BY <1>1 DEF CandidateArtifacts

\* What the model cites is of the artifacts it was given.
LEMMA CitedAreGiven ==
  ASSUME NEW arts
  PROVE  Citations(arts) \subseteq SUBSET arts
BY DEF Citations

\* What Results returns: scorings that succeeded in part or whole, or the failure of all.
LEMMA ResultsAre ==
  ASSUME NEW job, NEW events \in Results(job)
  PROVE  \/ \E llm, more \in SUBSET DOMAIN TargetDims[job.p] :
             \E cited \in [llm -> SUBSET job.arts], s \in InOrder((DOMAIN TargetDims[job.p] \ llm) \cup more) :
               events = SignalsOf(job, cited) \o FailuresOf(job, s, "fallback")
         \/ events = RaisedOf(job)
<1> DEFINE at == DOMAIN TargetDims[job.p]
           citations == UNION {[llm -> Citations(job.arts)] : llm \in SUBSET at}
<1>1. Results(job) =
        {RaisedOf(job)} \cup
          UNION {Scorings(job, cited, more) : cited \in citations, more \in SUBSET at}
  BY DEF Results
<1>2. CASE events # RaisedOf(job)
  <2>1. PICK cited \in citations, more \in SUBSET at : events \in Scorings(job, cited, more)
    <3> HIDE DEF at, citations
    <3> QED
      BY <1>1, <1>2
  <2>2. PICK llm \in SUBSET at : cited \in [llm -> Citations(job.arts)]
    OBVIOUS
  <2>3. cited \in [llm -> SUBSET job.arts] /\ DOMAIN cited = llm
    BY <2>2, CitedAreGiven
  <2> HIDE DEF citations
  <2>4. PICK s \in InOrder((at \ llm) \cup more) :
           events = SignalsOf(job, cited) \o FailuresOf(job, s, "fallback")
    BY <2>1, <2>3 DEF Scorings
  <2> QED
    BY <2>2, <2>3, <2>4
<1> QED
  BY <1>2

\* The scoring thread's results are a sequence of its events.
LEMMA ResultsAreEvents ==
  ASSUME NEW job \in [p : Problems, arts : SUBSET ArtifactIds], NEW events \in Results(job)
  PROVE  events \in Seq(WorkerEvents)
<1> DEFINE dims == TargetDims[job.p]
           at == DOMAIN dims
<1>1. dims \in Seq(Dims) /\ at = 1 .. Len(dims) /\ Len(dims) \in Nat /\ \A i \in at : dims[i] \in Dims
  BY DimsAssumption
<1>2. job.p \in Problems /\ job.arts \in SUBSET ArtifactIds
  OBVIOUS
<1>3. ASSUME NEW llm, NEW cited \in [llm -> SUBSET job.arts]
      PROVE  SignalsOf(job, cited) \in Seq(WorkerEvents)
  <2> DEFINE signal(i) == IF i \in DOMAIN cited THEN Signal(job.p, dims[i], "llm", cited[i])
                          ELSE Signal(job.p, dims[i], "heuristic", job.arts)
  <2>1. ASSUME NEW i \in at PROVE signal(i) \in WorkerEvents
    <3>1. CASE i \in llm
      <4>1. cited[i] \in SUBSET ArtifactIds
        BY <1>2, <3>1
      <4> QED
        BY <1>1, <1>2, <3>1, <4>1, WorkerEventsAre
    <3>2. CASE i \notin llm
      BY <1>1, <1>2, <3>2, WorkerEventsAre
    <3> QED
      BY <3>1, <3>2
  <2>2. SignalsOf(job, cited) = [i \in at |-> signal(i)]
    BY DEF SignalsOf
  <2> HIDE DEF signal
  <2>3. at = 1 .. Len(dims) /\ Len(dims) \in Nat
    BY <1>1
  <2> HIDE DEF at, dims
  <2>4. [i \in 1 .. Len(dims) |-> signal(i)] \in Seq(WorkerEvents)
    BY <2>1, <2>3
  <2> QED
    BY <2>2, <2>3, <2>4
<1>4. RaisedOf(job) \in Seq(WorkerEvents)
  BY <1>1, <1>2, WorkerEventsAre DEF RaisedOf
<1>5. ASSUME NEW I \in SUBSET at, NEW s \in InOrder(I)
      PROVE  FailuresOf(job, s, "fallback") \in Seq(WorkerEvents)
  <2>1. Cardinality(I) \in Nat
    <3>1. I \subseteq 1 .. Len(dims) /\ Len(dims) \in Int
      BY <1>1
    <3> HIDE DEF dims, at
    <3>2. IsFiniteSet(1 .. Len(dims))
      BY <3>1, FS_Interval
    <3> QED
      BY <3>1, <3>2, FS_Subset, FS_CardinalityType
  <2>2. DOMAIN s = 1 .. Cardinality(I) /\ \A i \in DOMAIN s : s[i] \in at
    BY DEF InOrder
  <2>3. \A i \in DOMAIN s : ScorerFailure(job.p, dims[s[i]], "fallback") \in WorkerEvents
    BY <1>1, <1>2, <2>2, WorkerEventsAre
  <2> QED
    BY <2>1, <2>2, <2>3 DEF FailuresOf
<1>6. ASSUME NEW llm \in SUBSET at, NEW more \in SUBSET at, NEW cited \in [llm -> SUBSET job.arts],
             NEW s \in InOrder((at \ llm) \cup more),
             events = SignalsOf(job, cited) \o FailuresOf(job, s, "fallback")
      PROVE  events \in Seq(WorkerEvents)
  <2>1. (at \ llm) \cup more \in SUBSET at
    OBVIOUS
  <2>2. SignalsOf(job, cited) \in Seq(WorkerEvents) /\ FailuresOf(job, s, "fallback") \in Seq(WorkerEvents)
    BY <1>3, <1>5, <2>1
  <2>3. \A a, b \in Seq(WorkerEvents) : a \o b \in Seq(WorkerEvents)
    OBVIOUS
  <2> QED
    BY <1>6, <2>2, <2>3
<1> QED
  BY <1>4, <1>6, ResultsAre

-----------------------------------------------------------------------------
(* Short sequences. *)

\* An element before a sequence.
LEMMA Joined ==
  ASSUME NEW S, NEW a \in S, NEW s \in Seq(S), NEW u \in Seq(S), Len(u) = Len(s) + 1, u[1] = a,
         \A i \in 1 .. Len(s) : u[i + 1] = s[i]
  PROVE  <<a>> \o s = u
<1>1. <<a>> \in Seq(S) /\ Len(<<a>>) = 1 /\ <<a>>[1] = a
  OBVIOUS
<1>2. /\ <<a>> \o s \in Seq(S) /\ Len(<<a>> \o s) = Len(s) + 1
      /\ \A i \in 1 .. Len(s) + 1 : (<<a>> \o s)[i] = IF i <= 1 THEN <<a>>[i] ELSE s[i - 1]
  BY <1>1, ConcatProperties
<1>3. ASSUME NEW i \in 1 .. Len(u) PROVE (<<a>> \o s)[i] = u[i]
  <2>1. CASE i = 1
    BY <1>1, <1>2, <2>1
  <2>2. CASE i # 1
    <3>1. i - 1 \in 1 .. Len(s) /\ (i - 1) + 1 = i /\ i \in 1 .. Len(s) + 1 /\ ~ (i <= 1)
      BY <2>2
    <3> QED
      BY <1>2, <3>1
  <2> QED
    BY <2>1, <2>2
<1> QED
  BY <1>2, <1>3, SeqEqual

\* Short sequences put together.
LEMMA JoinedShort ==
  ASSUME NEW S, NEW a \in S, NEW b \in S, NEW c \in S
  PROVE  /\ <<>> \o <<a, b>> = <<a, b>>
         /\ <<a>> \o <<b>> = <<a, b>>
         /\ <<a>> \o <<b, c>> = <<a, b, c>>
<1>1. /\ <<b>> \in Seq(S) /\ Len(<<b>>) = 1 /\ <<b>>[1] = b
      /\ <<a, b>> \in Seq(S) /\ Len(<<a, b>>) = 2 /\ <<a, b>>[1] = a /\ <<a, b>>[2] = b
      /\ <<b, c>> \in Seq(S) /\ Len(<<b, c>>) = 2 /\ <<b, c>>[1] = b /\ <<b, c>>[2] = c
      /\ <<a, b, c>> \in Seq(S) /\ Len(<<a, b, c>>) = 3
      /\ <<a, b, c>>[1] = a /\ <<a, b, c>>[2] = b /\ <<a, b, c>>[3] = c
  OBVIOUS
<1> DEFINE s == <<b>>
           u == <<a, b>>
           t == <<b, c>>
           v == <<a, b, c>>
<1>2. <<>> \o u = u
  BY <1>1, ConcatEmptySeq
<1>3. <<a>> \o s = u
  <2>1. s \in Seq(S) /\ u \in Seq(S) /\ Len(u) = Len(s) + 1 /\ u[1] = a
        /\ \A i \in 1 .. Len(s) : u[i + 1] = s[i]
    BY <1>1
  <2> HIDE DEF s, u
  <2> QED
    BY <2>1, Joined
<1>4. <<a>> \o t = v
  <2>1. t \in Seq(S) /\ v \in Seq(S) /\ Len(v) = Len(t) + 1 /\ v[1] = a
        /\ \A i \in 1 .. Len(t) : v[i + 1] = t[i]
    BY <1>1
  <2> HIDE DEF t, v
  <2> QED
    BY <2>1, Joined
<1> QED
  BY <1>2, <1>3, <1>4

LEMMA SeenFirst ==
  ASSUME NEW S, NEW x \in S, NEW y \in S, NEW seen, seen = <<>> \/ seen = <<x>>
  PROVE  seen \o <<y, x>> = <<y, x>> \/ seen \o <<y, x>> = <<x, y, x>>
<1>1. CASE seen = <<>>
  BY <1>1, JoinedShort
<1>2. CASE seen = <<x>>
  BY <1>2, JoinedShort
<1> QED
  BY <1>1, <1>2

-----------------------------------------------------------------------------
(* What a request's step does to its task. *)

\* Nothing to append: the step of advance or of _do_probe that comes next.
Goes(t, k, L) ==
  /\ k.todo = <<>>
  /\ \/ k.at \in {"idle", "loop"}
     \/ /\ t.at = "loop" /\ k.at = "probe"
        /\ ~ AsyncScoringReady(L)
        /\ NeedsExaminer(L) \/ NextAction(L) = "RequestProbe"
     \/ t.at = "probe" /\ k.at = "examine" /\ k.p = CurrentProblem(L)
     \/ /\ t.at = "examine" /\ k.at = "review" /\ k.p = t.p
        /\ k.p # None => ~ (ProbeCount(L, k.p) >= MaxProbesPerProblem)
     \/ t.at \in {"examine", "review"} /\ k.at = "close" /\ k.p = t.p
     \/ /\ t.at = "close" /\ k.at = "request" /\ k.p = t.p
        /\ k.arts = CandidateArtifacts(L, t.p)

Posts(t, k, L) ==
  /\ t.at = "idle" /\ ~ Ended(L)
  /\ k.at = "append" /\ k.then = "idle"
  /\ \A i \in DOMAIN k.todo :
       \/ k.todo[i].type \in {"ArtifactAttached", "Observed"}
       \/ k.todo[i].type = "TurnPosted" /\ k.todo[i].actor = "candidate"

Plans(t, k, L) ==
  /\ t.at = "loop" /\ ~ Planned(L)
  /\ Doing(k, <<Event("ProblemPlanSelected", "plan")>>, "loop")

\* What _do_aggregate appends.
Closing == <<Event("ScoreComputed", "score"), Observation, Event("SessionEnded", "scored")>>

Aggregates(t, k, L) ==
  /\ t.at = "loop" /\ Planned(L)
  /\ \/ AsyncScoringReady(L)
     \/ NextToIntroduce(L) = None /\ ~ NeedsExaminer(L) /\ Unscored(L) = {}
  /\ Doing(k, Closing, "idle")

Opening(p) ==
  <<Event("ProblemIntroduced", p), Turn(Opener(p), "challenger", "question"), Observation>>

Introduces(t, k, L) ==
  /\ t.at = "loop" /\ ~ AsyncScoringReady(L)
  /\ \E p \in Problems :
       /\ \/ NextToIntroduce(L) # None /\ p = NextToIntroduce(L)
          \/ p = CurrentProblem(L) /\ ~ Ended(L)
       /\ Doing(k, Opening(p), "loop")

Runs(t, k, L) ==
  /\ t.at = "loop" /\ ~ Ended(L)
  /\ \E n \in Nonces :
       /\ ~ HasRun(L, n)
       /\ \/ Doing(k, <<Event("RuntimeExecuted", n), Artifact("cell_output", n)>>, "loop")
          \/ Doing(k, <<Event("RuntimeFailed", n)>>, "loop")

Covers(t, k, L) ==
  t.at = "probe" /\ k.p = CurrentProblem(L) /\ Doing(k, <<Observation>>, "examine")

Probes(t, k, L) ==
  /\ t.at = "review"
  /\ \E n \in Nonces \cup {None} :
       LET probe == Turn(ProbeAfter(n), "examiner", "probe")
       IN \/ Doing(k, <<probe, Observation>>, "loop")
          \/ Doing(k, <<Observation, probe, Observation>>, "loop")

Closes(t, k, L) ==
  LET arts == t.arts
      closed == Event("ProblemClosed", t.p)
  IN /\ t.at = "request" /\ t.p # None
     /\ \/ arts = {} /\ Doing(k, <<closed>>, "loop")
        \/ arts # {} /\ Doing(k, <<closed, ScoringRequest(t.p, arts)>>, "loop")
        \/ /\ arts # {} /\ Doing(k, <<closed, ScoringRequest(t.p, arts)>>, "enqueue")
           /\ k.p = t.p /\ k.arts = arts

Decision(t, k, L) ==
  \/ Goes(t, k, L) \/ Posts(t, k, L) \/ Plans(t, k, L) \/ Aggregates(t, k, L)
  \/ Introduces(t, k, L) \/ Runs(t, k, L) \/ Covers(t, k, L) \/ Probes(t, k, L)
  \/ Closes(t, k, L)

\* A decision of request h leaves everything but its task and the jobs alone.
Decides1(h, k) ==
  /\ WellFormed(k)
  /\ task' = [task EXCEPT ![h] = k]
  /\ UNCHANGED <<log, worker, stale, crashes>>
  /\ task[h].at # "append"
  /\ Decision(task[h], k, log)

\* The form's turn and artifacts.
LEMMA PostDecides ==
  ASSUME TypeOK, NEW h \in Handlers, NEW n \in Nonces, Post(h, n)
  PROVE  \E k : Decides1(h, k)
<1> DEFINE kind == IF ProbeAwaitsAnswer(log) THEN "defense" ELSE "answer"
           part(c) == IF c \in Body[n] THEN <<Artifact(c, n)>> ELSE <<>>
           s == <<Turn(n, "candidate", kind)>> \o part("markdown") \o part("code_cell") \o <<Observation>>
           own == {Turn(n, "candidate", kind), Artifact("markdown", n), Artifact("code_cell", n), Observation}
           k == Posting(s, Idle)
<1>1. own \subseteq HandlerEvents
  BY HandlerEventsAre DEF Kinds
<1>2. /\ <<Turn(n, "candidate", kind)>> \in Seq(own) /\ part("markdown") \in Seq(own)
      /\ part("code_cell") \in Seq(own) /\ <<Observation>> \in Seq(own)
  <2>1. \A e \in own : <<e>> \in Seq(own) /\ <<>> \in Seq(own)
    <3> HIDE DEF own
    <3> QED
      OBVIOUS
  <2> HIDE DEF kind
  <2>2. {Turn(n, "candidate", kind), Artifact("markdown", n), Artifact("code_cell", n), Observation} = own
    OBVIOUS
  <2> HIDE DEF own
  <2>3. Turn(n, "candidate", kind) \in own /\ Artifact("markdown", n) \in own
        /\ Artifact("code_cell", n) \in own /\ Observation \in own
    BY <2>2
  <2> QED
    BY <2>1, <2>3
<1>3. \A a, b \in Seq(own) : a \o b \in Seq(own)
  OBVIOUS
<1>4. \A a \in Seq(own) : a \o <<Observation>> # <<>>
  <2>1. SUFFICES ASSUME NEW a \in Seq(own), NEW b \in Seq(own), b # <<>>
                 PROVE  a \o b # <<>>
    BY <1>2
  <2> QED
    BY <2>1
<1>5. s \in Seq(own) /\ s # <<>>
  <2> HIDE DEF part, own, kind
  <2> QED
    BY <1>2, <1>3, <1>4
<1>6. s \in Seq(HandlerEvents)
  BY <1>1, <1>5
<1>7. WellFormed(Idle) /\ Idle.at = "idle"
  BY AtIs DEF Idle, Steps, Doing
<1>8. task' = [task EXCEPT ![h] = k] /\ task[h].at = "idle" /\ ~ Ended(log)
      /\ UNCHANGED <<log, worker, stale, crashes>>
  BY DEF Post, Decides, Become
<1>9. \A e \in own : \/ e.type \in {"ArtifactAttached", "Observed"}
                     \/ e.type = "TurnPosted" /\ e.actor = "candidate"
  BY DEF Turn, Artifact, Observation, Event
<1> HIDE DEF s, own
<1>10. WellFormed(k) /\ Doing(k, s, "idle")
  BY <1>6, <1>7, PostingIs
<1>11. \A i \in DOMAIN s : s[i] \in own
  BY <1>5
<1> HIDE DEF k
<1>12. Posts(task[h], k, log)
  BY <1>5, <1>8, <1>9, <1>10, <1>11 DEF Posts, Doing
<1> QED
  BY <1>8, <1>10, <1>12 DEF Decides1, Decision

\* A request that posts s from the top of a step and goes on there.
LEMMA ScriptIs ==
  ASSUME NEW step \in {"idle", "loop"}, NEW s \in Seq(HandlerEvents)
  PROVE  WellFormed(Posting(s, At(step))) /\ Doing(Posting(s, At(step)), s, step)
<1>1. WellFormed(At(step)) /\ At(step).at = step
  BY AtIs DEF Steps, Doing
<1> QED
  BY <1>1, PostingIs

\* The steps of advance that append.
LEMMA LoopPosts ==
  ASSUME TypeOK, NEW h \in Handlers,
         SelectPlan(h) \/ FinishScoring(h) \/ IntroduceNext(h) \/ Execute(h)
           \/ Challenge(h) \/ Aggregate(h)
  PROVE  \E k : Decides1(h, k)
<1>1. log \in Seq(Events)
  BY DEF TypeOK, Events
<1>2. ASSUME NEW s \in Seq(HandlerEvents), NEW step \in {"idle", "loop"},
             Become(h, Posting(s, At(step))), Decides(h, "loop"),
             \A k : Doing(k, s, step) => Decision(task[h], k, log)
      PROVE  \E k : Decides1(h, k)
  <2> DEFINE k == Posting(s, At(step))
  <2>1. WellFormed(k) /\ Doing(k, s, step)
    BY ScriptIs
  <2> HIDE DEF k
  <2>2. Decision(task[h], k, log)
    BY <1>2, <2>1
  <2>3. task' = [task EXCEPT ![h] = k]
    BY <1>2 DEF Become, k
  <2> QED
    BY <1>2, <2>1, <2>2, <2>3 DEF Decides1, Decides
<1>3. CASE SelectPlan(h)
  <2> DEFINE s == <<Event("ProblemPlanSelected", "plan")>>
  <2>1. s \in Seq(HandlerEvents)
    BY HandlerEventsAre
  <2>2. Become(h, Posting(s, At("loop"))) /\ Decides(h, "loop") /\ ~ Planned(log) /\ task[h].at = "loop"
    BY <1>3 DEF SelectPlan, Decides
  <2>3. \A k : Doing(k, s, "loop") => Decision(task[h], k, log)
    BY <2>2 DEF Decision, Plans
  <2> HIDE DEF s
  <2> QED
    BY <1>2, <2>1, <2>2, <2>3
<1>4. ASSUME Become(h, Aggregation), Decides(h, "loop"), Planned(log),
             AsyncScoringReady(log) \/ (NextToIntroduce(log) = None /\ ~ NeedsExaminer(log) /\ Unscored(log) = {})
      PROVE  \E k : Decides1(h, k)
  <2>1. Closing \in Seq(HandlerEvents)
    BY HandlerEventsAre DEF Closing
  <2>2. Become(h, Posting(Closing, At("idle")))
    BY <1>4 DEF Aggregation, Closing, Idle
  <2>3. \A k : Doing(k, Closing, "idle") => Decision(task[h], k, log)
    BY <1>4 DEF Decision, Aggregates, Decides
  <2> QED
    BY <1>2, <1>4, <2>1, <2>2, <2>3
<1>5. CASE FinishScoring(h)
  BY <1>4, <1>5 DEF FinishScoring
<1>6. CASE Aggregate(h)
  BY <1>4, <1>6, NextActionFacts DEF Aggregate, Dispatches, Drives
<1>7. ASSUME NEW p \in Problems, Become(h, Introduction(p)), Decides(h, "loop"), ~ AsyncScoringReady(log),
             \/ NextToIntroduce(log) # None /\ p = NextToIntroduce(log)
             \/ p = CurrentProblem(log) /\ ~ Ended(log)
      PROVE  \E k : Decides1(h, k)
  <2>1. Opening(p) \in Seq(HandlerEvents)
    BY HandlerEventsAre DEF Opening
  <2>2. Become(h, Posting(Opening(p), At("loop")))
    BY <1>7 DEF Introduction, Opening
  <2>3. \A k : Doing(k, Opening(p), "loop") => Decision(task[h], k, log)
    BY <1>7 DEF Decision, Introduces, Decides
  <2> QED
    BY <1>2, <1>7, <2>1, <2>2, <2>3
<1>8. CASE IntroduceNext(h)
  <2>1. NextToIntroduce(log) \in Problems
    BY <1>8, NextIsForemost DEF IntroduceNext
  <2> QED
    BY <1>7, <1>8, <2>1 DEF IntroduceNext, Drives
<1>9. CASE Challenge(h)
  <2>1. CurrentProblem(log) \in Problems
    BY <1>1, <1>9, CurrentInPlan DEF Challenge
  <2>2. ~ Ended(log)
    BY <1>9, NextActionFacts DEF Challenge, Dispatches
  <2> QED
    BY <1>7, <1>9, <2>1, <2>2 DEF Challenge, Dispatches, Drives
<1>10. CASE Execute(h)
  <2> DEFINE n == log[LastTurn(log)].id
             ran == <<Event("RuntimeExecuted", n), Artifact("cell_output", n)>>
             failed == <<Event("RuntimeFailed", n)>>
  <2>1. NextAction(log) = "RequestExecution" /\ Decides(h, "loop") /\ task[h].at = "loop"
    BY <1>10 DEF Execute, Dispatches, Drives, Decides
  <2>2. n \in Nonces /\ ~ HasRun(log, n) /\ ~ Ended(log)
    BY <1>1, <2>1, CodeIsCandidates, NextActionFacts
  <2>3. ran \in Seq(HandlerEvents) /\ failed \in Seq(HandlerEvents)
    <3> HIDE DEF n
    <3> QED
      BY <2>2, HandlerEventsAre DEF Kinds
  <2>4. PICK s \in {ran, failed} : Become(h, Posting(s, At("loop")))
    BY <1>10 DEF Execute
  <2>5. \A k : Doing(k, s, "loop") => Decision(task[h], k, log)
    <3> HIDE DEF n
    <3> QED
      BY <2>1, <2>2 DEF Decision, Runs
  <2> HIDE DEF ran, failed
  <2>6. s \in Seq(HandlerEvents)
    BY <2>3
  <2> QED
    BY <1>2, <2>1, <2>4, <2>5, <2>6
<1> QED
  BY <1>3, <1>5, <1>6, <1>8, <1>9, <1>10

\* The steps of advance that only go on or answer.
LEMMA LoopGoes ==
  ASSUME TypeOK, NEW h \in Handlers, Get(h) \/ AskExaminer(h) \/ GiveUp(h) \/ Respond(h)
  PROVE  \E k : Decides1(h, k)
<1>1. ASSUME NEW step \in {"idle", "loop", "probe"}, Become(h, At(step)), NEW at, Decides(h, at),
             at \in {"idle", "loop"}, Goes(task[h], At(step), log)
      PROVE  \E k : Decides1(h, k)
  <2>1. WellFormed(At(step))
    BY AtIs DEF Steps
  <2> QED
    BY <1>1, <2>1 DEF Decides1, Become, Decides, Decision
<1>2. \A step \in {"idle", "loop"} : Goes(task[h], At(step), log)
  BY DEF Goes, At, AtWith
<1>3. CASE Get(h)
  BY <1>1, <1>2, <1>3 DEF Get
<1>4. CASE GiveUp(h) \/ Respond(h)
  BY <1>1, <1>2, <1>4 DEF GiveUp, Respond, Dispatches, Drives, Idle
<1>5. CASE AskExaminer(h)
  <2>1. /\ Become(h, At("probe")) /\ Decides(h, "loop") /\ task[h].at = "loop"
        /\ ~ AsyncScoringReady(log) /\ (NeedsExaminer(log) \/ NextAction(log) = "RequestProbe")
    BY <1>5 DEF AskExaminer, Dispatches, Drives, Decides
  <2>2. Goes(task[h], At("probe"), log)
    BY <1>5, <2>1 DEF Goes, At, AtWith, AskExaminer, Dispatches, Drives
  <2> QED
    BY <1>1, <2>1, <2>2
<1> QED
  BY <1>3, <1>4, <1>5

\* The steps of _do_probe and of _do_close_problem.
LEMMA ProbeDecides ==
  ASSUME TypeOK, NEW h \in Handlers, Observe(h) \/ Examine(h) \/ Review(h)
  PROVE  \E k : Decides1(h, k)
<1> DEFINE t == task[h]
           p == CurrentProblem(log)
           n == LastCandidateTurn(log)
<1>1. log \in Seq(Events) /\ t \in Tasks
  BY DEF TypeOK, Events
<1>2. ASSUME NEW k, WellFormed(k), Become(h, k), NEW at \in Steps \ {"append"}, Decides(h, at),
             Decision(t, k, log)
      PROVE  \E l : Decides1(h, l)
  BY <1>2 DEF Decides1, Become, Decides
<1>3. CASE Observe(h)
  <2> DEFINE r == AtWith("examine", p, n, {})
  <2>1. p \in Problems \cup {None} /\ n \in Nonces \cup {None}
    BY <1>1, CurrentInPlan, LastCandidateTurnIsForm
  <2>3. WellFormed(r) /\ r.at = "examine" /\ r.p = p
    <3> HIDE DEF p, n
    <3> QED
      BY <2>1 DEF WellFormed, Tasks, Steps, AtWith
  <2>4. Decides(h, "probe") /\ t.at = "probe"
    BY <1>3 DEF Observe, Decides
  <2>5. \/ Become(h, Posting(<<Observation>>, r))
        \/ Become(h, Posting(<<>>, r))
    BY <1>3 DEF Observe
  <2>6. <<Observation>> \in Seq(HandlerEvents)
    BY HandlerEventsAre
  <2> HIDE DEF r, p
  <2>7. CASE Become(h, Posting(<<Observation>>, r))
    <3> DEFINE k == Posting(<<Observation>>, r)
    <3>1. WellFormed(k) /\ Doing(k, <<Observation>>, "examine") /\ k.p = p
      BY <2>3, <2>6, PostingIs DEF SameLocals
    <3>2. Covers(t, k, log)
      BY <2>4, <3>1 DEF Covers, p
    <3> HIDE DEF k
    <3> QED
      BY <1>2, <2>4, <2>7, <3>1, <3>2 DEF Decision, Steps, k
  <2>8. CASE Become(h, Posting(<<>>, r))
    <3>1. Posting(<<>>, r) = r
      BY DEF Posting
    <3>2. Goes(t, r, log)
      BY <2>3, <2>4 DEF Goes, p, r, AtWith
    <3> QED
      BY <1>2, <2>3, <2>4, <2>8, <3>1, <3>2 DEF Decision, Steps
  <2> QED
    BY <2>5, <2>7, <2>8
<1>4. ASSUME NEW at \in {"examine", "review"}, Decides(h, at), t.p # None,
             Become(h, AtWith("close", t.p, None, {}))
      PROVE  \E k : Decides1(h, k)
  <2> DEFINE r == AtWith("close", t.p, None, {})
  <2>2. WellFormed(r)
    BY <1>1, <1>4 DEF WellFormed, Tasks, Steps, AtWith
  <2>3. Goes(t, r, log)
    BY <1>4 DEF Goes, Decides, AtWith
  <2> QED
    BY <1>2, <1>4, <2>2, <2>3 DEF Decision, Steps
<1>5. CASE Examine(h)
  <2> DEFINE capped == t.p # None /\ ProbeCount(log, t.p) >= MaxProbesPerProblem
             r == [at |-> "review", todo |-> t.todo, then |-> t.then, p |-> t.p, n |-> t.n, arts |-> t.arts]
  <2>1. Decides(h, "examine") /\ t.at = "examine"
    BY <1>5 DEF Examine, Decides
  <2>2. CASE capped
    BY <1>4, <1>5, <2>1, <2>2 DEF Examine
  <2>3. CASE ~ capped
    <3>1. Become(h, [t EXCEPT !.at = "review"])
      BY <1>5, <2>3 DEF Examine
    <3>2. r = [t EXCEPT !.at = "review"]
      BY <1>1 DEF Tasks
    <3>3. t.todo = <<>> /\ ({t.at, t.then} \cap {"close", "request", "enqueue"} # {} => t.p # None)
      BY <2>1 DEF TypeOK
    <3>4. WellFormed(r)
      BY <1>1, <3>3 DEF WellFormed, Tasks, Steps
    <3>5. Goes(t, r, log)
      BY <2>1, <2>3, <3>3 DEF Goes
    <3> QED
      BY <1>2, <2>1, <3>1, <3>2, <3>4, <3>5 DEF Decision, Steps
  <2> QED
    BY <2>2, <2>3
<1>6. CASE Review(h)
  <2> DEFINE probe == Turn(ProbeAfter(t.n), "examiner", "probe")
             before == IF t.p = None THEN {<<>>, <<Observation>>} ELSE {<<Observation>>}
  <2>1. Decides(h, "review") /\ t.at = "review" /\ t.n \in Nonces \cup {None}
    BY <1>1, <1>6 DEF Review, Decides, Tasks
  <2>2. \/ t.p # None /\ Become(h, AtWith("close", t.p, None, {}))
        \/ \E seen \in before : Become(h, Posting(seen \o <<probe, Observation>>, At("loop")))
    BY <1>6 DEF Review
  <2>3. ASSUME NEW seen \in before, Become(h, Posting(seen \o <<probe, Observation>>, At("loop")))
        PROVE  \E k : Decides1(h, k)
    <3> DEFINE said == seen \o <<probe, Observation>>
               k == Posting(said, At("loop"))
    <3>1. probe \in HandlerEvents /\ Observation \in HandlerEvents
      BY <2>1, HandlerEventsAre
    <3>2. said = <<probe, Observation>> \/ said = <<Observation, probe, Observation>>
      <4> HIDE DEF probe
      <4>1. seen = <<>> \/ seen = <<Observation>>
        OBVIOUS
      <4> QED
        BY <3>1, <4>1, SeenFirst
    <3>3. said \in Seq(HandlerEvents)
      <4> HIDE DEF probe
      <4>1. <<probe, Observation>> \in Seq(HandlerEvents)
            /\ <<Observation, probe, Observation>> \in Seq(HandlerEvents)
        BY <3>1
      <4> HIDE DEF said
      <4> QED
        BY <3>2, <4>1
    <3>6. Become(h, k)
      BY <2>3
    <3> HIDE DEF said
    <3>4. WellFormed(k) /\ Doing(k, said, "loop")
      BY <3>3, ScriptIs
    <3> HIDE DEF k
    <3>5. Probes(t, k, log)
      BY <2>1, <3>2, <3>4 DEF Probes
    <3> QED
      BY <1>2, <2>1, <3>4, <3>5, <3>6 DEF Decision, Steps
  <2> HIDE DEF before
  <2> QED
    BY <1>4, <2>1, <2>2, <2>3
<1> QED
  BY <1>3, <1>5, <1>6

\* Closing a problem and requesting its scoring only give the request its next task.
LEMMA CloseDecides ==
  ASSUME TypeOK, NEW h \in Handlers, Close(h) \/ Request(h) \/ Enqueue(h)
  PROVE  \E k : Decides1(h, k)
<1> DEFINE t == task[h]
           p == t.p
           closed == Event("ProblemClosed", p)
<1>1. log \in Seq(Events) /\ t \in Tasks
  BY DEF TypeOK, Events
<1>2. CASE Enqueue(h)
  <2>1. Become(h, At("loop")) /\ Decides(h, "enqueue") /\ t.at = "enqueue"
    BY <1>2 DEF Enqueue, Decides
  <2>2. WellFormed(At("loop")) /\ Goes(t, At("loop"), log)
    BY AtIs DEF Goes, At, AtWith, Steps
  <2> QED
    BY <2>1, <2>2 DEF Decides1, Become, Decides, Decision
<1>3. CASE Close(h)
  <2> DEFINE arts == CandidateArtifacts(log, p)
             r == AtWith("request", p, None, arts)
  <2>1. Become(h, r) /\ Decides(h, "close") /\ t.at = "close" /\ p \in Problems /\ p # None
    BY <1>1, <1>3 DEF Close, Decides, TypeOK, Tasks
  <2>2. arts \in SUBSET ArtifactIds
    BY <1>1, ArtifactsAreIds
  <2>3. WellFormed(r)
    <3> HIDE DEF p, arts
    <3> QED
      BY <2>1, <2>2 DEF WellFormed, Tasks, Steps, AtWith
  <2>4. Goes(t, r, log)
    BY <2>1 DEF Goes, AtWith
  <2> HIDE DEF r
  <2> QED
    BY <2>1, <2>3, <2>4 DEF Decides1, Become, Decides, Decision
<1>4. CASE Request(h)
  <2> DEFINE arts == t.arts
             requested == ScoringRequest(p, arts)
             r == AtWith("enqueue", p, None, arts)
  <2>1. Decides(h, "request") /\ t.at = "request" /\ p \in Problems /\ p # None
        /\ arts \in SUBSET ArtifactIds
    BY <1>1, <1>4 DEF Request, Decides, TypeOK, Tasks
  <2>4. WellFormed(r) /\ r.at = "enqueue" /\ r.p = p /\ r.arts = arts
    <3> HIDE DEF p, arts
    <3> QED
      BY <2>1 DEF WellFormed, Tasks, Steps, AtWith
  <2>5. <<closed>> \in Seq(HandlerEvents) /\ <<closed, requested>> \in Seq(HandlerEvents)
    <3>1. closed \in HandlerEvents /\ requested \in HandlerEvents
      BY <2>1, HandlerEventsAre
    <3> HIDE DEF closed, requested
    <3> QED
      BY <3>1
  <2>6. <<closed>> \o <<requested>> = <<closed, requested>>
    <3>1. closed \in HandlerEvents /\ requested \in HandlerEvents
      BY <2>1, HandlerEventsAre
    <3> HIDE DEF closed, requested
    <3> QED
      BY <3>1, JoinedShort
  <2>7. \/ arts = {} /\ Become(h, Posting(<<closed>>, At("loop")))
        \/ arts # {} /\ Become(h, Posting(<<closed, requested>>, At("loop")))
        \/ arts # {} /\ Become(h, Posting(<<closed, requested>>, r))
    BY <1>4, <2>6 DEF Request
  <2> HIDE DEF r, p, arts
  <2>8. ASSUME NEW k, WellFormed(k), Become(h, k), Closes(t, k, log)
        PROVE  \E l : Decides1(h, l)
    BY <2>1, <2>8 DEF Decides1, Become, Decides, Decision
  <2>9. ASSUME NEW s, (arts = {} /\ s = <<closed>>) \/ (arts # {} /\ s = <<closed, requested>>),
               Become(h, Posting(s, At("loop")))
        PROVE  \E l : Decides1(h, l)
    <3> DEFINE k == Posting(s, At("loop"))
    <3>1. WellFormed(k) /\ Doing(k, s, "loop")
      <4> HIDE DEF closed, requested
      <4>1. s \in Seq(HandlerEvents)
        BY <2>5, <2>9
      <4> QED
        BY <4>1, ScriptIs
    <3> HIDE DEF k
    <3>2. Closes(t, k, log)
      BY <2>1, <2>9, <3>1 DEF Closes, p, arts
    <3> QED
      BY <2>8, <2>9, <3>1, <3>2 DEF k
  <2>10. CASE arts # {} /\ Become(h, Posting(<<closed, requested>>, r))
    <3> DEFINE k == Posting(<<closed, requested>>, r)
    <3>1. WellFormed(k) /\ Doing(k, <<closed, requested>>, "enqueue") /\ k.p = p /\ k.arts = arts
      <4> HIDE DEF closed, requested
      <4> QED
        BY <2>4, <2>5, PostingIs DEF SameLocals
    <3> HIDE DEF k
    <3>2. Closes(t, k, log)
      BY <2>1, <2>10, <3>1 DEF Closes, p, arts
    <3> QED
      BY <2>8, <2>10, <3>1, <3>2 DEF k
  <2> QED
    BY <2>7, <2>9, <2>10
<1> QED
  BY <1>2, <1>3, <1>4

\* e is recorded in log L: it is there already or added, once if it has a key; an
\* observation leaves no trace.
Records(L, M, e) ==
  \/ M = L /\ e = Observation
  \/ M = L /\ Logged(L, e.type, e.id)
  \/ /\ Adds(L, M, e) /\ e # Observation
     /\ Keyless(e) \/ ~ Logged(L, e.type, e.id)

\* Storing an event leaves the log alone or adds the event at its end.
LEMMA StoreRecords ==
  ASSUME log \in Seq(Events), NEW e \in Events, NEW a, Store(a, e)
  PROVE  log' \in Seq(Events) /\ Records(log, log', e)
<1>1. \A i \in DOMAIN log : log[i] \in Events
  OBVIOUS
<1>2. \A i \in DOMAIN log : SameKey(log[i], e) /\ ~ Keyless(e) => log[i].type = e.type /\ log[i].id = e.id
  <2> SUFFICES ASSUME NEW i \in DOMAIN log, SameKey(log[i], e), ~ Keyless(e)
               PROVE  log[i].type = e.type /\ log[i].id = e.id
    OBVIOUS
  <2>1. ~ Keyless(log[i])
    BY DEF SameKey, Keyless
  <2> QED
    BY <1>1, <2>1, KeyNames DEF Events
<1>3. \A i \in DOMAIN log : log[i].type = e.type /\ log[i].id = e.id => SameKey(log[i], e)
  BY <1>1, KeyNames DEF Events
<1>4. CASE e = Observation
  BY <1>4 DEF Store, Records
<1>5. CASE e # Observation
  <2>1. log' = IdemAppend(log, e)
    BY <1>5 DEF Store
  <2>2. /\ log' \in Seq(Events)
        /\ \/ log' = log /\ ~ Keyless(e) /\ \E i \in DOMAIN log : SameKey(log[i], e)
           \/ /\ Adds(log, log', e)
              /\ Keyless(e) \/ \A i \in DOMAIN log : ~ SameKey(log[i], e)
    BY <2>1, IdemAppendAdds
  <2> QED
    BY <1>2, <1>3, <1>5, <2>2 DEF Records, Logged
<1> QED
  BY <1>4, <1>5

\* Request h appends the next event it has left, or the append is refused and
\* the request ends.
Appends(h, k) ==
  /\ WellFormed(k)
  /\ task' = [task EXCEPT ![h] = k]
  /\ UNCHANGED <<queue, queued, worker, crashes>>
  /\ stale' \subseteq (stale \cup Authors) \ {h}
  /\ task[h].at = "append" /\ task[h].todo # <<>>
  /\ \/ /\ Records(log, log', Head(task[h].todo))
        /\ Doing(k, Tail(task[h].todo), task[h].then) /\ SameLocals(k, task[h])
     \/ log' = log /\ k = Idle

\* A request that stores its next event appends that one and no other.
LEMMA AppendStep ==
  ASSUME TypeOK, NEW h \in Handlers, AppendNext(h)
  PROVE  log' \in Seq(Events) /\ \E k : Appends(h, k)
<1> DEFINE t == task[h]
           resumed == AtWith(t.then, t.p, t.n, t.arts)
           k == Posting(Tail(t.todo), resumed)
<1>1. /\ log \in Seq(Events) /\ t \in Tasks /\ t.at = "append" /\ t.todo # <<>>
      /\ {t.at, t.then} \cap {"close", "request", "enqueue"} # {} => t.p # None
  BY DEF TypeOK, AppendNext, Events
<1>2. /\ t.todo \in Seq(HandlerEvents) /\ t.then \in Steps \ {"append"}
      /\ t.p \in Problems \cup {None} /\ t.n \in Nonces \cup {None} /\ t.arts \in SUBSET ArtifactIds
  BY <1>1 DEF Tasks
<1>3. Head(t.todo) \in HandlerEvents /\ Tail(t.todo) \in Seq(HandlerEvents) /\ Head(t.todo) \in Events
  BY <1>1, <1>2 DEF Events
<1>4. WellFormed(resumed) /\ resumed.at = t.then /\ resumed.p = t.p /\ resumed.n = t.n
      /\ resumed.arts = t.arts
  <2>1. {t.then} \cap {"close", "request", "enqueue"} # {} => t.p # None
    BY <1>1
  <2> HIDE DEF t
  <2> QED
    BY <1>2, <2>1 DEF WellFormed, AtWith, Tasks, Steps
<1>5. WellFormed(k) /\ Doing(k, Tail(t.todo), t.then) /\ SameLocals(k, t)
  <2>1. resumed.at # "append"
    BY <1>2, <1>4
  <2> HIDE DEF t, resumed
  <2> QED
    BY <1>3, <1>4, <2>1, PostingIs DEF SameLocals
<1>6. /\ \/ Store(h, Head(t.todo)) /\ Become(h, k)
         \/ Lose(h, Head(t.todo)) /\ Become(h, Idle)
      /\ UNCHANGED <<queue, queued, worker, crashes>>
  BY DEF AppendNext
<1>7. stale' \subseteq (stale \cup Authors) \ {h}
  BY <1>6 DEF Store, Lose
<1>8. CASE Store(h, Head(t.todo)) /\ Become(h, k)
  <2>1. log' \in Seq(Events) /\ Records(log, log', Head(t.todo))
    BY <1>1, <1>3, <1>8, StoreRecords
  <2> HIDE DEF k
  <2>2. Appends(h, k)
    BY <1>1, <1>5, <1>6, <1>7, <1>8, <2>1 DEF Appends, Become
  <2> QED
    BY <2>1, <2>2
<1>9. CASE Lose(h, Head(t.todo)) /\ Become(h, Idle)
  <2>1. WellFormed(Idle) /\ log' = log
    BY <1>9, AtIs DEF Idle, Lose, Steps
  <2>2. Appends(h, Idle)
    BY <1>1, <1>6, <1>7, <1>9, <2>1 DEF Appends, Become
  <2> QED
    BY <1>1, <2>1, <2>2
<1> QED
  BY <1>6, <1>8, <1>9

\* A step of a request decides or appends.
LEMMA HandlerSteps ==
  ASSUME TypeOK, NEW h \in Handlers, Get(h) \/ Step(h) \/ \E n \in Nonces : Post(h, n)
  PROVE  /\ log' \in Seq(Events)
         /\ \E k : Decides1(h, k) \/ Appends(h, k)
<1>1. log \in Seq(Events)
  BY DEF TypeOK, Events
<1>2. CASE AppendNext(h)
  BY <1>2, AppendStep
<1>3. CASE \E n \in Nonces : Post(h, n)
  BY <1>1, <1>3, PostDecides DEF Decides1
<1>4. CASE SelectPlan(h) \/ FinishScoring(h) \/ IntroduceNext(h) \/ Execute(h)
             \/ Challenge(h) \/ Aggregate(h)
  BY <1>1, <1>4, LoopPosts DEF Decides1
<1>5. CASE Get(h) \/ AskExaminer(h) \/ GiveUp(h) \/ Respond(h)
  BY <1>1, <1>5, LoopGoes DEF Decides1
<1>6. CASE Observe(h) \/ Examine(h) \/ Review(h)
  BY <1>1, <1>6, ProbeDecides DEF Decides1
<1>7. CASE Close(h) \/ Request(h) \/ Enqueue(h)
  BY <1>1, <1>7, CloseDecides DEF Decides1
<1> QED
  BY <1>2, <1>3, <1>4, <1>5, <1>6, <1>7 DEF Step

-----------------------------------------------------------------------------
(* Types. *)

Jobs(ps) == [p : ps, arts : SUBSET ArtifactIds]

\* Jobs enqueued keep the queue a queue of the problems ever queued.
LEMMA EnqueuedTyped ==
  ASSUME queue \in Seq(Jobs(queued)), queued \subseteq Problems,
         NEW jobs \in Seq(Jobs(Problems)), Enqueued(jobs)
  PROVE  queue' \in Seq(Jobs(queued')) /\ queued' \subseteq Problems
<1> DEFINE T == Jobs(queued')
<1>1. queue' = queue \o jobs /\ queued' = queued \cup {jobs[i].p : i \in DOMAIN jobs}
  BY DEF Enqueued
<1>2. /\ \A i \in 1 .. Len(queue) : queue[i] \in Jobs(queued)
      /\ \A i \in 1 .. Len(jobs) : jobs[i] \in Jobs(Problems) /\ jobs[i].p \in queued'
      /\ queued' \subseteq Problems /\ queued \subseteq queued'
  <2>1. \A i \in DOMAIN jobs : jobs[i] \in Jobs(Problems)
    OBVIOUS
  <2>2. \A i \in DOMAIN jobs : jobs[i].p \in Problems
    BY <2>1 DEF Jobs
  <2>3. \A i \in DOMAIN queue : queue[i] \in Jobs(queued)
    OBVIOUS
  <2>4. DOMAIN jobs = 1 .. Len(jobs) /\ DOMAIN queue = 1 .. Len(queue)
    OBVIOUS
  <2> QED
    BY <1>1, <2>1, <2>2, <2>3, <2>4
<1>3. /\ \A i \in 1 .. Len(queue) : queue[i] \in T
      /\ \A i \in 1 .. Len(jobs) : jobs[i] \in T
  BY <1>2 DEF Jobs
<1> HIDE DEF T
<1>4. queue \in Seq(T) /\ jobs \in Seq(T)
  BY <1>3
<1>5. \A s, u \in Seq(T) : s \o u \in Seq(T)
  OBVIOUS
<1> QED
  BY <1>1, <1>2, <1>4, <1>5 DEF T

\* What a request hands to the scoring thread are jobs.
LEMMA QueueTyped ==
  ASSUME TypeOK, NEW h \in Handlers, Get(h) \/ Step(h) \/ \E n \in Nonces : Post(h, n)
  PROVE  queue' \in Seq(Jobs(queued')) /\ queued' \subseteq Problems
<1>1. queue \in Seq(Jobs(queued)) /\ queued \subseteq Problems /\ log \in Seq(Events)
      /\ task[h] \in Tasks
  BY DEF TypeOK, Jobs, Events
<1>2. CASE NoJobs
  BY <1>1, <1>2 DEF NoJobs
<1>3. ASSUME RecoverPending PROVE queue' \in Seq(Jobs(queued')) /\ queued' \subseteq Problems
  <2> DEFINE lost == {r \in Positions(log, {"ScoringRequested"}) :
                        /\ log[r].id \notin Completed(log) \cup queued
                        /\ CandidateArtifacts(log, log[r].id) # {}}
             job(r) == Job(log[r].id, CandidateArtifacts(log, log[r].id))
  <2>1. PICK rs \in InOrder(lost) : Enqueued([i \in DOMAIN rs |-> job(rs[i])])
    BY <1>3 DEF RecoverPending
  <2>2. \A r \in lost : job(r) \in Jobs(Problems)
    <3>1. \A r \in lost : log[r].id \in Problems
      BY <1>1, IntroducedInPlan DEF Positions
    <3>2. \A r \in lost : CandidateArtifacts(log, log[r].id) \in SUBSET ArtifactIds
      BY <1>1, ArtifactsAreIds
    <3> QED
      BY <3>1, <3>2 DEF Job, Jobs
  <2>3. Cardinality(lost) \in Nat
    <3>1. lost \subseteq 1 .. Len(log) /\ Len(log) \in Int
      BY <1>1 DEF Positions
    <3> HIDE DEF lost
    <3>2. IsFiniteSet(1 .. Len(log))
      BY <3>1, FS_Interval
    <3> QED
      BY <3>1, <3>2, FS_Subset, FS_CardinalityType
  <2> HIDE DEF lost, job
  <2>4. DOMAIN rs = 1 .. Cardinality(lost) /\ \A i \in DOMAIN rs : rs[i] \in lost
    BY DEF InOrder
  <2>5. [i \in DOMAIN rs |-> job(rs[i])] \in Seq(Jobs(Problems))
    BY <2>2, <2>3, <2>4
  <2> QED
    BY <1>1, <2>1, <2>5, EnqueuedTyped
<1>4. CASE Enqueue(h)
  <2>1. CASE task[h].p \in queued
    BY <1>2, <1>4, <2>1 DEF Enqueue
  <2>2. CASE task[h].p \notin queued
    <3> DEFINE jobs == <<Job(task[h].p, task[h].arts)>>
    <3>1. Enqueued(jobs)
      BY <1>4, <2>2 DEF Enqueue
    <3>2. task[h].p # None
      BY <1>4 DEF Enqueue, Decides, TypeOK
    <3>3. Job(task[h].p, task[h].arts) \in Jobs(Problems)
      BY <1>1, <3>2 DEF Job, Jobs, Tasks
    <3>4. jobs \in Seq(Jobs(Problems))
      BY <3>3
    <3> HIDE DEF jobs
    <3> QED
      BY <1>1, <3>1, <3>4, EnqueuedTyped
  <2> QED
    BY <2>1, <2>2
<1>5. CASE AppendNext(h)
  BY <1>2, <1>5 DEF AppendNext, NoJobs
<1>6. CASE Drives(h)
  BY <1>3, <1>6 DEF Drives
<1>7. CASE \/ Get(h) \/ SelectPlan(h) \/ FinishScoring(h) \/ Observe(h) \/ Examine(h) \/ Review(h)
           \/ Close(h) \/ Request(h) \/ \E n \in Nonces : Post(h, n)
  BY <1>2, <1>7 DEF Get, SelectPlan, FinishScoring, Observe, Examine, Review, Close, Request, Post
<1>8. CASE \/ IntroduceNext(h) \/ AskExaminer(h) \/ Execute(h) \/ Challenge(h)
           \/ GiveUp(h) \/ Aggregate(h) \/ Respond(h)
  BY <1>6, <1>8
     DEF IntroduceNext, AskExaminer, Execute, Challenge, GiveUp, Aggregate, Respond, Dispatches
<1> QED
  BY <1>4, <1>5, <1>7, <1>8 DEF Step

\* A request's step keeps the types.
LEMMA HandlerTyped ==
  ASSUME TypeOK, NEW h \in Handlers, Get(h) \/ Step(h) \/ \E n \in Nonces : Post(h, n)
  PROVE  TypeOK'
<1>1. log' \in Seq(Events) /\ \E k : Decides1(h, k) \/ Appends(h, k)
  BY HandlerSteps
<1>2. PICK k : Decides1(h, k) \/ Appends(h, k)
  BY <1>1
<1>3. WellFormed(k) /\ task' = [task EXCEPT ![h] = k] /\ worker' = worker /\ crashes' = crashes
  BY <1>2 DEF Decides1, Appends
<1>4. task \in [Handlers -> Tasks] /\ k \in Tasks
  BY <1>3 DEF TypeOK, WellFormed
<1>5. task' \in [Handlers -> Tasks] /\ \A g \in Handlers : task'[g] = IF g = h THEN k ELSE task[g]
  BY <1>3, <1>4
<1>6. \A g \in Handlers :
        /\ (task'[g].at = "append") <=> (task'[g].todo # <<>>)
        /\ {task'[g].at, task'[g].then} \cap {"close", "request", "enqueue"} # {} => task'[g].p # None
  BY <1>3, <1>5 DEF TypeOK, WellFormed
<1>7. Authors \ {h} \subseteq Authors'
  BY <1>3, <1>5 DEF Authors
<1>8. stale' \subseteq Authors'
  <2>1. CASE Decides1(h, k)
    <3>1. h # Worker /\ h \notin Authors
      BY <2>1, HandlersAssumption DEF Decides1, Authors
    <3> QED
      BY <1>7, <2>1, <3>1 DEF Decides1, TypeOK
  <2>2. CASE Appends(h, k)
    BY <1>7, <2>2 DEF Appends, TypeOK
  <2> QED
    BY <1>2, <2>1, <2>2
<1>9. queue' \in Seq(Jobs(queued')) /\ queued' \subseteq Problems
  BY QueueTyped
<1> QED
  BY <1>1, <1>3, <1>5, <1>6, <1>8, <1>9 DEF TypeOK, Events, Jobs

\* What the scoring thread's append does.
WorkerAppends ==
  /\ worker.todo # <<>>
  /\ UNCHANGED <<task, queue, queued, crashes>>
  /\ stale' \subseteq (stale \cup Authors) \ {Worker}
  /\ \/ Records(log, log', Head(worker.todo)) /\ worker'.todo = Tail(worker.todo)
     \/ log' = log /\ (worker'.todo = worker.todo \/ worker'.todo = <<>>)

\* The scoring thread stores the first of its events, gives up or dies.
LEMMA WorkerAppendStep ==
  ASSUME TypeOK, WorkerAppend
  PROVE  /\ WorkerAppends /\ log' \in Seq(Events)
         /\ worker' \in [alive : BOOLEAN, todo : Seq(WorkerEvents), tries : 0 .. 3]
         /\ ~ worker'.alive => worker'.todo = <<>>
<1> DEFINE e == Head(worker.todo)
<1>1. /\ log \in Seq(Events) /\ worker.todo # <<>> /\ worker.todo \in Seq(WorkerEvents)
      /\ worker \in [alive : BOOLEAN, todo : Seq(WorkerEvents), tries : 0 .. 3]
      /\ worker.alive
  BY DEF TypeOK, Events, WorkerAppend
<1>2. e \in Events /\ Tail(worker.todo) \in Seq(WorkerEvents)
  <2>1. \A s \in Seq(WorkerEvents) : s # <<>> => Head(s) \in WorkerEvents /\ Tail(s) \in Seq(WorkerEvents)
    OBVIOUS
  <2> QED
    BY <1>1, <2>1 DEF Events
<1>3. CASE /\ Store(Worker, e)
           /\ worker' = [worker EXCEPT !.todo = Tail(@), !.tries = 0]
  <2>1. log' \in Seq(Events) /\ Records(log, log', e)
    BY <1>1, <1>2, <1>3, StoreRecords
  <2>2. worker' = [alive |-> worker.alive, todo |-> Tail(worker.todo), tries |-> 0]
    BY <1>1, <1>3
  <2>3. stale' \subseteq (stale \cup Authors) \ {Worker}
    BY <1>3 DEF Store
  <2> HIDE DEF e
  <2> QED
    BY <1>1, <1>2, <2>1, <2>2, <2>3 DEF WorkerAppends, WorkerAppend, e
<1>4. CASE /\ Lose(Worker, e)
           /\ worker' = IF worker.tries < 3
                        THEN [worker EXCEPT !.tries = @ + 1]
                        ELSE [NewWorker EXCEPT !.alive = FALSE]
  <2>1. log' = log /\ stale' \subseteq (stale \cup Authors) \ {Worker}
    BY <1>4 DEF Lose
  <2>2. CASE worker.tries < 3
    <3>1. worker' = [alive |-> worker.alive, todo |-> worker.todo, tries |-> worker.tries + 1]
      BY <1>1, <1>4, <2>2
    <3>2. worker.tries + 1 \in 0 .. 3
      BY <1>1, <2>2
    <3> QED
      BY <1>1, <2>1, <3>1, <3>2 DEF WorkerAppends, WorkerAppend
  <2>3. CASE ~ (worker.tries < 3)
    <3>1. worker' = [alive |-> FALSE, todo |-> <<>>, tries |-> 0]
      BY <1>4, <2>3 DEF NewWorker
    <3> QED
      BY <1>1, <2>1, <3>1 DEF WorkerAppends, WorkerAppend
  <2> QED
    BY <2>2, <2>3
<1> QED
  BY <1>3, <1>4 DEF WorkerAppend

\* The scoring of a job: its results, then its completion.
LEMMA ScoreStep ==
  ASSUME TypeOK, Score
  PROVE  \E job \in Jobs(Problems), events \in Seq(WorkerEvents) :
           /\ events \in Results(job) /\ \E i \in DOMAIN queue : job = queue[i]
           /\ worker' = [alive |-> TRUE, todo |-> events \o <<Event("ScoringCompleted", job.p)>>,
                         tries |-> worker.tries]
           /\ events \o <<Event("ScoringCompleted", job.p)>> \in Seq(WorkerEvents)
<1>1. /\ queue \in Seq(Jobs(queued)) /\ queued \subseteq Problems /\ queue # <<>>
      /\ worker \in [alive : BOOLEAN, todo : Seq(WorkerEvents), tries : 0 .. 3] /\ worker.alive
  BY DEF TypeOK, Jobs, Score
<1> DEFINE job == Head(queue)
<1>2. job \in Jobs(Problems) /\ \E i \in DOMAIN queue : job = queue[i]
  <2>1. job \in Jobs(queued) /\ 1 \in DOMAIN queue /\ job = queue[1]
    BY <1>1
  <2> QED
    BY <1>1, <2>1 DEF Jobs
<1>3. PICK events \in Results(job) :
        worker' = [worker EXCEPT !.todo = events \o <<Event("ScoringCompleted", job.p)>>]
  BY DEF Score
<1> HIDE DEF job
<1>4. events \in Seq(WorkerEvents)
  BY <1>2, ResultsAreEvents DEF Jobs
<1>5. Event("ScoringCompleted", job.p) \in WorkerEvents
  BY <1>2, WorkerEventsAre DEF Jobs
<1>6. \A e \in WorkerEvents : events \o <<e>> \in Seq(WorkerEvents)
  <2>1. \A e \in WorkerEvents : <<e>> \in Seq(WorkerEvents)
    OBVIOUS
  <2>2. \A s, u \in Seq(WorkerEvents) : s \o u \in Seq(WorkerEvents)
    OBVIOUS
  <2> QED
    BY <1>4, <2>1, <2>2
<1>7. worker' = [alive |-> TRUE, todo |-> events \o <<Event("ScoringCompleted", job.p)>>,
                 tries |-> worker.tries]
  BY <1>1, <1>3
<1> QED
  BY <1>2, <1>4, <1>5, <1>6, <1>7

\* The types hold at the start.
LEMMA InitTyped == Init => TypeOK
<1> SUFFICES ASSUME Init PROVE TypeOK
  OBVIOUS
<1>1. Event("SessionStarted", "start") \in HandlerEvents
  BY DEF HandlerEvents
<1>2. log \in Seq(HandlerEvents \cup WorkerEvents)
  <2> DEFINE e == Event("SessionStarted", "start")
  <2>1. log = <<e>> /\ e \in HandlerEvents \cup WorkerEvents
    BY <1>1 DEF Init
  <2> HIDE DEF e
  <2> QED
    BY <2>1
<1>3. WellFormed(Idle)
  BY AtIs DEF Idle, Steps
<1>4. crashes \in 0 .. MaxCrashes
  BY BoundsAssumption DEF Init
<1> QED
  BY <1>2, <1>3, <1>4 DEF Init, TypeOK, WellFormed, NewWorker

\* Every event, job and request is made of the plan's problems, the candidate's
\* forms and their artifacts, a request that appends has something to append and
\* one that closes a problem knows which, the worker never tries more than four
\* times, and only authors with an append left can lose a race.
THEOREM Types == Spec => []TypeOK
<1>1. TypeOK /\ [Next]_vars => TypeOK'
  <2> SUFFICES ASSUME TypeOK, [Next]_vars PROVE TypeOK'
    OBVIOUS
  <2>1. CASE UNCHANGED vars
    BY <2>1 DEF vars, TypeOK, Authors
  <2>2. ASSUME NEW h \in Handlers, Get(h) \/ Step(h) \/ \E n \in Nonces : Post(h, n)
        PROVE  TypeOK'
    BY <2>2, HandlerTyped
  <2>3. CASE Score
    <3>1. PICK job \in Jobs(Problems), events \in Seq(WorkerEvents) :
            /\ worker' = [alive |-> TRUE, todo |-> events \o <<Event("ScoringCompleted", job.p)>>,
                          tries |-> worker.tries]
            /\ events \o <<Event("ScoringCompleted", job.p)>> \in Seq(WorkerEvents)
      BY <2>3, ScoreStep
    <3>2. worker' \in [alive : BOOLEAN, todo : Seq(WorkerEvents), tries : 0 .. 3] /\ worker'.alive
      BY <3>1 DEF TypeOK
    <3>3. Authors \subseteq Authors'
      BY <2>3 DEF Score, Authors
    <3>4. queue' \in Seq(Jobs(queued'))
      BY <2>3 DEF Score, TypeOK, Jobs
    <3> QED
      BY <2>3, <3>2, <3>3, <3>4 DEF Score, TypeOK, Jobs
  <2>4. CASE WorkerAppend
    <3>1. /\ WorkerAppends /\ log' \in Seq(Events)
          /\ worker' \in [alive : BOOLEAN, todo : Seq(WorkerEvents), tries : 0 .. 3]
          /\ ~ worker'.alive => worker'.todo = <<>>
      BY <2>4, WorkerAppendStep
    <3>2. Authors \ {Worker} \subseteq Authors'
      BY <3>1 DEF WorkerAppends, Authors
    <3> QED
      BY <3>1, <3>2 DEF WorkerAppends, TypeOK, Events
  <2>5. CASE Crash
    <3>1. WellFormed(Idle)
      BY AtIs DEF Idle, Steps
    <3>2. crashes' \in 0 .. MaxCrashes
      BY <2>5, BoundsAssumption DEF Crash, TypeOK
    <3> QED
      BY <2>5, <3>1, <3>2 DEF Crash, TypeOK, WellFormed, NewWorker
  <2> QED
    BY <2>1, <2>2, <2>3, <2>4, <2>5 DEF Next
<1> QED
  BY InitTyped, <1>1, PTL DEF Spec

-----------------------------------------------------------------------------
(* The steps of the session, as the invariants below see them. *)

\* What the scoring thread does when it takes a job.
Scores ==
  /\ UNCHANGED <<log, task, stale, crashes>>
  /\ worker.todo = <<>>
  /\ \E job \in Jobs(Problems), events \in Seq(WorkerEvents) :
       /\ events \in Results(job) /\ \E i \in DOMAIN queue : job = queue[i]
       /\ worker'.todo = events \o <<Event("ScoringCompleted", job.p)>>

Rests == UNCHANGED <<log, task, worker>>

Restarts == log' = log /\ task' = [h \in Handlers |-> Idle] /\ worker' = NewWorker

\* A step as the proofs see it: nothing is stored, or a request or the thread stores an event.
LEMMA NextCases ==
  ASSUME TypeOK, [Next]_vars
  PROVE  /\ log' \in Seq(Events)
         /\ \/ Rests \/ Restarts \/ Scores \/ WorkerAppends
            \/ \E h \in Handlers : \E k : Decides1(h, k) \/ Appends(h, k)
<1>1. log \in Seq(Events)
  BY DEF TypeOK, Events
<1>2. CASE UNCHANGED vars
  BY <1>1, <1>2 DEF vars, Rests
<1>3. ASSUME NEW h \in Handlers, Get(h) \/ Step(h) \/ \E n \in Nonces : Post(h, n)
      PROVE  log' \in Seq(Events) /\ \E k : Decides1(h, k) \/ Appends(h, k)
  BY <1>3, HandlerSteps
<1>4. CASE Score
  <2>1. PICK job \in Jobs(Problems), events \in Seq(WorkerEvents) :
          /\ events \in Results(job) /\ \E i \in DOMAIN queue : job = queue[i]
          /\ worker' = [alive |-> TRUE, todo |-> events \o <<Event("ScoringCompleted", job.p)>>,
                        tries |-> worker.tries]
    BY <1>4, ScoreStep
  <2>2. worker'.todo = events \o <<Event("ScoringCompleted", job.p)>>
    BY <2>1
  <2> QED
    BY <1>1, <1>4, <2>1, <2>2 DEF Scores, Score
<1>5. CASE WorkerAppend
  BY <1>5, WorkerAppendStep
<1>6. CASE Crash
  BY <1>1, <1>6 DEF Crash, Restarts
<1> QED
  BY <1>2, <1>3, <1>4, <1>5, <1>6 DEF Next

\* The tasks after a request's step.
LEMMA TasksAfter ==
  ASSUME TypeOK, NEW h \in Handlers, NEW k, Decides1(h, k) \/ Appends(h, k)
  PROVE  /\ \A g \in Handlers : task'[g] = IF g = h THEN k ELSE task[g]
         /\ WellFormed(k) /\ worker' = worker
BY DEF TypeOK, Decides1, Appends

\* A log that records an event keeps its events where they are.
LEMMA RecordsGrows ==
  ASSUME NEW L, NEW M, NEW e, Records(L, M, e)
  PROVE  /\ \A i \in DOMAIN L : i \in DOMAIN M /\ M[i] = L[i]
         /\ \/ M = L
            \/ /\ Adds(L, M, e) /\ Len(L) \in Nat /\ DOMAIN L = 1 .. Len(L)
               /\ DOMAIN M = DOMAIN L \cup {Len(L) + 1} /\ M[Len(L) + 1] = e
               /\ Len(L) + 1 \notin DOMAIN L
<1>1. CASE M = L
  BY <1>1
<1>2. CASE Adds(L, M, e)
  <2>1. /\ Len(L) \in Nat /\ DOMAIN L = 1 .. Len(L) /\ DOMAIN M = 1 .. Len(L) + 1
        /\ \A i \in 1 .. Len(L) : M[i] = L[i]
        /\ M[Len(L) + 1] = e
    BY <1>2 DEF Adds
  <2>2. \A n \in Nat : 1 .. n + 1 = (1 .. n) \cup {n + 1} /\ n + 1 \notin 1 .. n
    OBVIOUS
  <2> QED
    BY <1>2, <2>1, <2>2
<1> QED
  BY <1>1, <1>2 DEF Records

\* A log that records an event and stays as it is has it already.
LEMMA RecordedAlready ==
  ASSUME NEW L, NEW e, Records(L, L, e), e # Observation
  PROVE  Logged(L, e.type, e.id)
<1>1. ~ Adds(L, L, e)
  BY DEF Adds
<1> QED
  BY <1>1 DEF Records

\* Head, Tail and the rest.
LEMMA TailFacts ==
  ASSUME NEW S, NEW s \in Seq(S), s # <<>>
  PROVE  /\ Head(s) = s[1] /\ s[1] \in S /\ 1 \in DOMAIN s
         /\ Tail(s) \in Seq(S)
         /\ \A i \in DOMAIN Tail(s) : i + 1 \in DOMAIN s /\ Tail(s)[i] = s[i + 1] /\ i \in Nat \ {0}
OBVIOUS

-----------------------------------------------------------------------------
(* Scoring is recorded as completed after its results. *)

Reports(e, p, d) ==
  e.type \in {"SignalEmitted", "ScorerFailed"} /\ e.id[1] = p /\ e.dim = d

ReportedBy(L, i) ==
  \A k \in DOMAIN TargetDims[L[i].id] :
    \E j \in 1 .. i - 1 : Reports(L[j], L[i].id, TargetDims[L[i].id][k])

\* What the scoring thread has left to append reports every dimension of the problem
\* it completes, or the log does already.
WillReport(s, L) ==
  \A m \in DOMAIN s : s[m].type = "ScoringCompleted" =>
    \A k \in DOMAIN TargetDims[s[m].id] :
      LET d == TargetDims[s[m].id][k]
      IN \/ \E j \in DOMAIN L : Reports(L[j], s[m].id, d)
         \/ \E j \in 1 .. m - 1 : Reports(s[j], s[m].id, d)

CompletionInv ==
  /\ TypeOK
  /\ \A i \in Positions(log, {"ScoringCompleted"}) : ReportedBy(log, i)
  /\ WillReport(worker.todo, log)

\* An event score_problem may return for a job: a signal or a failure of its problem,
\* and a signal cites artifacts of the job.
ResultOf(e, job) ==
  /\ e.type \in {"SignalEmitted", "ScorerFailed"} /\ e.id[1] = job.p
  /\ e.type = "SignalEmitted" => e.refs \subseteq job.arts

\* A signal and a failure report the dimension they are about.
LEMMA SignalReports ==
  ASSUME NEW p, NEW d, NEW src, NEW refs
  PROVE  /\ Reports(Signal(p, d, src, refs), p, d)
         /\ \A job : job.p = p /\ refs \subseteq job.arts => ResultOf(Signal(p, d, src, refs), job)
BY DEF Signal, Reports, ResultOf

\* A failed dimension is reported as such.
LEMMA FailureReports ==
  ASSUME NEW p, NEW d, NEW why
  PROVE  /\ Reports(ScorerFailure(p, d, why), p, d)
         /\ \A job : job.p = p => ResultOf(ScorerFailure(p, d, why), job)
BY DEF ScorerFailure, Reports, ResultOf

\* A scoring, whole or failed, has something to say of every dimension, and no
\* result is a completion.
LEMMA ResultsSplit ==
  ASSUME NEW job \in Jobs(Problems), NEW events \in Results(job)
  PROVE  \E a, b \in Seq(WorkerEvents) :
           /\ events = a \o b
           /\ \A i \in 1 .. Len(a) : ResultOf(a[i], job)
           /\ \A i \in 1 .. Len(b) : ResultOf(b[i], job)
           /\ \A k \in DOMAIN TargetDims[job.p] :
                \E j \in 1 .. Len(a) : Reports(a[j], job.p, TargetDims[job.p][k])
<1> DEFINE dims == TargetDims[job.p]
           at == DOMAIN dims
<1>1. /\ dims \in Seq(Dims) /\ at = 1 .. Len(dims) /\ Len(dims) \in Nat
      /\ \A i \in at : dims[i] \in Dims
      /\ job.p \in Problems /\ job.arts \in SUBSET ArtifactIds
  BY DimsAssumption DEF Jobs
<1>2. CASE events = RaisedOf(job)
  <2> DEFINE a == RaisedOf(job)
  <2>1. a \in Seq(WorkerEvents) /\ Len(a) = Len(dims)
        /\ \A i \in at : a[i] = ScorerFailure(job.p, dims[i], "raised")
    BY <1>1, WorkerEventsAre DEF RaisedOf
  <2> HIDE DEF a
  <2>2. a = a \o <<>> /\ <<>> \in Seq(WorkerEvents) /\ 1 .. Len(<<>>) = {}
    BY <2>1, ConcatEmptySeq
  <2>3. \A i \in 1 .. Len(a) : ResultOf(a[i], job) /\ Reports(a[i], job.p, dims[i])
    BY <1>1, <2>1, FailureReports
  <2>4. \A k \in at : k \in 1 .. Len(a)
    BY <1>1, <2>1
  <2> QED
    BY <1>2, <2>1, <2>2, <2>3, <2>4 DEF a
<1>3. CASE \E llm, more \in SUBSET at :
             \E cited \in [llm -> SUBSET job.arts], s \in InOrder((at \ llm) \cup more) :
               events = SignalsOf(job, cited) \o FailuresOf(job, s, "fallback")
  <2>1. PICK llm \in SUBSET at, more \in SUBSET at :
           \E cited \in [llm -> SUBSET job.arts], s \in InOrder((at \ llm) \cup more) :
             events = SignalsOf(job, cited) \o FailuresOf(job, s, "fallback")
    BY <1>3
  <2>2. PICK cited \in [llm -> SUBSET job.arts], s \in InOrder((at \ llm) \cup more) :
           events = SignalsOf(job, cited) \o FailuresOf(job, s, "fallback")
    BY <2>1
  <2>3. s \in Seq(at)
    <3>1. (at \ llm) \cup more \in SUBSET (1 .. Len(dims)) /\ (at \ llm) \cup more \subseteq at
      BY <1>1
    <3> HIDE DEF at, dims
    <3>2. s \in Seq((at \ llm) \cup more)
      BY <1>1, <3>1, InOrderIsSeq
    <3> QED
      BY <3>1, <3>2
  <2> DEFINE a == SignalsOf(job, cited)
             b == FailuresOf(job, s, "fallback")
  <2> DEFINE src(i) == IF i \in llm THEN "llm" ELSE "heuristic"
             refs(i) == IF i \in llm THEN cited[i] ELSE job.arts
  <2>4. /\ a \in Seq(WorkerEvents) /\ Len(a) = Len(dims)
        /\ \A i \in at : a[i] = Signal(job.p, dims[i], src(i), refs(i)) /\ refs(i) \subseteq job.arts
    <3>1. ASSUME NEW i \in at
          PROVE  /\ src(i) \in {"llm", "heuristic"}
                 /\ refs(i) \subseteq job.arts /\ refs(i) \in SUBSET ArtifactIds
      BY <1>1
    <3>2. a = [i \in at |-> Signal(job.p, dims[i], src(i), refs(i))]
      <4>1. DOMAIN cited = llm
        OBVIOUS
      <4>2. ASSUME NEW i \in at
            PROVE  (IF i \in DOMAIN cited THEN Signal(job.p, dims[i], "llm", cited[i])
                    ELSE Signal(job.p, dims[i], "heuristic", job.arts))
                   = Signal(job.p, dims[i], src(i), refs(i))
        BY <4>1
      <4> QED
        BY <4>2 DEF SignalsOf
    <3> HIDE DEF src, refs
    <3>3. \A i \in at : Signal(job.p, dims[i], src(i), refs(i)) \in WorkerEvents
      BY <1>1, <3>1, WorkerEventsAre
    <3> HIDE DEF a
    <3> QED
      BY <1>1, <3>1, <3>2, <3>3
  <2>5. /\ b \in Seq(WorkerEvents) /\ Len(b) = Len(s)
        /\ \A i \in 1 .. Len(s) : b[i] = ScorerFailure(job.p, dims[s[i]], "fallback")
    <3>1. DOMAIN s = 1 .. Len(s) /\ Len(s) \in Nat /\ \A i \in DOMAIN s : s[i] \in at
      BY <2>3
    <3>2. \A i \in DOMAIN s : ScorerFailure(job.p, dims[s[i]], "fallback") \in WorkerEvents
      BY <1>1, <3>1, WorkerEventsAre
    <3> QED
      BY <3>1, <3>2 DEF FailuresOf
  <2> HIDE DEF a, b, src, refs
  <2>6. \A i \in 1 .. Len(a) : ResultOf(a[i], job) /\ Reports(a[i], job.p, dims[i])
    BY <1>1, <2>4, SignalReports
  <2>7. \A i \in 1 .. Len(b) : ResultOf(b[i], job)
    BY <2>5, FailureReports
  <2>8. \A k \in at : k \in 1 .. Len(a)
    BY <1>1, <2>4
  <2>9. events = a \o b
    BY <2>2 DEF a, b
  <2> QED
    BY <2>4, <2>5, <2>6, <2>7, <2>8, <2>9
<1> QED
  BY <1>2, <1>3, ResultsAre

\* The results of a job report every dimension of its problem and complete nothing.
LEMMA ResultsReport ==
  ASSUME NEW job \in Jobs(Problems), NEW events \in Results(job)
  PROVE  /\ \A k \in DOMAIN TargetDims[job.p] :
              \E j \in 1 .. Len(events) : Reports(events[j], job.p, TargetDims[job.p][k])
         /\ \A i \in 1 .. Len(events) : ResultOf(events[i], job) /\ events[i].type # "ScoringCompleted"
<1>1. PICK a \in Seq(WorkerEvents), b \in Seq(WorkerEvents) :
           /\ events = a \o b
           /\ \A i \in 1 .. Len(a) : ResultOf(a[i], job)
           /\ \A i \in 1 .. Len(b) : ResultOf(b[i], job)
           /\ \A k \in DOMAIN TargetDims[job.p] :
                \E j \in 1 .. Len(a) : Reports(a[j], job.p, TargetDims[job.p][k])
  BY ResultsSplit
<1>2. /\ Len(a) \in Nat /\ Len(b) \in Nat /\ Len(events) = Len(a) + Len(b)
      /\ \A i \in 1 .. Len(a) + Len(b) : events[i] = IF i <= Len(a) THEN a[i] ELSE b[i - Len(a)]
  BY <1>1, ConcatProperties
<1>3. \A i \in 1 .. Len(a) : i \in 1 .. Len(events) /\ events[i] = a[i]
  BY <1>2
<1>4. \A i \in 1 .. Len(events) : i \in 1 .. Len(a) \/ (i - Len(a) \in 1 .. Len(b) /\ ~ (i <= Len(a)))
  BY <1>2
<1> QED
  BY <1>1, <1>2, <1>3, <1>4 DEF ResultOf

\* Two events of one type and id report the same dimension.
LEMMA SameReport ==
  ASSUME NEW e \in Events, NEW f \in Events, f.type = e.type, f.id = e.id,
         NEW p, NEW d, Reports(f, p, d)
  PROVE  Reports(e, p, d)
<1>1. e \in WorkerEvents /\ f \in WorkerEvents
  BY HandlerEventFacts DEF Events, Reports
<1> QED
  BY <1>1, WorkerEventFacts DEF Reports

\* What has been recorded is in the log, as it is or as it was before.
LEMMA RecordsReport ==
  ASSUME NEW L \in Seq(Events), NEW M, NEW e \in Events, Records(L, M, e), NEW p, NEW d, Reports(e, p, d)
  PROVE  \E j \in DOMAIN M : Reports(M[j], p, d)
<1>1. e # Observation
  BY DEF Reports, Observation, Event
<1>2. CASE M = L
  <2>1. PICK i \in DOMAIN L : L[i].type = e.type /\ L[i].id = e.id
    BY <1>1, <1>2, RecordedAlready DEF Logged
  <2> QED
    BY <1>2, <2>1, SameReport
<1>3. CASE M # L
  <2>1. DOMAIN M = DOMAIN L \cup {Len(L) + 1} /\ M[Len(L) + 1] = e
    BY <1>3, RecordsGrows
  <2> QED
    BY <2>1
<1> QED
  BY <1>2, <1>3

\* An event that is no completion keeps the completions reported.
LEMMA KeepsReported ==
  ASSUME NEW L \in Seq(Events), NEW M, NEW e \in Events, Records(L, M, e),
         \A i \in Positions(L, {"ScoringCompleted"}) : ReportedBy(L, i),
         e.type = "ScoringCompleted" =>
           \A k \in DOMAIN TargetDims[e.id] :
             \E j \in DOMAIN L : Reports(L[j], e.id, TargetDims[e.id][k])
  PROVE  \A i \in Positions(M, {"ScoringCompleted"}) : ReportedBy(M, i)
<1>1. /\ \A i \in DOMAIN L : i \in DOMAIN M /\ M[i] = L[i]
      /\ \/ M = L
         \/ /\ Len(L) \in Nat /\ DOMAIN L = 1 .. Len(L)
            /\ DOMAIN M = DOMAIN L \cup {Len(L) + 1} /\ M[Len(L) + 1] = e
  BY RecordsGrows
<1>2. ASSUME NEW i \in DOMAIN L, M[i].type = "ScoringCompleted" PROVE ReportedBy(M, i)
  <2>1. ReportedBy(L, i) /\ M[i] = L[i]
    BY <1>1, <1>2 DEF Positions
  <2>2. \A j \in 1 .. i - 1 : M[j] = L[j]
    BY <1>1
  <2> QED
    BY <2>1, <2>2 DEF ReportedBy
<1>3. CASE M # L
  <2>1. ASSUME e.type = "ScoringCompleted" PROVE ReportedBy(M, Len(L) + 1)
    <3>1. DOMAIN L = 1 .. (Len(L) + 1) - 1 /\ M[Len(L) + 1] = e /\ \A j \in DOMAIN L : M[j] = L[j]
      BY <1>1, <1>3
    <3> QED
      BY <2>1, <3>1 DEF ReportedBy
  <2> QED
    BY <1>1, <1>2, <1>3, <2>1 DEF Positions
<1> QED
  BY <1>2, <1>3 DEF Positions

\* What the thread has promised to report it still reports when the log has grown.
LEMMA KeepsPromise ==
  ASSUME NEW L, NEW M, NEW s, WillReport(s, L), \A i \in DOMAIN L : i \in DOMAIN M /\ M[i] = L[i]
  PROVE  WillReport(s, M)
<1> SUFFICES ASSUME NEW m \in DOMAIN s, s[m].type = "ScoringCompleted", NEW k \in DOMAIN TargetDims[s[m].id]
             PROVE  LET d == TargetDims[s[m].id][k]
                    IN \/ \E j \in DOMAIN M : Reports(M[j], s[m].id, d)
                       \/ \E j \in 1 .. m - 1 : Reports(s[j], s[m].id, d)
  BY DEF WillReport
<1> DEFINE d == TargetDims[s[m].id][k]
<1>1. \/ \E j \in DOMAIN L : Reports(L[j], s[m].id, d)
      \/ \E j \in 1 .. m - 1 : Reports(s[j], s[m].id, d)
  BY DEF WillReport
<1> QED
  BY <1>1

\* The scoring thread records what it has first, and the rest is still promised.
LEMMA TailPromises ==
  ASSUME NEW L \in Seq(Events), NEW M, NEW s \in Seq(WorkerEvents), s # <<>>, WillReport(s, L),
         Records(L, M, Head(s))
  PROVE  /\ WillReport(Tail(s), M)
         /\ Head(s).type = "ScoringCompleted" =>
              \A k \in DOMAIN TargetDims[Head(s).id] :
                \E j \in DOMAIN L : Reports(L[j], Head(s).id, TargetDims[Head(s).id][k])
<1>1. /\ Head(s) = s[1] /\ s[1] \in WorkerEvents /\ 1 \in DOMAIN s
      /\ \A i \in DOMAIN Tail(s) : i + 1 \in DOMAIN s /\ Tail(s)[i] = s[i + 1] /\ i \in Nat \ {0}
  BY TailFacts
<1>2. Head(s).type = "ScoringCompleted" =>
        \A k \in DOMAIN TargetDims[Head(s).id] :
          \E j \in DOMAIN L : Reports(L[j], Head(s).id, TargetDims[Head(s).id][k])
  <2>1. s[1].type = "ScoringCompleted" =>
          \A k \in DOMAIN TargetDims[s[1].id] :
            LET d == TargetDims[s[1].id][k]
            IN \/ \E j \in DOMAIN L : Reports(L[j], s[1].id, d)
               \/ \E j \in 1 .. 1 - 1 : Reports(s[j], s[1].id, d)
    BY <1>1 DEF WillReport
  <2>2. 1 .. 1 - 1 = {}
    OBVIOUS
  <2>3. Head(s) = s[1]
    BY <1>1
  <2> QED
    BY <2>1, <2>2, <2>3
<1>3. ASSUME NEW m \in DOMAIN Tail(s), Tail(s)[m].type = "ScoringCompleted",
             NEW k \in DOMAIN TargetDims[Tail(s)[m].id]
      PROVE  LET d == TargetDims[Tail(s)[m].id][k]
             IN \/ \E j \in DOMAIN M : Reports(M[j], Tail(s)[m].id, d)
                \/ \E j \in 1 .. m - 1 : Reports(Tail(s)[j], Tail(s)[m].id, d)
  <2> DEFINE p == s[m + 1].id
             d == TargetDims[p][k]
  <2>1. m + 1 \in DOMAIN s /\ Tail(s)[m] = s[m + 1] /\ m \in Nat \ {0}
    BY <1>1
  <2>2. \/ \E j \in DOMAIN L : Reports(L[j], p, d)
        \/ \E j \in 1 .. (m + 1) - 1 : Reports(s[j], p, d)
    BY <1>3, <2>1 DEF WillReport
  <2>3. CASE \E j \in DOMAIN L : Reports(L[j], p, d)
    <3>1. \A j \in DOMAIN L : j \in DOMAIN M /\ M[j] = L[j]
      BY RecordsGrows
    <3>2. \E j \in DOMAIN M : Reports(M[j], p, d)
      BY <2>3, <3>1
    <3> QED
      BY <2>1, <3>2
  <2>4. CASE \E j \in 1 .. (m + 1) - 1 : Reports(s[j], p, d)
    <3>1. PICK j \in 1 .. m : Reports(s[j], p, d)
      BY <2>1, <2>4
    <3>2. CASE j = 1
      <4>1. \E i \in DOMAIN M : Reports(M[i], p, d)
        <5>1. Reports(Head(s), p, d) /\ Head(s) \in Events
          BY <1>1, <3>1, <3>2 DEF Events
        <5> QED
          BY <5>1, RecordsReport
      <4> QED
        BY <2>1, <4>1
    <3>3. CASE j # 1
      <4>1. j - 1 \in 1 .. m - 1 /\ (j - 1) + 1 = j
        BY <2>1, <3>3
      <4>2. j - 1 \in DOMAIN Tail(s)
        <5>1. DOMAIN Tail(s) = 1 .. Len(Tail(s)) /\ Len(Tail(s)) \in Nat
          BY TailFacts
        <5> QED
          BY <2>1, <4>1, <5>1
      <4>3. Tail(s)[j - 1] = s[j]
        BY <1>1, <4>1, <4>2
      <4> QED
        BY <2>1, <3>1, <4>1, <4>3
    <3> QED
      BY <3>2, <3>3
  <2> QED
    BY <2>2, <2>3, <2>4
<1> QED
  BY <1>2, <1>3 DEF WillReport

\* The next event of a request is one that requests store.
LEMMA HandlerHead ==
  ASSUME TypeOK, NEW h \in Handlers, task[h].todo # <<>>
  PROVE  /\ Head(task[h].todo) \in HandlerEvents /\ Head(task[h].todo) \in Events
         /\ Head(task[h].todo) = task[h].todo[1] /\ 1 \in DOMAIN task[h].todo
<1>1. task[h].todo \in Seq(HandlerEvents)
  BY DEF TypeOK, Tasks
<1> QED
  BY <1>1, TailFacts DEF Events

\* The first event the thread is about to store is an event of the log.
LEMMA WorkerHead ==
  ASSUME TypeOK, worker.todo # <<>>
  PROVE  worker.todo \in Seq(WorkerEvents) /\ Head(worker.todo) \in WorkerEvents
         /\ Head(worker.todo) \in Events
<1>1. worker.todo \in Seq(WorkerEvents)
  BY DEF TypeOK
<1> QED
  BY <1>1, TailFacts DEF Events

\* CompletionInv is inductive.
LEMMA CompletionStep ==
  ASSUME CompletionInv, TypeOK', [Next]_vars
  PROVE  CompletionInv'
<1>1. /\ TypeOK /\ log \in Seq(Events) /\ WillReport(worker.todo, log)
      /\ \A i \in Positions(log, {"ScoringCompleted"}) : ReportedBy(log, i)
  BY DEF CompletionInv, TypeOK, Events
<1>2. CASE Rests
  BY <1>1, <1>2 DEF Rests, CompletionInv
<1>3. CASE Restarts
  <2>1. WillReport(worker'.todo, log')
    BY <1>3 DEF Restarts, NewWorker, WillReport
  <2> QED
    BY <1>1, <1>3, <2>1 DEF Restarts, CompletionInv
<1>4. CASE Scores
  <2>1. PICK job \in Jobs(Problems), events \in Seq(WorkerEvents) :
          /\ events \in Results(job)
          /\ worker'.todo = events \o <<Event("ScoringCompleted", job.p)>>
    BY <1>4 DEF Scores
  <2> DEFINE last == Event("ScoringCompleted", job.p)
             all == events \o <<last>>
  <2>2. last.type = "ScoringCompleted" /\ last.id = job.p /\ last \in WorkerEvents
    BY WorkerEventsAre DEF Event, Jobs
  <2>3. /\ Len(events) \in Nat /\ DOMAIN events = 1 .. Len(events) /\ DOMAIN all = 1 .. Len(events) + 1
        /\ \A i \in 1 .. Len(events) : all[i] = events[i]
        /\ all[Len(events) + 1] = last
    <3> HIDE DEF last
    <3> QED
      BY <2>2
  <2>4. \A i \in 1 .. Len(events) : events[i].type # "ScoringCompleted"
    BY <1>1, <2>1, ResultsReport
  <2>5. \A k \in DOMAIN TargetDims[job.p] :
          \E j \in 1 .. Len(events) : Reports(events[j], job.p, TargetDims[job.p][k])
    BY <2>1, ResultsReport
  <2> HIDE DEF last, all
  <2>6. WillReport(all, log)
    <3> SUFFICES ASSUME NEW m \in DOMAIN all, all[m].type = "ScoringCompleted",
                        NEW k \in DOMAIN TargetDims[all[m].id]
                 PROVE  \E j \in 1 .. m - 1 : Reports(all[j], all[m].id, TargetDims[all[m].id][k])
      BY DEF WillReport
    <3>1. m = Len(events) + 1 /\ 1 .. m - 1 = 1 .. Len(events)
      BY <2>3, <2>4
    <3>2. all[m].id = job.p
      BY <2>2, <2>3, <3>1
    <3> QED
      BY <2>3, <2>5, <3>1, <3>2
  <2> QED
    BY <1>1, <1>4, <2>1, <2>6 DEF Scores, CompletionInv, all, last
<1>5. CASE WorkerAppends
  <2> DEFINE s == worker.todo
             e == Head(s)
  <2>1. s \in Seq(WorkerEvents) /\ s # <<>> /\ e \in Events
    BY <1>1, <1>5, WorkerHead DEF WorkerAppends
  <2>2. CASE Records(log, log', e) /\ worker'.todo = Tail(s)
    <3>1. /\ WillReport(Tail(s), log')
          /\ e.type = "ScoringCompleted" =>
               \A k \in DOMAIN TargetDims[e.id] :
                 \E j \in DOMAIN log : Reports(log[j], e.id, TargetDims[e.id][k])
      BY <1>1, <2>1, <2>2, TailPromises
    <3> HIDE DEF s, e
    <3>2. \A i \in Positions(log', {"ScoringCompleted"}) : ReportedBy(log', i)
      BY <1>1, <2>1, <2>2, <3>1, KeepsReported
    <3> QED
      BY <2>2, <3>1, <3>2 DEF CompletionInv
  <2>3. CASE log' = log /\ (worker'.todo = s \/ worker'.todo = <<>>)
    <3>1. WillReport(<<>>, log)
      BY DEF WillReport
    <3> QED
      BY <1>1, <2>3, <3>1 DEF CompletionInv
  <2> QED
    BY <1>5, <2>2, <2>3 DEF WorkerAppends
<1>6. ASSUME NEW h \in Handlers, NEW k, Decides1(h, k) \/ Appends(h, k)
      PROVE  CompletionInv'
  <2>1. worker' = worker
    BY <1>6 DEF Decides1, Appends
  <2>2. CASE log' = log
    BY <1>1, <2>1, <2>2 DEF CompletionInv
  <2>3. CASE log' # log
    <3> DEFINE e == Head(task[h].todo)
    <3>1. Records(log, log', e) /\ e \in HandlerEvents /\ e \in Events
      BY <1>1, <1>6, <2>3, HandlerHead DEF Decides1, Appends
    <3>2. e.type # "ScoringCompleted"
      BY <3>1, HandlerEventFacts
    <3> HIDE DEF e
    <3>3. \A i \in Positions(log', {"ScoringCompleted"}) : ReportedBy(log', i)
      BY <1>1, <3>1, <3>2, KeepsReported
    <3>4. \A i \in DOMAIN log : i \in DOMAIN log' /\ log'[i] = log[i]
      BY <3>1, RecordsGrows
    <3>5. WillReport(worker.todo, log')
      BY <1>1, <3>4, KeepsPromise
    <3> QED
      BY <2>1, <3>3, <3>5 DEF CompletionInv
  <2> QED
    BY <2>2, <2>3
<1> QED
  BY <1>1, <1>2, <1>3, <1>4, <1>5, <1>6, NextCases

\* For every number of concurrent requests, problems, dimensions and crashes: when
\* scoring of a problem is recorded as completed, each of its target dimensions has
\* a signal or a failure in the log before it, whatever races were lost and whatever
\* jobs were handed over again in between.
THEOREM CompletionsAreReported == Spec => []CompletedMeansScored
<1>1. Init => CompletionInv
  <2> SUFFICES ASSUME Init PROVE CompletionInv
    OBVIOUS
  <2>1. TypeOK
    BY InitTyped
  <2>2. Positions(log, {"ScoringCompleted"}) = {}
    <3> DEFINE e == Event("SessionStarted", "start")
    <3>1. log = <<e>> /\ e.type = "SessionStarted"
      BY DEF Init, Event
    <3> HIDE DEF e
    <3> QED
      BY <3>1 DEF Positions
  <2>3. WillReport(worker.todo, log)
    BY DEF Init, NewWorker, WillReport
  <2> QED
    BY <2>1, <2>2, <2>3 DEF CompletionInv
<1>2. CompletionInv /\ TypeOK' /\ [Next]_vars => CompletionInv'
  BY CompletionStep
<1>3. CompletionInv => CompletedMeansScored
  BY DEF CompletionInv, CompletedMeansScored, SignalsBefore, ReportedBy, Reports
<1> QED
  BY <1>1, <1>2, <1>3, Types, PTL DEF Spec

-----------------------------------------------------------------------------
(* One problem at a time. *)

\* Where a request stands, or will when it has appended what it has left.
Stage(t) == IF t.at = "append" THEN t.then ELSE t.at

\* p may be the next problem introduced: it is already, so that its key is found,
\* or it is the first of the plan that is not, and none is active.
MayIntroduce(L, p) ==
  \/ Introduced(L, p)
  \/ Fresh(L) # {} /\ p = Foremost(L) /\ \A q : ~ Active(L, q)

\* A problem that was closed had been introduced, and stays closed.
StaysClosed(L) ==
  \A p : Logged(L, "ProblemClosed", p) => Introduced(L, p) /\ ~ Active(L, p)

SequencerTask(t, L) ==
  /\ \A i \in DOMAIN t.todo :
       /\ t.todo[i].type = "ProblemIntroduced" => i = 1 /\ MayIntroduce(L, t.todo[i].id)
       /\ t.todo[i].type = "ProblemClosed" => Introduced(L, t.todo[i].id)
  /\ Stage(t) \in {"examine", "review", "close", "request", "enqueue"} /\ t.p # None => Introduced(L, t.p)

SequencerInv ==
  /\ TypeOK
  /\ Alone(log) /\ StaysClosed(log)
  /\ \A h \in Handlers : SequencerTask(task[h], log)

\* What is active is a problem of the plan and has been introduced.
LEMMA ActiveInPlan ==
  ASSUME NEW L \in Seq(Events), NEW p, Active(L, p)
  PROVE  p \in Problems /\ p # None /\ Introduced(L, p)
<1>1. PICK i \in DOMAIN L : L[i].type = "ProblemIntroduced" /\ L[i].id = p
  BY DEF Active
<1> QED
  BY <1>1, IntroducedInPlan DEF Introduced, Logged

\* current_problem_id is introduced, and nothing is active when there is none.
LEMMA CurrentFacts ==
  ASSUME NEW L \in Seq(Events), Alone(L)
  PROVE  /\ CurrentProblem(L) # None => Active(L, CurrentProblem(L)) /\ Introduced(L, CurrentProblem(L))
         /\ \A p : Active(L, p) => CurrentProblem(L) = p /\ p # None
<1>1. \A i \in Positions(L, {"ProblemIntroduced"}) : L[i].id # None
  BY IntroducedInPlan DEF Positions
<1>2. /\ CurrentProblem(L) # None => Active(L, CurrentProblem(L))
      /\ \A p : Active(L, p) => CurrentProblem(L) = p
  BY <1>1, CurrentIsActive
<1> QED
  BY <1>2, ActiveInPlan

\* The sequencer introduces a problem that may be introduced.
LEMMA NextMayBeIntroduced ==
  ASSUME NEW L \in Seq(Events), Alone(L), NextToIntroduce(L) # None
  PROVE  MayIntroduce(L, NextToIntroduce(L))
<1>1. NextToIntroduce(L) = Foremost(L) /\ Fresh(L) # {} /\ CurrentProblem(L) = None
  BY NextIsForemost
<1>2. \A q : ~ Active(L, q)
  BY <1>1, CurrentFacts
<1> QED
  BY <1>1, <1>2 DEF MayIntroduce

\* Fresh problems depend on the introductions only.
LEMMA SameFresh ==
  ASSUME NEW L, NEW M, \A p : Introduced(M, p) <=> Introduced(L, p)
  PROVE  Fresh(M) = Fresh(L) /\ Foremost(M) = Foremost(L)
<1>1. Fresh(M) = Fresh(L)
  BY DEF Fresh
<1> QED
  BY <1>1 DEF Foremost

\* Recording an event keeps the log in order when the event is in order.
LEMMA KeepsSequence ==
  ASSUME NEW L \in Seq(Events), NEW M, NEW e \in Events, Records(L, M, e),
         Alone(L), StaysClosed(L),
         e.type = "ProblemIntroduced" => MayIntroduce(L, e.id),
         e.type = "ProblemClosed" => Introduced(L, e.id)
  PROVE  /\ Alone(M) /\ StaysClosed(M)
         /\ \A p : Introduced(L, p) => Introduced(M, p)
         /\ \A p : MayIntroduce(L, p) => MayIntroduce(M, p)
<1>1. CASE M = L
  BY <1>1
<1>2. CASE M # L
  <2> DEFINE n == Len(L)
  <2>1. /\ Adds(L, M, e) /\ n \in Nat /\ DOMAIN L = 1 .. n /\ DOMAIN M = DOMAIN L \cup {n + 1}
        /\ \A i \in DOMAIN L : M[i] = L[i]
        /\ M[n + 1] = e /\ n + 1 \notin DOMAIN L
        /\ Keyless(e) \/ ~ Logged(L, e.type, e.id)
    <3>1. Keyless(e) \/ ~ Logged(L, e.type, e.id)
      BY <1>2 DEF Records
    <3>2. \A i \in DOMAIN L : i \in DOMAIN M /\ M[i] = L[i]
      BY RecordsGrows
    <3>3. /\ Adds(L, M, e) /\ Len(L) \in Nat /\ DOMAIN L = 1 .. Len(L)
          /\ DOMAIN M = DOMAIN L \cup {Len(L) + 1} /\ M[Len(L) + 1] = e
          /\ Len(L) + 1 \notin DOMAIN L
      BY <1>2, RecordsGrows
    <3> QED
      BY <3>1, <3>2, <3>3
  <2> HIDE DEF n
  <2>2. \A type, p : Logged(M, type, p) <=> (Logged(L, type, p) \/ (e.type = type /\ e.id = p))
    BY <2>1, AddsLogged
  <2>3. \A p : /\ e.type = "ProblemIntroduced" /\ e.id = p => Active(M, p)
               /\ e.type = "ProblemClosed" /\ e.id = p => ~ Active(M, p)
               /\ ~ (e.type \in {"ProblemIntroduced", "ProblemClosed"} /\ e.id = p)
                    => (Active(M, p) <=> Active(L, p))
    BY <2>1, AddsActive
  <2>4. \A p : Introduced(L, p) => Introduced(M, p)
    BY <2>2 DEF Introduced
  <2>5. e.type = "ProblemIntroduced" =>
          /\ ~ Introduced(L, e.id) /\ Fresh(L) # {} /\ e.id = Foremost(L)
          /\ \A q : ~ Active(L, q)
    <3>1. SUFFICES ASSUME e.type = "ProblemIntroduced" PROVE ~ Introduced(L, e.id)
      BY DEF MayIntroduce
    <3>2. ~ Keyless(e)
      BY <3>1, KeylessFacts DEF Events
    <3> QED
      BY <2>1, <3>1, <3>2 DEF Introduced
  <2>6. StaysClosed(M)
    <3> SUFFICES ASSUME NEW p, Logged(M, "ProblemClosed", p)
                 PROVE  Introduced(M, p) /\ ~ Active(M, p)
      BY DEF StaysClosed
    <3>1. CASE e.type = "ProblemClosed" /\ e.id = p
      BY <2>3, <2>4, <3>1
    <3>2. CASE ~ (e.type = "ProblemClosed" /\ e.id = p)
      <4>1. Introduced(L, p) /\ ~ Active(L, p)
        BY <2>2, <3>2 DEF StaysClosed
      <4> QED
        BY <2>3, <2>4, <2>5, <3>2, <4>1
    <3> QED
      BY <3>1, <3>2
  <2>7. Alone(M)
    <3> SUFFICES ASSUME NEW i \in Positions(M, {"ProblemIntroduced"}),
                        NEW j \in Positions(M, {"ProblemIntroduced"}), i < j
                 PROVE  \E k \in i .. j : M[k].type = "ProblemClosed" /\ M[k].id = M[i].id
      BY DEF Alone
    <3>1. i \in DOMAIN M /\ j \in DOMAIN M /\ M[i].type = "ProblemIntroduced" /\ M[j].type = "ProblemIntroduced"
      BY DEF Positions
    <3>2. i \in 1 .. n /\ (j \in 1 .. n \/ j = n + 1)
      BY <2>1, <3>1
    <3>3. M[i] = L[i]
      BY <2>1, <3>2
    <3>4. CASE j \in 1 .. n
      <4>1. i \in Positions(L, {"ProblemIntroduced"}) /\ j \in Positions(L, {"ProblemIntroduced"})
        BY <2>1, <3>1, <3>2, <3>4 DEF Positions
      <4>2. PICK k \in i .. j : L[k].type = "ProblemClosed" /\ L[k].id = L[i].id
        BY <4>1 DEF Alone
      <4>3. k \in 1 .. n
        BY <2>1, <3>2, <3>4
      <4> QED
        BY <2>1, <3>3, <4>2, <4>3
    <3>5. CASE j = n + 1
      <4>1. ~ Active(L, L[i].id)
        BY <2>1, <2>5, <3>1, <3>5
      <4>2. PICK k \in i .. n : L[k].type = "ProblemClosed" /\ L[k].id = L[i].id
        BY <2>1, <3>1, <3>2, <3>3, <4>1 DEF Active, n
      <4>3. k \in 1 .. n /\ k \in i .. j
        BY <2>1, <3>2, <3>5
      <4> QED
        BY <2>1, <3>3, <4>2, <4>3
    <3> QED
      BY <3>2, <3>4, <3>5
  <2>8. \A p : MayIntroduce(L, p) => MayIntroduce(M, p)
    <3> SUFFICES ASSUME NEW p, MayIntroduce(L, p), ~ Introduced(L, p), ~ Introduced(M, p)
                 PROVE  MayIntroduce(M, p)
      BY <2>4 DEF MayIntroduce
    <3>1. Fresh(L) # {} /\ p = Foremost(L) /\ \A q : ~ Active(L, q)
      BY DEF MayIntroduce
    <3>2. e.type # "ProblemIntroduced"
      BY <2>2, <2>5, <3>1 DEF Introduced
    <3>3. \A q : Introduced(M, q) <=> Introduced(L, q)
      BY <2>2, <3>2 DEF Introduced
    <3>4. \A q : ~ Active(M, q)
      BY <2>3, <3>1, <3>2
    <3> QED
      BY <3>1, <3>3, <3>4, SameFresh DEF MayIntroduce
  <2> QED
    BY <2>4, <2>6, <2>7, <2>8
<1> QED
  BY <1>1, <1>2

\* A task that has something to append goes on to where it said.
LEMMA StageOf ==
  ASSUME NEW k, WellFormed(k), NEW s, NEW step, Doing(k, s, step)
  PROVE  Stage(k) = step /\ k.todo = s
BY DEF Stage, Doing, WellFormed

\* A task with nothing to append stands where it is.
LEMMA StageAt ==
  ASSUME NEW k, WellFormed(k), k.todo = <<>>
  PROVE  Stage(k) = k.at /\ k.at # "append" /\ DOMAIN k.todo = {}
BY DEF Stage, WellFormed

\* The types in the scripts.
LEMMA ScriptTypes ==
  /\ Closing[1].type = "ScoreComputed" /\ Closing[2].type = "Observed" /\ Closing[3].type = "SessionEnded"
  /\ DOMAIN Closing = 1 .. 3
  /\ \A p : /\ DOMAIN Opening(p) = 1 .. 3
            /\ Opening(p)[1].type = "ProblemIntroduced" /\ Opening(p)[1].id = p
            /\ Opening(p)[2].type = "TurnPosted" /\ Opening(p)[2].actor = "challenger"
            /\ Opening(p)[3].type = "Observed"
BY DEF Closing, Opening, Event, Turn, Observation

\* What a request decides to store, it may store.
LEMMA DecisionSequenced ==
  ASSUME NEW t, NEW k, NEW L \in Seq(Events), Alone(L), WellFormed(k), t.at # "append",
         SequencerTask(t, L), Decision(t, k, L)
  PROVE  SequencerTask(k, L)
<1>1. Stage(t) = t.at
  BY DEF Stage
<1>2. CASE Goes(t, k, L)
  <2>1. Stage(k) = k.at /\ DOMAIN k.todo = {}
    BY <1>2, StageAt DEF Goes
  <2>2. k.at \in {"examine", "review", "close", "request", "enqueue"} /\ k.p # None => Introduced(L, k.p)
    <3>1. \/ k.at \in {"idle", "loop", "probe"}
          \/ k.p = CurrentProblem(L)
          \/ Stage(t) \in {"examine", "review", "close"} /\ k.p = t.p
      BY <1>1, <1>2 DEF Goes
    <3>2. CASE k.p = CurrentProblem(L)
      BY <3>2, CurrentFacts
    <3> QED
      BY <3>1, <3>2 DEF SequencerTask
  <2> QED
    BY <2>1, <2>2 DEF SequencerTask
<1>3. CASE Posts(t, k, L)
  <2>1. Stage(k) = "idle"
    BY <1>3 DEF Posts, Stage
  <2> QED
    BY <1>3, <2>1 DEF SequencerTask, Posts
<1>4. CASE Plans(t, k, L)
  <2>1. Stage(k) = "loop" /\ k.todo = <<Event("ProblemPlanSelected", "plan")>>
    BY <1>4, StageOf DEF Plans
  <2> QED
    BY <2>1 DEF SequencerTask, Event
<1>5. CASE Aggregates(t, k, L)
  <2>1. Stage(k) = "idle" /\ k.todo = Closing
    BY <1>5, StageOf DEF Aggregates
  <2> QED
    BY <2>1, ScriptTypes DEF SequencerTask
<1>6. CASE Introduces(t, k, L)
  <2>1. PICK p \in Problems :
          /\ \/ NextToIntroduce(L) # None /\ p = NextToIntroduce(L)
             \/ p = CurrentProblem(L) /\ ~ Ended(L)
          /\ Doing(k, Opening(p), "loop")
    BY <1>6 DEF Introduces
  <2>2. MayIntroduce(L, p)
    <3>1. CASE NextToIntroduce(L) # None /\ p = NextToIntroduce(L)
      BY <3>1, NextMayBeIntroduced
    <3>2. CASE p = CurrentProblem(L)
      <4>1. p # None
        BY NoneAssumption
      <4> QED
        BY <3>2, <4>1, CurrentFacts DEF MayIntroduce
    <3> QED
      BY <2>1, <3>1, <3>2
  <2>3. Stage(k) = "loop" /\ k.todo = Opening(p)
    BY <2>1, StageOf
  <2>4. \A i \in DOMAIN k.todo :
          /\ k.todo[i].type = "ProblemIntroduced" => i = 1 /\ k.todo[i].id = p
          /\ k.todo[i].type # "ProblemClosed"
    BY <2>3, ScriptTypes
  <2> QED
    BY <2>2, <2>3, <2>4 DEF SequencerTask
<1>7. CASE Runs(t, k, L)
  <2>1. PICK n \in Nonces :
          \/ Doing(k, <<Event("RuntimeExecuted", n), Artifact("cell_output", n)>>, "loop")
          \/ Doing(k, <<Event("RuntimeFailed", n)>>, "loop")
    BY <1>7 DEF Runs
  <2>2. /\ Stage(k) = "loop"
        /\ \/ k.todo = <<Event("RuntimeExecuted", n), Artifact("cell_output", n)>>
           \/ k.todo = <<Event("RuntimeFailed", n)>>
    BY <2>1, StageOf
  <2> QED
    BY <2>2 DEF SequencerTask, Event, Artifact
<1>8. CASE Covers(t, k, L)
  <2>1. Stage(k) = "examine" /\ k.todo = <<Observation>> /\ k.p = CurrentProblem(L)
    BY <1>8, StageOf DEF Covers
  <2> QED
    BY <2>1, CurrentFacts DEF SequencerTask, Event, Observation
<1>9. CASE Probes(t, k, L)
  <2>1. PICK n \in Nonces \cup {None} :
          LET probe == Turn(ProbeAfter(n), "examiner", "probe")
          IN \/ Doing(k, <<probe, Observation>>, "loop")
             \/ Doing(k, <<Observation, probe, Observation>>, "loop")
    BY <1>9 DEF Probes
  <2> DEFINE probe == Turn(ProbeAfter(n), "examiner", "probe")
  <2>2. Stage(k) = "loop" /\ (k.todo = <<probe, Observation>> \/ k.todo = <<Observation, probe, Observation>>)
    <3> HIDE DEF probe
    <3>1. Doing(k, <<probe, Observation>>, "loop") \/ Doing(k, <<Observation, probe, Observation>>, "loop")
      BY <2>1 DEF probe
    <3> QED
      BY <3>1, StageOf
  <2>3. probe.type = "TurnPosted" /\ Observation.type = "Observed"
    BY DEF Turn, Observation, Event
  <2> HIDE DEF probe
  <2>4. \A i \in DOMAIN k.todo : k.todo[i].type \in {"TurnPosted", "Observed"}
    BY <2>2, <2>3
  <2> QED
    BY <2>2, <2>4 DEF SequencerTask
<1>10. CASE Closes(t, k, L)
  <2> DEFINE closed == Event("ProblemClosed", t.p)
             requested == ScoringRequest(t.p, t.arts)
  <2>1. /\ t.at = "request" /\ t.p # None
        /\ \/ Doing(k, <<closed>>, "loop")
           \/ Doing(k, <<closed, requested>>, "loop")
           \/ Doing(k, <<closed, requested>>, "enqueue") /\ k.p = t.p
    BY <1>10 DEF Closes
  <2>2. closed.type = "ProblemClosed" /\ closed.id = t.p /\ requested.type = "ScoringRequested"
    BY DEF Event, ScoringRequest
  <2> HIDE DEF closed, requested
  <2>3. /\ k.todo = <<closed>> \/ k.todo = <<closed, requested>>
        /\ Stage(k) = "loop" \/ (Stage(k) = "enqueue" /\ k.p = t.p)
    <3>1. \A s, step : Doing(k, s, step) => Stage(k) = step /\ k.todo = s
      BY StageOf
    <3>2. CASE Doing(k, <<closed>>, "loop")
      BY <3>1, <3>2
    <3>3. CASE Doing(k, <<closed, requested>>, "loop")
      BY <3>1, <3>3
    <3>4. CASE Doing(k, <<closed, requested>>, "enqueue") /\ k.p = t.p
      BY <3>1, <3>4
    <3> QED
      BY <2>1, <3>2, <3>3, <3>4
  <2>4. Introduced(L, t.p)
    BY <1>1, <2>1 DEF SequencerTask
  <2>5. \A i \in DOMAIN k.todo : k.todo[i] \in {closed, requested}
    BY <2>3
  <2> QED
    BY <2>2, <2>3, <2>4, <2>5 DEF SequencerTask
<1> QED
  BY <1>2, <1>3, <1>4, <1>5, <1>6, <1>7, <1>8, <1>9, <1>10 DEF Decision

\* What remains of a task when its first event is stored may still be stored.
LEMMA AppendSequenced ==
  ASSUME NEW t, t \in Tasks, t.at = "append", t.todo # <<>>, NEW k, WellFormed(k),
         Doing(k, Tail(t.todo), t.then), SameLocals(k, t), NEW L, SequencerTask(t, L)
  PROVE  SequencerTask(k, L)
<1>1. Stage(k) = t.then /\ Stage(t) = t.then /\ k.todo = Tail(t.todo) /\ k.p = t.p
  BY StageOf DEF Stage, SameLocals
<1>2. t.todo \in Seq(HandlerEvents)
  BY DEF Tasks
<1>3. \A i \in DOMAIN Tail(t.todo) :
        i + 1 \in DOMAIN t.todo /\ Tail(t.todo)[i] = t.todo[i + 1] /\ i \in Nat \ {0}
  BY <1>2, TailFacts
<1>4. \A i \in DOMAIN Tail(t.todo) : i + 1 # 1
  BY <1>3
<1> QED
  BY <1>1, <1>3, <1>4 DEF SequencerTask

\* A request that is over stores nothing.
LEMMA IdleSequenced ==
  ASSUME NEW L
  PROVE  SequencerTask(Idle, L)
BY DEF SequencerTask, Idle, At, AtWith, Stage

\* What others store takes nothing from what a request may store.
LEMMA StillSequenced ==
  ASSUME NEW t, NEW L, NEW M, SequencerTask(t, L),
         \A p : Introduced(L, p) => Introduced(M, p),
         \A p : MayIntroduce(L, p) => MayIntroduce(M, p)
  PROVE  SequencerTask(t, M)
BY DEF SequencerTask

\* SequencerInv is inductive.
LEMMA SequencerStep ==
  ASSUME SequencerInv, TypeOK', [Next]_vars
  PROVE  SequencerInv'
<1>1. /\ TypeOK /\ log \in Seq(Events) /\ Alone(log) /\ StaysClosed(log)
      /\ \A h \in Handlers : SequencerTask(task[h], log)
  BY DEF SequencerInv, TypeOK, Events
<1>2. CASE Rests
  BY <1>1, <1>2 DEF Rests, SequencerInv
<1>3. CASE Restarts
  BY <1>1, <1>3, IdleSequenced DEF Restarts, SequencerInv
<1>4. CASE Scores
  BY <1>1, <1>4 DEF Scores, SequencerInv
<1>5. ASSUME NEW e \in Events, Records(log, log', e),
             e.type = "ProblemIntroduced" => MayIntroduce(log, e.id),
             e.type = "ProblemClosed" => Introduced(log, e.id)
      PROVE  /\ Alone(log') /\ StaysClosed(log')
             /\ \A t : SequencerTask(t, log) => SequencerTask(t, log')
  BY <1>1, <1>5, KeepsSequence, StillSequenced
<1>6. CASE WorkerAppends
  <2>1. CASE log' = log
    BY <1>1, <1>6, <2>1 DEF WorkerAppends, SequencerInv
  <2>2. CASE Records(log, log', Head(worker.todo))
    <3>1. Head(worker.todo) \in WorkerEvents /\ Head(worker.todo) \in Events
      BY <1>1, <1>6, WorkerHead DEF WorkerAppends
    <3>2. Head(worker.todo).type \notin {"ProblemIntroduced", "ProblemClosed"}
      BY <3>1, WorkerEventFacts
    <3>3. /\ Alone(log') /\ StaysClosed(log')
          /\ \A t : SequencerTask(t, log) => SequencerTask(t, log')
      BY <1>5, <2>2, <3>1, <3>2
    <3> QED
      BY <1>1, <1>6, <3>3 DEF WorkerAppends, SequencerInv
  <2> QED
    BY <1>6, <2>1, <2>2 DEF WorkerAppends
<1>7. ASSUME NEW h \in Handlers, NEW k, Decides1(h, k) \/ Appends(h, k)
      PROVE  SequencerInv'
  <2>1. WellFormed(k) /\ \A g \in Handlers : task'[g] = IF g = h THEN k ELSE task[g]
    BY <1>1, <1>7, TasksAfter
  <2>2. SUFFICES /\ Alone(log') /\ StaysClosed(log') /\ SequencerTask(k, log')
                 /\ \A t : SequencerTask(t, log) => SequencerTask(t, log')
    BY <1>1, <2>1, <2>2 DEF SequencerInv
  <2>3. CASE Decides1(h, k)
    <3>1. log' = log /\ task[h].at # "append" /\ Decision(task[h], k, log)
      BY <2>3 DEF Decides1
    <3>2. SequencerTask(k, log)
      BY <1>1, <2>1, <3>1, DecisionSequenced
    <3> QED
      BY <1>1, <3>1, <3>2
  <2>4. CASE Appends(h, k)
    <3> DEFINE t == task[h]
               e == Head(t.todo)
    <3>1. t \in Tasks /\ t.at = "append" /\ t.todo # <<>> /\ SequencerTask(t, log)
      BY <1>1, <2>4 DEF Appends, TypeOK
    <3>2. CASE log' = log /\ k = Idle
      BY <1>1, <3>2, IdleSequenced
    <3>3. CASE Records(log, log', e) /\ Doing(k, Tail(t.todo), t.then) /\ SameLocals(k, t)
      <4>1. e \in Events /\ e = t.todo[1] /\ 1 \in DOMAIN t.todo
        BY <1>1, <3>1, HandlerHead
      <4>2. /\ e.type = "ProblemIntroduced" => MayIntroduce(log, e.id)
            /\ e.type = "ProblemClosed" => Introduced(log, e.id)
        BY <3>1, <4>1 DEF SequencerTask
      <4>3. SequencerTask(k, log)
        BY <2>1, <3>1, <3>3, AppendSequenced
      <4> HIDE DEF t, e
      <4>4. /\ Alone(log') /\ StaysClosed(log')
            /\ \A u : SequencerTask(u, log) => SequencerTask(u, log')
        BY <1>5, <3>3, <4>1, <4>2
      <4> QED
        BY <4>3, <4>4
    <3> QED
      BY <2>4, <3>2, <3>3 DEF Appends
  <2> QED
    BY <1>7, <2>3, <2>4
<1> QED
  BY <1>1, <1>2, <1>3, <1>4, <1>6, <1>7, NextCases

\* A session starts with an empty interview.
LEMMA InitLog ==
  ASSUME Init
  PROVE  /\ log \in Seq(Events) /\ Len(log) = 1 /\ DOMAIN log = {1} /\ log[1].type = "SessionStarted"
         /\ \A types : "SessionStarted" \notin types => Positions(log, types) = {}
         /\ \A type, id : type # "SessionStarted" => ~ Logged(log, type, id)
         /\ \A p : ~ Active(log, p)
<1> DEFINE e == Event("SessionStarted", "start")
<1>1. log = <<e>> /\ e.type = "SessionStarted" /\ TypeOK
  BY InitTyped DEF Init, Event
<1>2. log \in Seq(Events)
  BY <1>1 DEF TypeOK, Events
<1> HIDE DEF e
<1>3. Len(log) = 1 /\ DOMAIN log = {1} /\ log[1].type = "SessionStarted"
  BY <1>1
<1> QED
  BY <1>2, <1>3 DEF Positions, Logged, Active

\* At the start no problem is introduced.
LEMMA InitSequenced == Init => SequencerInv
<1> SUFFICES ASSUME Init PROVE SequencerInv
  OBVIOUS
<1>1. TypeOK
  BY InitTyped
<1>2. Alone(log)
  BY InitLog DEF Alone
<1>3. StaysClosed(log)
  BY InitLog DEF StaysClosed
<1>4. \A h \in Handlers : task[h] = Idle
  BY DEF Init
<1> QED
  BY <1>1, <1>2, <1>3, <1>4, IdleSequenced DEF SequencerInv

\* In any log at most one problem is active, a closed one stays closed, and every
\* request is about to store only what the log it has read allows (ProblemSequencer,
\* SessionRunner._introduce_problem, _do_close), for any number of requests, forms,
\* problems and crashes.
THEOREM SequencerInvariant == Spec => []SequencerInv
<1>1. SequencerInv /\ TypeOK' /\ [Next]_vars => SequencerInv'
  BY SequencerStep
<1> QED
  BY InitSequenced, <1>1, Types, PTL DEF Spec

\* For every number of concurrent requests and crashes, and every plan: a problem is
\* introduced only after the one before it was closed. A request that read the log
\* before another one introduced the same problem finds that problem's key.
THEOREM OneAtATime == Spec => []OneProblemAtATime
<1>1. SequencerInv => OneProblemAtATime
  BY DEF SequencerInv, OneProblemAtATime, Alone
<1> QED
  BY SequencerInvariant, <1>1, PTL

-----------------------------------------------------------------------------
(* What each decision leaves to append. *)

\* Nothing.
LEMMA GoesIs ==
  ASSUME NEW t, NEW k, NEW L, WellFormed(k), Goes(t, k, L)
  PROVE  Stage(k) = k.at /\ DOMAIN k.todo = {}
BY StageAt DEF Goes

\* A candidate's turn, artifacts and observations.
LEMMA PostsIs ==
  ASSUME NEW t, NEW k, NEW L, Posts(t, k, L)
  PROVE  /\ Stage(k) = "idle" /\ ~ Ended(L)
         /\ \A i \in DOMAIN k.todo :
              \/ k.todo[i].type \in {"ArtifactAttached", "Observed"}
              \/ k.todo[i].type = "TurnPosted" /\ k.todo[i].actor = "candidate"
BY DEF Posts, Stage

\* The plan.
LEMMA PlansIs ==
  ASSUME NEW t, NEW k, NEW L, WellFormed(k), Plans(t, k, L)
  PROVE  /\ Stage(k) = "loop" /\ t.at = "loop" /\ ~ Planned(L)
         /\ \A i \in DOMAIN k.todo : k.todo[i].type = "ProblemPlanSelected"
<1>1. Stage(k) = "loop" /\ k.todo = <<Event("ProblemPlanSelected", "plan")>>
  BY StageOf DEF Plans
<1> QED
  BY <1>1 DEF Event, Plans

\* The score and the end.
LEMMA AggregatesIs ==
  ASSUME NEW t, NEW k, NEW L, WellFormed(k), Aggregates(t, k, L)
  PROVE  /\ Stage(k) = "idle" /\ t.at = "loop" /\ Planned(L)
         /\ AsyncScoringReady(L) \/ (NextToIntroduce(L) = None /\ ~ NeedsExaminer(L) /\ Unscored(L) = {})
         /\ \A i \in DOMAIN k.todo :
              \/ i = 1 /\ k.todo[i].type = "ScoreComputed"
              \/ k.todo[i].type \in {"Observed", "SessionEnded"}
<1>1. Stage(k) = "idle" /\ k.todo = Closing
  BY StageOf DEF Aggregates
<1> QED
  BY <1>1, ScriptTypes DEF Aggregates

\* An introduction and its opener.
LEMMA IntroducesIs ==
  ASSUME NEW t, NEW k, NEW L, WellFormed(k), Introduces(t, k, L)
  PROVE  /\ Stage(k) = "loop" /\ t.at = "loop"
         /\ ~ AsyncScoringReady(L)
         /\ NextToIntroduce(L) # None \/ ~ Ended(L)
         /\ \A i \in DOMAIN k.todo :
              \/ k.todo[i].type = "ProblemIntroduced"
              \/ k.todo[i].type = "TurnPosted" /\ k.todo[i].actor = "challenger"
              \/ k.todo[i].type = "Observed"
<1>1. PICK p \in Problems :
        /\ NextToIntroduce(L) # None \/ ~ Ended(L)
        /\ Doing(k, Opening(p), "loop")
  BY DEF Introduces
<1>2. Stage(k) = "loop" /\ k.todo = Opening(p)
  BY <1>1, StageOf
<1> QED
  BY <1>1, <1>2, ScriptTypes DEF Introduces

\* A run that has not been made, and its output.
LEMMA RunsIs ==
  ASSUME NEW t, NEW k, NEW L, WellFormed(k), Runs(t, k, L)
  PROVE  /\ Stage(k) = "loop" /\ t.at = "loop" /\ ~ Ended(L)
         /\ \E n \in Nonces :
              /\ ~ HasRun(L, n)
              /\ \A i \in DOMAIN k.todo :
                   \/ i = 1 /\ k.todo[i].type \in {"RuntimeExecuted", "RuntimeFailed"} /\ k.todo[i].id = n
                   \/ k.todo[i].type = "ArtifactAttached" /\ k.todo[i].kind = "cell_output"
<1>1. PICK n \in Nonces :
        /\ ~ HasRun(L, n)
        /\ \/ Doing(k, <<Event("RuntimeExecuted", n), Artifact("cell_output", n)>>, "loop")
           \/ Doing(k, <<Event("RuntimeFailed", n)>>, "loop")
  BY DEF Runs
<1>2. /\ Stage(k) = "loop"
      /\ \/ k.todo = <<Event("RuntimeExecuted", n), Artifact("cell_output", n)>>
         \/ k.todo = <<Event("RuntimeFailed", n)>>
  BY <1>1, StageOf
<1>3. \A i \in DOMAIN k.todo :
        \/ i = 1 /\ k.todo[i].type \in {"RuntimeExecuted", "RuntimeFailed"} /\ k.todo[i].id = n
        \/ k.todo[i].type = "ArtifactAttached" /\ k.todo[i].kind = "cell_output"
  BY <1>2 DEF Event, Artifact
<1> QED
  BY <1>1, <1>2, <1>3 DEF Runs

\* An observation.
LEMMA CoversIs ==
  ASSUME NEW t, NEW k, NEW L, WellFormed(k), Covers(t, k, L)
  PROVE  /\ Stage(k) = "examine" /\ t.at = "probe" /\ k.p = CurrentProblem(L)
         /\ \A i \in DOMAIN k.todo : k.todo[i].type = "Observed"
<1>1. Stage(k) = "examine" /\ k.todo = <<Observation>>
  BY StageOf DEF Covers
<1> QED
  BY <1>1 DEF Covers, Event, Observation

\* One probe, among observations.
LEMMA ProbesIs ==
  ASSUME NEW t, NEW k, NEW L, WellFormed(k), Probes(t, k, L)
  PROVE  /\ Stage(k) = "loop" /\ t.at = "review"
         /\ \A i \in DOMAIN k.todo : IsProbe(k.todo[i]) \/ k.todo[i].type = "Observed"
         /\ \A i, j \in DOMAIN k.todo : IsProbe(k.todo[i]) /\ IsProbe(k.todo[j]) => i = j
<1>1. PICK n \in Nonces \cup {None} :
        LET probe == Turn(ProbeAfter(n), "examiner", "probe")
        IN \/ Doing(k, <<probe, Observation>>, "loop")
           \/ Doing(k, <<Observation, probe, Observation>>, "loop")
  BY DEF Probes
<1> DEFINE probe == Turn(ProbeAfter(n), "examiner", "probe")
<1>2. IsProbe(probe) /\ ~ IsProbe(Observation) /\ Observation.type = "Observed"
  BY DEF Turn, Observation, Event, IsProbe
<1>3. Doing(k, <<probe, Observation>>, "loop") \/ Doing(k, <<Observation, probe, Observation>>, "loop")
  BY <1>1
<1> HIDE DEF probe
<1>4. Stage(k) = "loop" /\ (k.todo = <<probe, Observation>> \/ k.todo = <<Observation, probe, Observation>>)
  BY <1>3, StageOf
<1> QED
  BY <1>2, <1>4 DEF Probes

\* The closing of a problem, and the request to score it.
LEMMA ClosesIs ==
  ASSUME NEW t, NEW k, NEW L, WellFormed(k), Closes(t, k, L)
  PROVE  /\ t.at = "request" /\ t.p # None /\ Stage(k) \in {"loop", "enqueue"}
         /\ \A i \in DOMAIN k.todo :
              \/ /\ i = 1 /\ k.todo[i] = Event("ProblemClosed", t.p)
                 /\ k.todo[i].type = "ProblemClosed" /\ k.todo[i].id = t.p
              \/ /\ i = 2 /\ k.todo[i].type = "ScoringRequested" /\ k.todo[i].id = t.p
                 /\ k.todo[i].artifacts = t.arts /\ t.arts # {}
                 /\ k.todo[1] = Event("ProblemClosed", t.p)
         /\ Stage(k) = "enqueue" => k.p = t.p /\ k.arts = t.arts
<1> DEFINE closed == Event("ProblemClosed", t.p)
           arts == t.arts
           requested == ScoringRequest(t.p, arts)
<1>1. /\ t.at = "request" /\ t.p # None
      /\ \/ Doing(k, <<closed>>, "loop")
         \/ arts # {} /\ Doing(k, <<closed, requested>>, "loop")
         \/ /\ arts # {} /\ Doing(k, <<closed, requested>>, "enqueue")
            /\ k.p = t.p /\ k.arts = arts
  BY DEF Closes
<1> HIDE DEF closed, requested, arts
<1>2. \A s, step : Doing(k, s, step) => Stage(k) = step /\ k.todo = s
  BY StageOf
<1>3. /\ closed.type = "ProblemClosed" /\ closed.id = t.p
      /\ requested.type = "ScoringRequested" /\ requested.id = t.p
      /\ requested.artifacts = arts
  BY DEF closed, requested, Event, ScoringRequest
<1>4. /\ Stage(k) \in {"loop", "enqueue"}
      /\ k.todo = <<closed>> \/ (arts # {} /\ k.todo = <<closed, requested>>)
      /\ Stage(k) = "enqueue" => k.p = t.p /\ k.arts = arts
  <2>1. CASE Doing(k, <<closed>>, "loop")
    BY <1>2, <2>1
  <2>2. CASE arts # {} /\ Doing(k, <<closed, requested>>, "loop")
    BY <1>2, <2>2
  <2>3. CASE /\ arts # {} /\ Doing(k, <<closed, requested>>, "enqueue")
             /\ k.p = t.p /\ k.arts = arts
    BY <1>2, <2>3
  <2> QED
    BY <1>1, <2>1, <2>2, <2>3
<1>5. \A i \in DOMAIN k.todo : \/ i = 1 /\ k.todo[i] = closed
                               \/ i = 2 /\ k.todo[i] = requested /\ k.todo[1] = closed /\ arts # {}
  BY <1>4
<1>6. closed = Event("ProblemClosed", t.p) /\ arts = t.arts
  BY DEF closed, arts
<1> QED
  BY <1>1, <1>3, <1>4, <1>5, <1>6

-----------------------------------------------------------------------------
(* Nothing is stored twice, for any number of requests.                      *)

\* RecordedOnce, of any log.
Once(L) ==
  \A i, j \in DOMAIN L : L[i].type = L[j].type /\ L[i].id = L[j].id =>
    i = j \/ L[i].type \in {"RuntimeExecuted", "RuntimeFailed"}
          \/ (L[i].type = "ArtifactAttached" /\ L[i].kind = "cell_output")

\* A request never starts the session again: SessionStarted has no key.
StartsNothing(t) == \A i \in DOMAIN t.todo : t.todo[i].type # "SessionStarted"

OnceInv == Once(log) /\ \A h \in Handlers : StartsNothing(task[h])

LEMMA DecisionStartsNothing ==
  ASSUME NEW t, NEW k, NEW L, WellFormed(k), Decision(t, k, L)
  PROVE  StartsNothing(k)
<1>1. CASE Goes(t, k, L)
  BY <1>1, GoesIs DEF StartsNothing
<1>2. CASE Posts(t, k, L)
  BY <1>2, PostsIs DEF StartsNothing
<1>3. CASE Plans(t, k, L)
  BY <1>3, PlansIs DEF StartsNothing
<1>4. CASE Aggregates(t, k, L)
  BY <1>4, AggregatesIs DEF StartsNothing
<1>5. CASE Introduces(t, k, L)
  BY <1>5, IntroducesIs DEF StartsNothing
<1>6. CASE Runs(t, k, L)
  BY <1>6, RunsIs DEF StartsNothing
<1>7. CASE Covers(t, k, L)
  BY <1>7, CoversIs DEF StartsNothing
<1>8. CASE Probes(t, k, L)
  BY <1>8, ProbesIs DEF StartsNothing, IsProbe
<1>9. CASE Closes(t, k, L)
  BY <1>9, ClosesIs DEF StartsNothing
<1> QED
  BY <1>1, <1>2, <1>3, <1>4, <1>5, <1>6, <1>7, <1>8, <1>9 DEF Decision

\* An event without a key that is stored is a run or its output.
LEMMA StoredKeyless ==
  ASSUME NEW e \in Events, Keyless(e), e # Observation, e.type # "SessionStarted"
  PROVE  \/ e.type \in {"RuntimeExecuted", "RuntimeFailed"}
         \/ e.type = "ArtifactAttached" /\ e.kind = "cell_output"
<1>1. e.type # "Observed"
  <2> SUFFICES ASSUME e.type = "Observed" PROVE FALSE
    OBVIOUS
  <2>1. e \in HandlerEvents
    BY RequestsEvents
  <2> QED
    BY <2>1 DEF HandlerEvents, Event, Turn, Artifact, ScoringRequest, Observation
<1> QED
  BY <1>1, KeylessFacts DEF Events

\* Recording an event stores it once, or it is a run or its output.
LEMMA RecordsOnce ==
  ASSUME NEW L \in Seq(Events), NEW M \in Seq(Events), NEW e \in Events, Records(L, M, e),
         e.type # "SessionStarted", Once(L)
  PROVE  Once(M)
<1>1. CASE M = L
  BY <1>1
<1>2. CASE M # L
  <2> DEFINE n == Len(L)
             Run(f) == \/ f.type \in {"RuntimeExecuted", "RuntimeFailed"}
                       \/ f.type = "ArtifactAttached" /\ f.kind = "cell_output"
  <2>1. /\ e # Observation
        /\ Keyless(e) \/ ~ Logged(L, e.type, e.id)
    BY <1>2 DEF Records
  <2>2. /\ DOMAIN M = DOMAIN L \cup {n + 1} /\ M[n + 1] = e /\ n + 1 \notin DOMAIN L
        /\ \A i \in DOMAIN L : M[i] = L[i]
    <3>1. \A i \in DOMAIN L : i \in DOMAIN M /\ M[i] = L[i]
      BY RecordsGrows
    <3>2. DOMAIN M = DOMAIN L \cup {n + 1} /\ M[n + 1] = e /\ n + 1 \notin DOMAIN L
      BY <1>2, RecordsGrows
    <3> QED
      BY <3>1, <3>2
  <2>3. Run(e) \/ ~ Logged(L, e.type, e.id)
    BY <2>1, StoredKeyless
  <2>4. ASSUME NEW f \in Events, f.type = e.type, f.id = e.id, Run(e) PROVE Run(f)
    <3>1. CASE e.type = "ArtifactAttached"
      <4>1. e \in HandlerEvents /\ f \in HandlerEvents
        BY <2>4, <3>1, RequestsEvents
      <4>2. e.id = <<e.kind, e.turn>> /\ f.id = <<f.kind, f.turn>>
        BY <2>4, <3>1, <4>1, HandlerEventFacts
      <4> QED
        BY <2>4, <3>1, <4>2
    <3>2. CASE e.type # "ArtifactAttached"
      BY <2>4, <3>2
    <3> QED
      BY <3>1, <3>2
  <2>5. \A i \in DOMAIN L : L[i] \in Events
    OBVIOUS
  <2> HIDE DEF n, Run
  <2>6. \A i \in DOMAIN L : L[i].type = e.type /\ L[i].id = e.id => Run(L[i]) /\ Run(e)
    BY <2>3, <2>4, <2>5 DEF Logged
  <2>7. \A i, j \in DOMAIN L : L[i].type = L[j].type /\ L[i].id = L[j].id => i = j \/ Run(L[i])
    BY DEF Once, Run
  <2>8. ASSUME NEW i \in DOMAIN M, NEW j \in DOMAIN M, M[i].type = M[j].type, M[i].id = M[j].id
        PROVE  i = j \/ Run(M[i])
    <3>1. CASE i \in DOMAIN L /\ j \in DOMAIN L
      BY <2>2, <2>7, <2>8, <3>1
    <3>2. CASE i \in DOMAIN L /\ j = n + 1
      BY <2>2, <2>6, <2>8, <3>2
    <3>3. CASE i = n + 1 /\ j \in DOMAIN L
      BY <2>2, <2>6, <2>8, <3>3
    <3> QED
      BY <2>2, <3>1, <3>2, <3>3
  <2> QED
    BY <2>8 DEF Once, Run
<1> QED
  BY <1>1, <1>2

\* OnceInv is inductive.
LEMMA OnceStep ==
  ASSUME TypeOK, OnceInv, [Next]_vars
  PROVE  OnceInv'
<1>1. /\ log \in Seq(Events) /\ log' \in Seq(Events) /\ Once(log)
      /\ \A h \in Handlers : StartsNothing(task[h])
  BY NextCases DEF TypeOK, Events, OnceInv
<1>2. CASE Rests
  BY <1>1, <1>2 DEF Rests, OnceInv
<1>3. CASE Restarts
  <2>1. StartsNothing(Idle)
    BY DEF StartsNothing, Idle, At, AtWith
  <2> QED
    BY <1>1, <1>3, <2>1 DEF Restarts, OnceInv
<1>4. CASE Scores
  BY <1>1, <1>4 DEF Scores, OnceInv
<1>5. CASE WorkerAppends
  <2> DEFINE e == Head(worker.todo)
  <2>1. task' = task /\ (log' = log \/ Records(log, log', e))
    BY <1>5 DEF WorkerAppends
  <2>2. e \in Events /\ e.type # "SessionStarted"
    <3>1. worker.todo \in Seq(WorkerEvents) /\ worker.todo # <<>>
      BY <1>5, WorkerHead DEF WorkerAppends
    <3>2. e \in WorkerEvents
      BY <3>1
    <3> QED
      BY <3>2, WorkerEventFacts DEF Events
  <2> HIDE DEF e
  <2> QED
    BY <1>1, <2>1, <2>2, RecordsOnce DEF OnceInv
<1>6. ASSUME NEW h \in Handlers, NEW k, Decides1(h, k) \/ Appends(h, k)
      PROVE  OnceInv'
  <2>1. WellFormed(k) /\ \A g \in Handlers : task'[g] = IF g = h THEN k ELSE task[g]
    BY <1>6, TasksAfter
  <2>2. CASE Decides1(h, k)
    <3>1. StartsNothing(k) /\ log' = log
      BY <2>1, <2>2, DecisionStartsNothing DEF Decides1
    <3> QED
      BY <1>1, <2>1, <3>1 DEF OnceInv
  <2>3. CASE Appends(h, k)
    <3> DEFINE t == task[h]
               e == Head(t.todo)
    <3>1. t.todo \in Seq(HandlerEvents) /\ t.todo # <<>> /\ StartsNothing(t)
      BY <1>1, <2>3 DEF Appends, TypeOK, Tasks
    <3>2. e \in Events /\ e = t.todo[1] /\ 1 \in DOMAIN t.todo
          /\ \A i \in DOMAIN Tail(t.todo) : i + 1 \in DOMAIN t.todo /\ Tail(t.todo)[i] = t.todo[i + 1]
      BY <3>1, TailFacts DEF Events
    <3>3. \/ Records(log, log', e) /\ k.todo = Tail(t.todo)
          \/ log' = log /\ k.todo = <<>>
      BY <2>3 DEF Appends, Doing, Idle, At, AtWith
    <3> HIDE DEF e, t
    <3>4. StartsNothing(k) /\ e.type # "SessionStarted"
      <4>1. \A i \in DOMAIN t.todo : t.todo[i].type # "SessionStarted"
        BY <3>1 DEF StartsNothing
      <4>2. \A i \in DOMAIN Tail(t.todo) : Tail(t.todo)[i].type # "SessionStarted"
        <5> SUFFICES ASSUME NEW i \in DOMAIN Tail(t.todo)
                     PROVE  Tail(t.todo)[i].type # "SessionStarted"
          OBVIOUS
        <5>1. i + 1 \in DOMAIN t.todo /\ Tail(t.todo)[i] = t.todo[i + 1]
          BY <3>2
        <5>2. t.todo[i + 1].type # "SessionStarted"
          BY <4>1, <5>1
        <5> QED
          BY <5>1, <5>2
      <4>3. StartsNothing(k)
        <5>1. CASE k.todo = Tail(t.todo)
          BY <4>2, <5>1 DEF StartsNothing
        <5>2. CASE k.todo = <<>>
          BY <5>2 DEF StartsNothing
        <5> QED
          BY <3>3, <5>1, <5>2
      <4> QED
        BY <3>2, <4>1, <4>3
    <3>5. Once(log')
      BY <1>1, <3>2, <3>3, <3>4, RecordsOnce
    <3> QED
      BY <1>1, <2>1, <3>4, <3>5 DEF OnceInv
  <2> QED
    BY <1>6, <2>2, <2>3
<1> QED
  BY <1>2, <1>3, <1>4, <1>5, <1>6, NextCases

\* For every number of concurrent requests, forms, problems, probes and crashes: no event
\* is in the log twice but a run and its output.  The keys the handlers build (Key) tell
\* their events apart, and repeat when a request or a job is repeated (KeyNames), which
\* is where the forms' nonces have to differ from what the system posts itself.
THEOREM NothingIsStoredTwice == Spec => []RecordedOnce
<1>1. Init => OnceInv
  <2> SUFFICES ASSUME Init PROVE OnceInv
    OBVIOUS
  <2>1. DOMAIN log = {1}
    BY InitLog
  <2>2. Once(log)
    BY <2>1 DEF Once
  <2>3. StartsNothing(Idle)
    BY DEF StartsNothing, Idle, At, AtWith
  <2> QED
    BY <2>2, <2>3 DEF OnceInv, Init
<1>2. TypeOK /\ OnceInv /\ [Next]_vars => OnceInv'
  BY OnceStep
<1>3. OnceInv => RecordedOnce
  BY DEF OnceInv, Once, RecordedOnce, Named
<1> QED
  BY <1>1, <1>2, <1>3, Types, PTL DEF Spec

-----------------------------------------------------------------------------
(* One request at a time: the documented deployment, in which the handlers *)
(* run to their end on the single event loop.                              *)

OneRequest == \A g, h \in Handlers : g = h

\* The steps of a session that serves one request at a time, by what becomes of
\* the log and of the request's task.
Stays == log' = log /\ \A h \in Handlers : task'[h] = task[h] \/ task'[h] = Idle

ThreadAdds ==
  \E e \in WorkerEvents : Records(log, log', e) /\ \A h \in Handlers : task'[h] = task[h]

RequestDecides(h, k) ==
  /\ log' = log /\ task[h].at # "append" /\ Decision(task[h], k, log)
  /\ WellFormed(k) /\ \A g \in Handlers : g = h /\ task'[g] = k

RequestAdds(h, k, e) ==
  LET t == task[h]
  IN /\ t \in Tasks /\ t.at = "append" /\ t.todo # <<>> /\ e = t.todo[1] /\ 1 \in DOMAIN t.todo
     /\ Records(log, log', e)
     /\ WellFormed(k) /\ \A g \in Handlers : g = h /\ task'[g] = k
     /\ Stage(t) = t.then /\ Stage(k) = t.then /\ SameLocals(k, t)
     /\ \A i \in DOMAIN k.todo : i \in Nat \ {0} /\ i + 1 \in DOMAIN t.todo /\ k.todo[i] = t.todo[i + 1]

\* The same with one request at a time: its decisions and its appends.
LEMMA OneRequestCases ==
  ASSUME OneRequest, TypeOK, [Next]_vars
  PROVE  \/ Stays \/ ThreadAdds
         \/ \E h \in Handlers : \E k : RequestDecides(h, k)
         \/ \E h \in Handlers, e \in HandlerEvents : \E k : RequestAdds(h, k, e)
<1>1. CASE Rests \/ Restarts \/ Scores
  BY <1>1 DEF Rests, Restarts, Scores, Stays
<1>2. CASE WorkerAppends
  <2>1. CASE log' = log
    BY <1>2, <2>1 DEF WorkerAppends, Stays
  <2>2. CASE Records(log, log', Head(worker.todo))
    <3>1. Head(worker.todo) \in WorkerEvents
      BY <1>2, WorkerHead DEF WorkerAppends
    <3> QED
      BY <1>2, <2>2, <3>1 DEF WorkerAppends, ThreadAdds
  <2> QED
    BY <1>2, <2>1, <2>2 DEF WorkerAppends
<1>3. ASSUME NEW h \in Handlers, NEW k, Decides1(h, k) \/ Appends(h, k)
      PROVE  \/ Stays \/ RequestDecides(h, k)
             \/ \E e \in HandlerEvents : RequestAdds(h, k, e)
  <2>1. WellFormed(k) /\ \A g \in Handlers : g = h /\ task'[g] = k
    BY <1>3, TasksAfter DEF OneRequest
  <2>2. CASE Decides1(h, k)
    BY <2>1, <2>2 DEF Decides1, RequestDecides
  <2>3. CASE Appends(h, k)
    <3> DEFINE t == task[h]
               e == Head(t.todo)
    <3>1. t \in Tasks /\ t.at = "append" /\ t.todo # <<>> /\ t.todo \in Seq(HandlerEvents)
      BY <2>3 DEF Appends, TypeOK, Tasks
    <3>2. CASE log' = log /\ k = Idle
      BY <2>1, <3>2 DEF Stays
    <3>3. CASE Records(log, log', e) /\ Doing(k, Tail(t.todo), t.then) /\ SameLocals(k, t)
      <4>1. e \in HandlerEvents /\ e = t.todo[1] /\ 1 \in DOMAIN t.todo
        BY <3>1, HandlerHead
      <4>2. Stage(k) = t.then /\ k.todo = Tail(t.todo)
        BY <2>1, <3>3, StageOf
      <4>3. \A i \in DOMAIN Tail(t.todo) :
              i + 1 \in DOMAIN t.todo /\ Tail(t.todo)[i] = t.todo[i + 1] /\ i \in Nat \ {0}
        BY <3>1, TailFacts
      <4>4. Stage(t) = t.then
        BY <3>1 DEF Stage
      <4>5. RequestAdds(h, k, e)
        <5> HIDE DEF t, e
        <5>1. /\ t.at = "append" /\ t.todo # <<>> /\ e = t.todo[1] /\ 1 \in DOMAIN t.todo
              /\ \A i \in DOMAIN k.todo : i \in Nat \ {0} /\ i + 1 \in DOMAIN t.todo /\ k.todo[i] = t.todo[i + 1]
          BY <3>1, <4>1, <4>2, <4>3
        <5> QED
          BY <2>1, <3>1, <3>3, <4>2, <4>4, <5>1 DEF RequestAdds, t
      <4> QED
        BY <4>1, <4>5
    <3> QED
      BY <2>3, <3>2, <3>3 DEF Appends
  <2> QED
    BY <1>3, <2>2, <2>3
<1> QED
  BY <1>1, <1>2, <1>3, NextCases

-----------------------------------------------------------------------------
(* The code of a turn is run once. *)

RunTypes == {"RuntimeExecuted", "RuntimeFailed"}

\* The outcome of a run that is not in the log, and first, if any.
CodeTask(t, L) ==
  \A i \in DOMAIN t.todo :
    t.todo[i].type \in RunTypes => i = 1 /\ ~ HasRun(L, t.todo[i].id)

RunOnce(L) == \A i, j \in Positions(L, RunTypes) : L[i].id = L[j].id => i = j

CodeInv == RunOnce(log) /\ \A h \in Handlers : CodeTask(task[h], log)

\* A decision to run code finds no outcome; no other decision appends one.
LEMMA DecisionRuns ==
  ASSUME NEW t, NEW k, NEW L, WellFormed(k), Decision(t, k, L)
  PROVE  CodeTask(k, L)
<1>1. CASE Goes(t, k, L)
  BY <1>1, GoesIs DEF CodeTask
<1>2. CASE Posts(t, k, L)
  BY <1>2, PostsIs DEF CodeTask, RunTypes
<1>3. CASE Plans(t, k, L)
  BY <1>3, PlansIs DEF CodeTask, RunTypes
<1>4. CASE Aggregates(t, k, L)
  BY <1>4, AggregatesIs DEF CodeTask, RunTypes
<1>5. CASE Introduces(t, k, L)
  BY <1>5, IntroducesIs DEF CodeTask, RunTypes
<1>6. CASE Runs(t, k, L)
  BY <1>6, RunsIs DEF CodeTask, RunTypes
<1>7. CASE Covers(t, k, L)
  BY <1>7, CoversIs DEF CodeTask, RunTypes
<1>8. CASE Probes(t, k, L)
  BY <1>8, ProbesIs DEF CodeTask, RunTypes, IsProbe
<1>9. CASE Closes(t, k, L)
  BY <1>9, ClosesIs DEF CodeTask, RunTypes
<1> QED
  BY <1>1, <1>2, <1>3, <1>4, <1>5, <1>6, <1>7, <1>8, <1>9 DEF Decision

\* What is recorded leaves runs alone, or is the first outcome of its turn.
LEMMA RecordsRuns ==
  ASSUME NEW L, NEW M, NEW e, Records(L, M, e), RunOnce(L),
         e.type \in RunTypes => ~ HasRun(L, e.id)
  PROVE  /\ RunOnce(M)
         /\ e.type \notin RunTypes => \A id : HasRun(M, id) <=> HasRun(L, id)
<1>1. CASE M = L
  BY <1>1
<1>2. CASE M # L
  <2>1. Adds(L, M, e)
    BY <1>2 DEF Records
  <2>2. \A type, id : Logged(M, type, id) <=> (Logged(L, type, id) \/ (e.type = type /\ e.id = id))
    BY <2>1, AddsLogged
  <2>3. e.type \notin RunTypes => \A id : HasRun(M, id) <=> HasRun(L, id)
    BY <2>2 DEF HasRun, RunTypes
  <2>4. /\ Positions(L, RunTypes) \subseteq 1 .. Len(L) /\ Len(L) \in Nat
        /\ Positions(M, RunTypes) = Positions(L, RunTypes)
                                      \cup (IF e.type \in RunTypes THEN {Len(L) + 1} ELSE {})
        /\ \A i \in Positions(L, RunTypes) : M[i] = L[i]
        /\ M[Len(L) + 1] = e
    <3>1. /\ Positions(L, RunTypes) \subseteq 1 .. Len(L)
          /\ Positions(M, RunTypes) = Positions(L, RunTypes)
                                        \cup (IF e.type \in RunTypes THEN {Len(L) + 1} ELSE {})
      BY <2>1, AddsPositions
    <3> QED
      BY <2>1, <3>1 DEF Adds
  <2>5. CASE e.type \notin RunTypes
    BY <2>3, <2>4, <2>5 DEF RunOnce
  <2>6. CASE e.type \in RunTypes
    <3>1. \A i \in Positions(L, RunTypes) : L[i].id # e.id
      BY <2>6 DEF HasRun, Logged, Positions, RunTypes
    <3> QED
      BY <2>4, <2>6, <3>1 DEF RunOnce
  <2> QED
    BY <2>5, <2>6, <2>3
<1> QED
  BY <1>1, <1>2

\* CodeInv is inductive when one request is served at a time.
LEMMA CodeStep ==
  ASSUME OneRequest, TypeOK, CodeInv, [Next]_vars
  PROVE  CodeInv'
<1>1. RunOnce(log) /\ \A h \in Handlers : CodeTask(task[h], log)
  BY DEF CodeInv
<1>2. CASE Stays
  <2>1. CodeTask(Idle, log)
    BY DEF CodeTask, Idle, At, AtWith
  <2> QED
    BY <1>1, <1>2, <2>1 DEF Stays, CodeInv
<1>3. CASE ThreadAdds
  <2>1. PICK e \in WorkerEvents : Records(log, log', e) /\ \A h \in Handlers : task'[h] = task[h]
    BY <1>3 DEF ThreadAdds
  <2>2. e.type \notin RunTypes
    BY WorkerEventFacts DEF RunTypes
  <2>3. RunOnce(log') /\ \A id : HasRun(log', id) <=> HasRun(log, id)
    BY <1>1, <2>1, <2>2, RecordsRuns
  <2> QED
    BY <1>1, <2>1, <2>3 DEF CodeInv, CodeTask
<1>4. ASSUME NEW h \in Handlers, NEW k, RequestDecides(h, k)
      PROVE  CodeInv'
  <2>1. CodeTask(k, log)
    BY <1>4, DecisionRuns DEF RequestDecides
  <2> QED
    BY <1>1, <1>4, <2>1 DEF CodeInv, RequestDecides
<1>5. ASSUME NEW h \in Handlers, NEW e \in HandlerEvents, NEW k, RequestAdds(h, k, e)
      PROVE  CodeInv'
  <2>1. CodeTask(task[h], log) /\ e = task[h].todo[1] /\ 1 \in DOMAIN task[h].todo
        /\ Records(log, log', e)
    BY <1>1, <1>5 DEF RequestAdds
  <2>2. e.type \in RunTypes => ~ HasRun(log, e.id)
    BY <2>1 DEF CodeTask
  <2>3. RunOnce(log')
    BY <1>1, <2>1, <2>2, RecordsRuns
  <2>4. \A i \in DOMAIN k.todo : /\ i \in Nat \ {0} /\ i + 1 \in DOMAIN task[h].todo
                                 /\ k.todo[i] = task[h].todo[i + 1]
    BY <1>5 DEF RequestAdds
  <2>5. \A i \in Nat \ {0} : i + 1 # 1
    OBVIOUS
  <2>6. CodeTask(k, log')
    BY <2>1, <2>4, <2>5 DEF CodeTask
  <2> QED
    BY <1>5, <2>3, <2>6 DEF CodeInv, RequestAdds
<1> QED
  BY <1>2, <1>3, <1>4, <1>5, OneRequestCases

\* While one request is served at a time, and whatever its crashes: the code of a
\* turn has at most one recorded outcome. Run events carry no key, so this rests on
\* has_run being asked again before each run.
THEOREM CodeIsRunOnce ==
  ASSUME OneRequest
  PROVE  Spec => []CodeRunOnce
<1>1. Init => CodeInv
  <2> SUFFICES ASSUME Init PROVE CodeInv
    OBVIOUS
  <2>1. Positions(log, RunTypes) = {}
    BY InitLog DEF RunTypes
  <2>2. \A h \in Handlers : CodeTask(task[h], log)
    BY DEF Init, CodeTask, Idle, At, AtWith
  <2> QED
    BY <2>1, <2>2 DEF CodeInv, RunOnce
<1>2. TypeOK /\ CodeInv /\ [Next]_vars => CodeInv'
  BY CodeStep
<1>3. CodeInv => CodeRunOnce
  BY DEF CodeInv, CodeRunOnce, RunOnce, RunTypes
<1> QED
  BY <1>1, <1>2, <1>3, Types, PTL DEF Spec

-----------------------------------------------------------------------------
(* The interview is over when the session ends. *)

\* Nothing is left to introduce or to examine, or the scoring has completed: what
\* the loop takes for the end of the interview.
Settled(L) ==
  \/ AsyncScoringReady(L)
  \/ NextToIntroduce(L) = None /\ ~ NeedsExaminer(L)

FinalTypes == {"ScoreComputed", "Observed", "SessionEnded"}

InterviewTypes ==
  {"TurnPosted", "ArtifactAttached", "ProblemIntroduced", "ProblemClosed", "ScoringRequested"}

Quiet(L) ==
  \A i \in Positions(L, {"SessionEnded"}), j \in Positions(L, InterviewTypes) : j < i

\* Once the session has ended, or is about to, a request is at the top of a step
\* and has only the end itself to append.
EndTask(t, L) ==
  Ended(L) \/ (\E i \in DOMAIN t.todo : t.todo[i].type = "SessionEnded") =>
    /\ Planned(L) /\ Settled(L) /\ Stage(t) \in {"idle", "loop"}
    /\ \A i \in DOMAIN t.todo : t.todo[i].type \in FinalTypes

EndInv == Quiet(log) /\ \A h \in Handlers : EndTask(task[h], log)

\* The end of the interview is not undone by what is appended after it.
LEMMA StaysSettled ==
  ASSUME NEW L, NEW M, NEW e, Records(L, M, e), Settled(L),
         e.type \notin InterviewTypes
  PROVE  Settled(M)
<1>1. CASE M = L
  BY <1>1
<1>2. CASE M # L
  <2>1. Adds(L, M, e)
    BY <1>2 DEF Records
  <2>2. e.type \notin {"ProblemIntroduced", "ProblemClosed"} /\ e.type # "ScoringRequested" /\ e.type # "TurnPosted"
    BY DEF InterviewTypes
  <2>3. CASE AsyncScoringReady(L)
    BY <2>1, <2>2, <2>3, AddsReady DEF Settled
  <2>4. CASE NextToIntroduce(L) = None /\ ~ NeedsExaminer(L)
    <3>1. CurrentProblem(M) = CurrentProblem(L)
      BY <2>1, <2>2, AddsCurrent
    <3>2. ~ NeedsExaminer(M)
      BY <2>1, <2>2, <2>4, AddsLastTurn
    <3>3. \A p : Introduced(M, p) <=> Introduced(L, p)
      BY <2>1, <2>2, AddsLogged DEF Introduced
    <3>4. Fresh(M) = Fresh(L) /\ Foremost(M) = Foremost(L)
      BY <3>3, SameFresh
    <3>5. NextToIntroduce(M) = NextToIntroduce(L)
      BY <3>1, <3>4 DEF NextToIntroduce, Foremost
    <3> QED
      BY <2>4, <3>2, <3>5 DEF Settled
  <2> QED
    BY <2>3, <2>4 DEF Settled
<1> QED
  BY <1>1, <1>2

\* A session that has ended, or is planned, remains so.
LEMMA RecordsEnd ==
  ASSUME NEW L, NEW M, NEW e, Records(L, M, e)
  PROVE  /\ Planned(L) => Planned(M)
         /\ Ended(L) => Ended(M)
         /\ Ended(M) => Ended(L) \/ e.type = "SessionEnded"
<1>1. CASE M = L
  BY <1>1
<1>2. CASE M # L
  <2>1. Adds(L, M, e)
    BY <1>2 DEF Records
  <2>2. \A types : Positions(M, types) = Positions(L, types)
                                           \cup (IF e.type \in types THEN {Len(L) + 1} ELSE {})
    BY <2>1, AddsPositions
  <2> QED
    BY <2>2 DEF Planned, Ended
<1> QED
  BY <1>1, <1>2

\* The log stays quiet while nothing of the interview is recorded behind the end.
LEMMA RecordsQuiet ==
  ASSUME NEW L, NEW M, NEW e, Records(L, M, e), Quiet(L),
         e.type \in InterviewTypes => ~ Ended(L)
  PROVE  Quiet(M)
<1>1. CASE M = L
  BY <1>1
<1>2. CASE M # L
  <2>1. Adds(L, M, e) /\ Len(L) \in Nat
    BY <1>2 DEF Records, Adds
  <2>2. \A types : /\ Positions(L, types) \subseteq 1 .. Len(L)
                   /\ Positions(M, types) = Positions(L, types)
                                              \cup (IF e.type \in types THEN {Len(L) + 1} ELSE {})
    BY <2>1, AddsPositions
  <2>3. CASE e.type \in InterviewTypes
    <3>1. Positions(L, {"SessionEnded"}) = {} /\ e.type # "SessionEnded"
      BY <2>3 DEF Ended, InterviewTypes
    <3>2. Positions(M, {"SessionEnded"}) = {}
      BY <2>2, <3>1
    <3> QED
      BY <3>2 DEF Quiet
  <2>4. CASE e.type \notin InterviewTypes
    <3>1. Positions(M, InterviewTypes) = Positions(L, InterviewTypes)
      BY <2>2, <2>4
    <3>2. \A j \in Positions(L, InterviewTypes) : j \in 1 .. Len(L) /\ j < Len(L) + 1
      BY <2>1, <2>2
    <3>3. \A i \in Positions(M, {"SessionEnded"}) :
            i \in Positions(L, {"SessionEnded"}) \/ i = Len(L) + 1
      BY <2>2
    <3> QED
      BY <3>1, <3>2, <3>3 DEF Quiet
  <2> QED
    BY <2>3, <2>4
<1> QED
  BY <1>1, <1>2

\* After the end a request decides nothing but to score.
LEMMA DecisionEnds ==
  ASSUME NEW t, NEW k, NEW L, WellFormed(k), t.at # "append", EndTask(t, L), Decision(t, k, L)
  PROVE  EndTask(k, L)
<1>1. Ended(L) => Planned(L) /\ Settled(L) /\ t.at \in {"idle", "loop"}
  BY DEF EndTask, Stage
<1>2. CASE Goes(t, k, L)
  <2>1. Stage(k) = k.at /\ DOMAIN k.todo = {}
    BY <1>2, GoesIs
  <2>2. ASSUME Ended(L) PROVE k.at \in {"idle", "loop"}
    <3>1. NextAction(L) # "RequestProbe"
      BY <2>2, NextActionFacts
    <3> QED
      BY <1>1, <1>2, <2>2, <3>1 DEF Goes, Settled
  <2> QED
    BY <1>1, <2>1, <2>2 DEF EndTask
<1>3. CASE Posts(t, k, L)
  BY <1>3, PostsIs DEF EndTask
<1>4. CASE Plans(t, k, L)
  BY <1>1, <1>4, PlansIs DEF EndTask
<1>5. CASE Aggregates(t, k, L)
  BY <1>5, AggregatesIs DEF EndTask, Settled, FinalTypes
<1>6. CASE Introduces(t, k, L)
  BY <1>1, <1>6, IntroducesIs DEF EndTask, Settled
<1>7. CASE Runs(t, k, L)
  BY <1>7, RunsIs DEF EndTask
<1>8. CASE Covers(t, k, L)
  BY <1>1, <1>8, CoversIs DEF EndTask
<1>9. CASE Probes(t, k, L)
  BY <1>1, <1>9, ProbesIs DEF EndTask, IsProbe
<1>10. CASE Closes(t, k, L)
  BY <1>1, <1>10, ClosesIs DEF EndTask
<1> QED
  BY <1>2, <1>3, <1>4, <1>5, <1>6, <1>7, <1>8, <1>9, <1>10 DEF Decision

\* EndInv is inductive when one request is served at a time.
LEMMA EndStep ==
  ASSUME OneRequest, TypeOK, EndInv, [Next]_vars
  PROVE  EndInv'
<1>1. Quiet(log) /\ \A h \in Handlers : EndTask(task[h], log)
  BY DEF EndInv
<1>2. CASE Stays
  <2>1. Stage(Idle) = "idle" /\ DOMAIN Idle.todo = {}
    BY DEF Idle, At, AtWith, Stage
  <2>2. \A t : EndTask(t, log) => EndTask(Idle, log)
    BY <2>1 DEF EndTask
  <2> QED
    BY <1>1, <1>2, <2>2 DEF Stays, EndInv
<1>3. CASE ThreadAdds
  <2>1. PICK e \in WorkerEvents : Records(log, log', e) /\ \A h \in Handlers : task'[h] = task[h]
    BY <1>3 DEF ThreadAdds
  <2>2. e.type \notin InterviewTypes /\ e.type # "SessionEnded"
    BY WorkerEventFacts DEF InterviewTypes
  <2>3. Quiet(log')
    BY <1>1, <2>1, <2>2, RecordsQuiet
  <2>4. /\ Planned(log) => Planned(log')
        /\ Ended(log') => Ended(log)
        /\ Settled(log) => Settled(log')
    BY <2>1, <2>2, RecordsEnd, StaysSettled
  <2>5. \A t : EndTask(t, log) => EndTask(t, log')
    BY <2>4 DEF EndTask
  <2> QED
    BY <1>1, <2>1, <2>3, <2>5 DEF EndInv
<1>4. ASSUME NEW h \in Handlers, NEW k, RequestDecides(h, k)
      PROVE  EndInv'
  <2>1. EndTask(k, log)
    BY <1>1, <1>4, DecisionEnds DEF RequestDecides
  <2> QED
    BY <1>1, <1>4, <2>1 DEF EndInv, RequestDecides
<1>5. ASSUME NEW h \in Handlers, NEW e \in HandlerEvents, NEW k, RequestAdds(h, k, e)
      PROVE  EndInv'
  <2> DEFINE t == task[h]
  <2>1. /\ EndTask(t, log) /\ e = t.todo[1] /\ 1 \in DOMAIN t.todo /\ Records(log, log', e)
        /\ Stage(t) = t.then /\ Stage(k) = t.then
        /\ \A i \in DOMAIN k.todo : i + 1 \in DOMAIN t.todo /\ k.todo[i] = t.todo[i + 1]
        /\ \A g \in Handlers : task'[g] = k
    BY <1>1, <1>5 DEF RequestAdds
  <2> HIDE DEF t
  <2>2. ASSUME Ended(log) \/ \E i \in DOMAIN t.todo : t.todo[i].type = "SessionEnded"
        PROVE  /\ Planned(log) /\ Settled(log) /\ t.then \in {"idle", "loop"}
               /\ e.type \in FinalTypes
               /\ \A i \in DOMAIN k.todo : k.todo[i].type \in FinalTypes
    BY <2>1, <2>2 DEF EndTask
  <2>3. e.type \in FinalTypes => e.type \notin InterviewTypes
    BY DEF FinalTypes, InterviewTypes
  <2>4. Quiet(log')
    BY <1>1, <2>1, <2>2, <2>3, RecordsQuiet
  <2>5. EndTask(k, log')
    <3> SUFFICES ASSUME Ended(log') \/ \E i \in DOMAIN k.todo : k.todo[i].type = "SessionEnded"
                 PROVE  /\ Planned(log') /\ Settled(log') /\ Stage(k) \in {"idle", "loop"}
                        /\ \A i \in DOMAIN k.todo : k.todo[i].type \in FinalTypes
      BY DEF EndTask
    <3>1. Ended(log) \/ \E i \in DOMAIN t.todo : t.todo[i].type = "SessionEnded"
      <4>1. Ended(log') => Ended(log) \/ e.type = "SessionEnded"
        BY <2>1, RecordsEnd
      <4> QED
        BY <2>1, <4>1
    <3>2. Planned(log) /\ Settled(log) /\ e.type \notin InterviewTypes
      BY <2>2, <2>3, <3>1
    <3>3. Planned(log') /\ Settled(log')
      BY <2>1, <3>2, RecordsEnd, StaysSettled
    <3> QED
      BY <2>1, <2>2, <3>1, <3>3
  <2> QED
    BY <2>1, <2>4, <2>5 DEF EndInv
<1> QED
  BY <1>2, <1>3, <1>4, <1>5, OneRequestCases

\* While one request is served at a time, and whatever its crashes: no turn, no
\* artifact, no problem and no scoring request is appended behind SessionEnded,
\* although advance goes on to run on every page view of a session that has ended.
THEOREM NothingAfterEnd ==
  ASSUME OneRequest
  PROVE  Spec => []QuietAfterEnd
<1>1. Init => EndInv
  <2> SUFFICES ASSUME Init PROVE EndInv
    OBVIOUS
  <2>1. Positions(log, {"SessionEnded"}) = {}
    BY InitLog
  <2>2. \A h \in Handlers : EndTask(task[h], log)
    BY <2>1 DEF Init, EndTask, Ended, Idle, At, AtWith
  <2> QED
    BY <2>1, <2>2 DEF EndInv, Quiet
<1>2. TypeOK /\ EndInv /\ [Next]_vars => EndInv'
  BY EndStep
<1>3. EndInv => QuietAfterEnd
  BY DEF EndInv, QuietAfterEnd, Quiet, InterviewTypes
<1> QED
  BY <1>1, <1>2, <1>3, Types, PTL DEF Spec

-----------------------------------------------------------------------------
(* The cap on probes. *)

\* No problem that is active has been given all its probes.
ProbesLeft(L) ==
  \A p \in Problems : Active(L, p) => ProbeCount(L, p) < MaxProbesPerProblem

\* Between the examiner's call and what follows, the problem under review is the
\* active one; a probe is only ever to be appended while one more is allowed.
ProbeTask(t, L) ==
  /\ Stage(t) \in {"examine", "review", "close"} =>
       t.p = CurrentProblem(L) /\ \A i \in DOMAIN t.todo : t.todo[i].type = "Observed"
  /\ Stage(t) = "review" => ProbesLeft(L)
  /\ (\E i \in DOMAIN t.todo : IsProbe(t.todo[i])) =>
       /\ ProbesLeft(L)
       /\ \A i \in DOMAIN t.todo : IsProbe(t.todo[i]) \/ t.todo[i].type = "Observed"
       /\ \A i, j \in DOMAIN t.todo : IsProbe(t.todo[i]) /\ IsProbe(t.todo[j]) => i = j

Capped(L) == \A p \in Problems : ProbeCount(L, p) <= MaxProbesPerProblem

CapInv == Capped(log) /\ \A h \in Handlers : ProbeTask(task[h], log)

\* Recording anything but a probe, an introduction or a closing counts for nothing.
LEMMA RecordsNoProbe ==
  ASSUME NEW L \in Seq(Events), NEW M \in Seq(Events), NEW e, Records(L, M, e), ~ IsProbe(e)
  PROVE  /\ Capped(L) => Capped(M)
         /\ e.type \notin {"ProblemIntroduced", "ProblemClosed"} =>
              /\ ProbesLeft(L) => ProbesLeft(M)
              /\ CurrentProblem(M) = CurrentProblem(L)
<1>1. CASE M = L
  BY <1>1
<1>2. CASE M # L
  <2>1. Adds(L, M, e)
    BY <1>2 DEF Records
  <2>2. \A p : ProbeCount(M, p) = ProbeCount(L, p)
    BY <2>1, AddsProbe
  <2>3. e.type \notin {"ProblemIntroduced", "ProblemClosed"} =>
          /\ CurrentProblem(M) = CurrentProblem(L)
          /\ \A p : Active(M, p) <=> Active(L, p)
    BY <2>1, AddsCurrent, AddsActive
  <2> QED
    BY <2>2, <2>3 DEF Capped, ProbesLeft
<1> QED
  BY <1>1, <1>2

\* Recording a probe while one is left does not pass the cap.
LEMMA RecordsProbe ==
  ASSUME NEW L \in Seq(Events), NEW M \in Seq(Events), NEW e, Records(L, M, e), Capped(L), ProbesLeft(L)
  PROVE  Capped(M)
<1>1. CASE M = L
  BY <1>1
<1>2. CASE M # L
  <2>1. Adds(L, M, e)
    BY <1>2 DEF Records
  <2>2. ASSUME NEW p \in Problems PROVE ProbeCount(M, p) <= MaxProbesPerProblem
    <3>1. \/ ProbeCount(M, p) = ProbeCount(L, p)
          \/ Active(L, p) /\ ProbeCount(M, p) = ProbeCount(L, p) + 1
      BY <2>1, AddsProbe
    <3>2. ProbeCount(L, p) \in Nat /\ MaxProbesPerProblem \in Nat
      BY ProbesAreCounted, BoundsAssumption
    <3>3. CASE ProbeCount(M, p) = ProbeCount(L, p)
      BY <3>3 DEF Capped
    <3>4. CASE Active(L, p) /\ ProbeCount(M, p) = ProbeCount(L, p) + 1
      <4>1. ProbeCount(L, p) < MaxProbesPerProblem
        BY <3>4 DEF ProbesLeft
      <4> QED
        BY <3>2, <3>4, <4>1
    <3> QED
      BY <3>1, <3>3, <3>4
  <2> QED
    BY <2>2 DEF Capped
<1> QED
  BY <1>1, <1>2

\* The examiner is called for the active problem, below the cap.
LEMMA DecisionCaps ==
  ASSUME NEW t, NEW k, NEW L \in Seq(Events), Alone(L), WellFormed(k), t.at # "append",
         ProbeTask(t, L), Decision(t, k, L)
  PROVE  ProbeTask(k, L)
<1>1. Stage(t) = t.at
  BY DEF Stage
<1>2. CASE Goes(t, k, L)
  <2>1. Stage(k) = k.at /\ DOMAIN k.todo = {}
    BY <1>2, GoesIs
  <2>2. CASE k.at \in {"idle", "loop", "probe"}
    BY <2>1, <2>2 DEF ProbeTask
  <2>3. CASE t.at = "probe" /\ k.at = "examine" /\ k.p = CurrentProblem(L)
    BY <2>1, <2>3 DEF ProbeTask
  <2>4. CASE /\ t.at = "examine" /\ k.at = "review" /\ k.p = t.p
             /\ k.p # None => ~ (ProbeCount(L, k.p) >= MaxProbesPerProblem)
    <3>1. k.p = CurrentProblem(L)
      BY <1>1, <2>4 DEF ProbeTask
    <3>2. ASSUME NEW p \in Problems, Active(L, p) PROVE ProbeCount(L, p) < MaxProbesPerProblem
      <4>1. p = k.p /\ p # None
        BY <3>1, <3>2, CurrentFacts
      <4>2. ProbeCount(L, p) \in Nat /\ MaxProbesPerProblem \in Nat
        BY ProbesAreCounted, BoundsAssumption
      <4> QED
        BY <2>4, <4>1, <4>2
    <3> QED
      BY <2>1, <2>4, <3>1, <3>2 DEF ProbeTask, ProbesLeft
  <2>5. CASE t.at \in {"examine", "review"} /\ k.at = "close" /\ k.p = t.p
    BY <1>1, <2>1, <2>5 DEF ProbeTask
  <2>6. CASE k.at = "request"
    BY <2>1, <2>6 DEF ProbeTask
  <2> QED
    BY <1>2, <2>2, <2>3, <2>4, <2>5, <2>6 DEF Goes
<1>3. CASE Posts(t, k, L)
  BY <1>3, PostsIs DEF ProbeTask, IsProbe
<1>4. CASE Plans(t, k, L)
  BY <1>4, PlansIs DEF ProbeTask, IsProbe
<1>5. CASE Aggregates(t, k, L)
  BY <1>5, AggregatesIs DEF ProbeTask, IsProbe
<1>6. CASE Introduces(t, k, L)
  BY <1>6, IntroducesIs DEF ProbeTask, IsProbe
<1>7. CASE Runs(t, k, L)
  BY <1>7, RunsIs DEF ProbeTask, IsProbe
<1>8. CASE Covers(t, k, L)
  BY <1>8, CoversIs DEF ProbeTask, IsProbe
<1>9. CASE Probes(t, k, L)
  <2>1. ProbesLeft(L)
    BY <1>1, <1>9, ProbesIs DEF ProbeTask
  <2> QED
    BY <1>9, <2>1, ProbesIs DEF ProbeTask
<1>10. CASE Closes(t, k, L)
  BY <1>10, ClosesIs DEF ProbeTask, IsProbe
<1> QED
  BY <1>2, <1>3, <1>4, <1>5, <1>6, <1>7, <1>8, <1>9, <1>10 DEF Decision

\* Appending keeps to the cap, and to what the rest of the script relies on.
LEMMA AppendCaps ==
  ASSUME NEW L \in Seq(Events), NEW M \in Seq(Events), NEW t, NEW k, NEW e, Records(L, M, e),
         Capped(L), ProbeTask(t, L), 1 \in DOMAIN t.todo, e = t.todo[1],
         Stage(k) = Stage(t), k.p = t.p,
         \A i \in DOMAIN k.todo :
           i \in Nat \ {0} /\ i + 1 \in DOMAIN t.todo /\ k.todo[i] = t.todo[i + 1]
  PROVE  Capped(M) /\ ProbeTask(k, M)
<1>1. Capped(M)
  <2>1. CASE IsProbe(e)
    <3>1. ProbesLeft(L)
      BY <2>1 DEF ProbeTask
    <3> QED
      BY <3>1, RecordsProbe
  <2>2. CASE ~ IsProbe(e)
    BY <2>2, RecordsNoProbe
  <2> QED
    BY <2>1, <2>2
<1>2. ~ IsProbe(e) /\ e.type = "Observed" =>
        (ProbesLeft(L) => ProbesLeft(M)) /\ CurrentProblem(M) = CurrentProblem(L)
  BY RecordsNoProbe
<1>3. e.type = "Observed" => ~ IsProbe(e)
  BY DEF IsProbe
<1>4. \A i \in Nat \ {0} : i + 1 # 1
  OBVIOUS
<1>5. Stage(k) \in {"examine", "review", "close"} =>
        k.p = CurrentProblem(M) /\ \A i \in DOMAIN k.todo : k.todo[i].type = "Observed"
  BY <1>2, <1>3 DEF ProbeTask
<1>6. Stage(k) = "review" => ProbesLeft(M)
  BY <1>2, <1>3 DEF ProbeTask
<1>7. ASSUME NEW m \in DOMAIN k.todo, IsProbe(k.todo[m])
      PROVE  /\ ProbesLeft(M)
             /\ \A i \in DOMAIN k.todo : IsProbe(k.todo[i]) \/ k.todo[i].type = "Observed"
             /\ \A i, j \in DOMAIN k.todo : IsProbe(k.todo[i]) /\ IsProbe(k.todo[j]) => i = j
  <2>1. m + 1 \in DOMAIN t.todo /\ IsProbe(t.todo[m + 1]) /\ m + 1 # 1
    BY <1>4, <1>7
  <2>2. /\ ProbesLeft(L)
        /\ \A i \in DOMAIN t.todo : IsProbe(t.todo[i]) \/ t.todo[i].type = "Observed"
        /\ \A i, j \in DOMAIN t.todo : IsProbe(t.todo[i]) /\ IsProbe(t.todo[j]) => i = j
    BY <2>1 DEF ProbeTask
  <2>3. ~ IsProbe(e) /\ e.type = "Observed"
    BY <2>1, <2>2
  <2>4. \A i, j \in DOMAIN k.todo : IsProbe(k.todo[i]) /\ IsProbe(k.todo[j]) => i = j
    <3> SUFFICES ASSUME NEW i \in DOMAIN k.todo, NEW j \in DOMAIN k.todo,
                        IsProbe(k.todo[i]), IsProbe(k.todo[j])
                 PROVE  i = j
      OBVIOUS
    <3>1. i + 1 = j + 1 /\ i \in Nat /\ j \in Nat
      BY <2>2
    <3> QED
      BY <3>1
  <2> QED
    BY <1>2, <2>2, <2>3, <2>4
<1> QED
  BY <1>1, <1>5, <1>6, <1>7 DEF ProbeTask

\* CapInv is inductive when one request is served at a time.
LEMMA CapStep ==
  ASSUME OneRequest, TypeOK, TypeOK', SequencerInv, CapInv, [Next]_vars
  PROVE  CapInv'
<1>1. /\ Capped(log) /\ \A h \in Handlers : ProbeTask(task[h], log)
      /\ log \in Seq(Events) /\ log' \in Seq(Events) /\ Alone(log)
  BY DEF CapInv, SequencerInv, TypeOK, Events
<1>2. CASE Stays
  <2>1. Stage(Idle) = "idle" /\ DOMAIN Idle.todo = {}
    BY DEF Idle, At, AtWith, Stage
  <2>2. ProbeTask(Idle, log)
    BY <2>1 DEF ProbeTask
  <2> QED
    BY <1>1, <1>2, <2>2 DEF Stays, CapInv
<1>3. CASE ThreadAdds
  <2>1. PICK e \in WorkerEvents : Records(log, log', e) /\ \A h \in Handlers : task'[h] = task[h]
    BY <1>3 DEF ThreadAdds
  <2>2. e.type \notin {"ProblemIntroduced", "ProblemClosed"} /\ ~ IsProbe(e)
    BY WorkerEventFacts DEF IsProbe
  <2>3. Capped(log') /\ (ProbesLeft(log) => ProbesLeft(log')) /\ CurrentProblem(log') = CurrentProblem(log)
    BY <1>1, <2>1, <2>2, RecordsNoProbe
  <2>4. \A t : ProbeTask(t, log) => ProbeTask(t, log')
    BY <2>3 DEF ProbeTask
  <2> QED
    BY <1>1, <2>1, <2>3, <2>4 DEF CapInv
<1>4. ASSUME NEW h \in Handlers, NEW k, RequestDecides(h, k)
      PROVE  CapInv'
  <2>1. ProbeTask(k, log)
    BY <1>1, <1>4, DecisionCaps DEF RequestDecides
  <2> QED
    BY <1>1, <1>4, <2>1 DEF CapInv, RequestDecides
<1>5. ASSUME NEW h \in Handlers, NEW e \in HandlerEvents, NEW k, RequestAdds(h, k, e)
      PROVE  CapInv'
  <2> DEFINE t == task[h]
  <2>1. /\ ProbeTask(t, log) /\ e = t.todo[1] /\ 1 \in DOMAIN t.todo /\ Records(log, log', e)
        /\ Stage(k) = Stage(t) /\ k.p = t.p
        /\ \A i \in DOMAIN k.todo :
             i \in Nat \ {0} /\ i + 1 \in DOMAIN t.todo /\ k.todo[i] = t.todo[i + 1]
        /\ \A g \in Handlers : task'[g] = k
    BY <1>1, <1>5 DEF RequestAdds, SameLocals
  <2> HIDE DEF t
  <2>2. Capped(log') /\ ProbeTask(k, log')
    BY <1>1, <2>1, AppendCaps
  <2> QED
    BY <2>1, <2>2 DEF CapInv
<1> QED
  BY <1>2, <1>3, <1>4, <1>5, OneRequestCases

\* While one request is served at a time, and whatever its crashes: no problem is
\* given more probes than the cap, which the request compares with a count it reads
\* several steps before the probe is appended.
THEOREM ProbesAreCapped ==
  ASSUME OneRequest
  PROVE  Spec => []ProbeCap
<1>1. Init => CapInv
  <2> SUFFICES ASSUME Init PROVE CapInv
    OBVIOUS
  <2>1. \A h \in Handlers : ProbeTask(task[h], log)
    <3>1. Stage(Idle) = "idle" /\ DOMAIN Idle.todo = {}
      BY DEF Idle, At, AtWith, Stage
    <3> QED
      BY <3>1 DEF Init, ProbeTask
  <2>2. ASSUME NEW p \in Problems PROVE ProbeCount(log, p) <= MaxProbesPerProblem
    <3>1. ProbesOf(log, p) = {}
      BY InitLog DEF ProbesOf, TurnsOf
    <3>2. ProbeCount(log, p) = 0
      BY <3>1, InitLog, ProbesAreCounted, FS_EmptySet
    <3> QED
      BY <3>2, BoundsAssumption
  <2> QED
    BY <2>1, <2>2 DEF CapInv, Capped
<1>2. TypeOK /\ TypeOK' /\ SequencerInv /\ CapInv /\ [Next]_vars => CapInv'
  BY CapStep
<1>3. CapInv => ProbeCap
  BY DEF CapInv, ProbeCap, Capped
<1> QED
  BY <1>1, <1>2, <1>3, Types, SequencerInvariant, PTL DEF Spec

-----------------------------------------------------------------------------
(* A scoring request names the whole answer. *)

\* The artifacts attached, while p was active, to a candidate's turn posted while it
\* was: what RequestIsComplete asks of a request.
BracketAt(L, p) ==
  {i \in Positions(L, {"ArtifactAttached"}) :
     /\ Active(SubSeq(L, 1, i), p)
     /\ \E t \in TurnsOf(L, "candidate") :
          t < i /\ L[t].id = L[i].turn /\ Active(SubSeq(L, 1, t), p)}

Names(L, p, arts) == \A i \in BracketAt(L, p) : L[i].id \in arts

IsRequest(e) == e.type = "ScoringRequested"

\* A request is appended right after the closing of its problem, for artifacts read
\* before.
RequestTask(t, L) ==
  /\ Stage(t) = "request" => t.at = "request" /\ Names(L, t.p, t.arts)
  /\ \A i \in DOMAIN t.todo : IsRequest(t.todo[i]) =>
       /\ Names(L, t.todo[i].id, t.todo[i].artifacts)
       /\ \/ i = 1 /\ Logged(L, "ProblemClosed", t.todo[i].id)
          \/ i = 2 /\ t.todo[1].type = "ProblemClosed" /\ t.todo[1].id = t.todo[i].id

Answered(L) ==
  \A r \in Positions(L, {"ScoringRequested"}) :
    Names(L, L[r].id, L[r].artifacts) /\ Logged(L, "ProblemClosed", L[r].id)

RequestInv == Answered(log) /\ \A h \in Handlers : RequestTask(task[h], log)

\* _candidate_artifacts_for_problem finds all of them: it reads the log backwards
\* from an introduction, and that is the only introduction of the problem.
LEMMA BracketIsRead ==
  ASSUME NEW L \in Seq(Events), UniqueKeys(L), Alone(L), NEW p
  PROVE  Names(L, p, CandidateArtifacts(L, p))
<1>1. Len(L) \in Nat /\ DOMAIN L = 1 .. Len(L)
  OBVIOUS
<1>2. ASSUME NEW i \in 1 .. Len(L), Active(SubSeq(L, 1, i), p)
      PROVE  \E j \in 1 .. i : /\ L[j].type = "ProblemIntroduced" /\ L[j].id = p
                               /\ ~ \E m \in j .. i : L[m].type = "ProblemClosed" /\ L[m].id = p
  <2> DEFINE P == SubSeq(L, 1, i)
  <2>1. Len(P) = i /\ DOMAIN P = 1 .. i /\ i \in Nat /\ \A m \in 1 .. i : P[m] = L[m]
    BY <1>1
  <2> HIDE DEF P
  <2>2. PICK j \in DOMAIN P : /\ P[j].type = "ProblemIntroduced" /\ P[j].id = p
                              /\ ~ \E m \in j .. Len(P) : P[m].type = "ProblemClosed" /\ P[m].id = p
    BY <1>2 DEF Active, P
  <2>3. j \in 1 .. i /\ \A m \in j .. i : m \in 1 .. i
    BY <2>1, <2>2
  <2> QED
    BY <2>1, <2>2, <2>3
<1>3. SUFFICES ASSUME NEW a \in BracketAt(L, p)
               PROVE  L[a].id \in CandidateArtifacts(L, p)
  BY DEF Names
<1>4. a \in 1 .. Len(L) /\ L[a].type = "ArtifactAttached" /\ Active(SubSeq(L, 1, a), p)
  BY DEF BracketAt, Positions
<1>5. PICK t \in TurnsOf(L, "candidate") :
        t < a /\ L[t].id = L[a].turn /\ Active(SubSeq(L, 1, t), p)
  BY DEF BracketAt
<1>6. t \in 1 .. Len(L) /\ L[t].type = "TurnPosted"
  BY DEF TurnsOf, Positions
<1>7. PICK j \in 1 .. a : /\ L[j].type = "ProblemIntroduced" /\ L[j].id = p
                          /\ ~ \E m \in j .. a : L[m].type = "ProblemClosed" /\ L[m].id = p
  BY <1>2, <1>4
<1>8. PICK j2 \in 1 .. t : L[j2].type = "ProblemIntroduced" /\ L[j2].id = p
  BY <1>2, <1>5, <1>6
<1>9. j \in DOMAIN L /\ j2 \in DOMAIN L /\ j # a /\ j2 # t
  BY <1>1, <1>4, <1>6, <1>7, <1>8
<1>10. j = j2
  <2>1. L[j] \in Events /\ L[j2] \in Events
    BY <1>9
  <2>2. SameKey(L[j], L[j2]) /\ ~ Keyless(L[j])
    BY <1>7, <1>8, <2>1, KeyNames, KeylessFacts DEF Events
  <2> QED
    BY <1>9, <2>2 DEF UniqueKeys
<1>11. j < t /\ j < a
  <2>1. t \in Nat /\ a \in Nat /\ j \in Nat /\ j <= t /\ j # t /\ t < a
    BY <1>1, <1>4, <1>5, <1>6, <1>8, <1>9, <1>10
  <2> QED
    BY <2>1
<1>12. InBracket(L, p, j, a)
  <2> SUFFICES ASSUME NEW m \in (j + 1) .. (a - 1),
                      L[m].type = "ProblemIntroduced" \/ (L[m].type = "ProblemClosed" /\ L[m].id = p)
               PROVE  FALSE
    BY <1>7, <1>11 DEF InBracket
  <2>1. m \in j .. a /\ m \in DOMAIN L /\ j < m
    BY <1>1, <1>4, <1>7
  <2>2. L[m].type = "ProblemIntroduced"
    BY <1>7, <2>1
  <2>3. PICK c \in j .. m : L[c].type = "ProblemClosed" /\ L[c].id = p
    BY <1>7, <1>9, <2>1, <2>2 DEF Alone, Positions
  <2>4. c \in j .. a
    BY <1>1, <1>4, <1>7, <2>1
  <2> QED
    BY <1>7, <2>3, <2>4
<1>13. L[a].kind # "prompt"
  <2>1. L[a] \in Events
    BY <1>1, <1>4
  <2>2. L[a] \in HandlerEvents
    BY <1>4, <2>1, RequestsEvents
  <2> QED
    BY <1>4, <2>2, HandlerEventFacts DEF Kinds
<1>14. a \in Positions(L, {"ArtifactAttached"})
  BY DEF BracketAt
<1> QED
  BY <1>5, <1>9, <1>11, <1>12, <1>13, <1>14 DEF CandidateArtifacts

\* An answer grows only by an artifact attached while its problem is active.
LEMMA BracketStays ==
  ASSUME NEW L \in Seq(Events), NEW M \in Seq(Events), NEW e, Records(L, M, e), NEW p,
         e.type # "ArtifactAttached" \/ ~ Active(M, p)
  PROVE  \A arts : Names(L, p, arts) => Names(M, p, arts)
<1>1. CASE M = L
  BY <1>1
<1>2. CASE M # L
  <2> DEFINE n == Len(L)
  <2>1. Adds(L, M, e)
    BY <1>2 DEF Records
  <2>2. n \in Nat /\ M[n + 1] = e /\ DOMAIN M = 1 .. n + 1 /\ DOMAIN L = 1 .. n
        /\ \A i \in 1 .. n : M[i] = L[i]
    BY <2>1 DEF Adds
  <2>3. SubSeq(M, 1, n + 1) = M /\ \A i \in 1 .. n : SubSeq(M, 1, i) = SubSeq(L, 1, i)
    BY <2>1, AddsPrefix
  <2> HIDE DEF n
  <2>4. ASSUME NEW i \in BracketAt(M, p)
        PROVE  i \in BracketAt(L, p) /\ M[i] = L[i]
    <3>1. i \in DOMAIN M /\ M[i].type = "ArtifactAttached" /\ Active(SubSeq(M, 1, i), p)
      BY DEF BracketAt, Positions
    <3>2. PICK t \in TurnsOf(M, "candidate") :
            t < i /\ M[t].id = M[i].turn /\ Active(SubSeq(M, 1, t), p)
      BY DEF BracketAt
    <3>3. i # n + 1
      BY <2>2, <2>3, <3>1
    <3>4. i \in 1 .. n
      BY <2>2, <3>1, <3>3
    <3>5. t \in DOMAIN M /\ M[t].type = "TurnPosted" /\ M[t].actor = "candidate"
      BY DEF TurnsOf, Positions
    <3>6. t \in 1 .. n
      BY <2>2, <3>2, <3>4, <3>5
    <3>7. t \in TurnsOf(L, "candidate") /\ i \in Positions(L, {"ArtifactAttached"})
      BY <2>2, <3>1, <3>4, <3>5, <3>6 DEF TurnsOf, Positions
    <3>8. M[i] = L[i] /\ M[t] = L[t] /\ Active(SubSeq(L, 1, i), p) /\ Active(SubSeq(L, 1, t), p)
      BY <2>2, <2>3, <3>1, <3>2, <3>4, <3>6
    <3> QED
      BY <3>2, <3>7, <3>8 DEF BracketAt
  <2> QED
    BY <2>4 DEF Names
<1> QED
  BY <1>1, <1>2

\* Once recorded an event is logged, and whatever was logged is.
LEMMA RecordsLogged ==
  ASSUME NEW L, NEW M, NEW e, Records(L, M, e)
  PROVE  /\ \A type, id : Logged(L, type, id) => Logged(M, type, id)
         /\ e.type # "Observed" => Logged(M, e.type, e.id)
<1>1. CASE M = L
  BY <1>1, RecordedAlready DEF Observation, Event
<1>2. CASE M # L
  <2>1. Adds(L, M, e)
    BY <1>2 DEF Records
  <2> QED
    BY <2>1, AddsLogged
<1> QED
  BY <1>1, <1>2

\* A complete request makes a log whose requests are complete, and they stay so: the
\* problem of a logged request is closed.
LEMMA RecordsAnswered ==
  ASSUME NEW L \in Seq(Events), NEW M \in Seq(Events), NEW e, Records(L, M, e),
         Answered(L), StaysClosed(M),
         IsRequest(e) => Names(L, e.id, e.artifacts) /\ Logged(L, "ProblemClosed", e.id)
  PROVE  Answered(M)
<1>1. CASE M = L
  BY <1>1
<1>2. CASE M # L
  <2> SUFFICES ASSUME NEW r \in Positions(M, {"ScoringRequested"})
               PROVE  Names(M, M[r].id, M[r].artifacts) /\ Logged(M, "ProblemClosed", M[r].id)
    BY DEF Answered
  <2>1. Adds(L, M, e)
    BY <1>2 DEF Records
  <2>2. \/ r \in Positions(L, {"ScoringRequested"}) /\ M[r] = L[r]
        \/ M[r] = e /\ IsRequest(e)
    BY <2>1 DEF Adds, Positions, IsRequest
  <2>3. Names(L, M[r].id, M[r].artifacts) /\ Logged(L, "ProblemClosed", M[r].id)
    BY <2>2 DEF Answered
  <2>4. Logged(M, "ProblemClosed", M[r].id) /\ ~ Active(M, M[r].id)
    BY <2>3, RecordsLogged DEF StaysClosed
  <2> QED
    BY <2>3, <2>4, BracketStays
<1> QED
  BY <1>1, <1>2

\* A problem is closed with a request for what its answer is made of.
LEMMA DecisionRequests ==
  ASSUME NEW t, NEW k, NEW L \in Seq(Events), UniqueKeys(L), Alone(L), WellFormed(k),
         t.at # "append", RequestTask(t, L), Decision(t, k, L)
  PROVE  RequestTask(k, L)
<1>1. CASE Goes(t, k, L)
  <2>1. Stage(k) = k.at /\ DOMAIN k.todo = {}
    BY <1>1, GoesIs
  <2>2. k.at = "request" => k.p = t.p /\ k.arts = CandidateArtifacts(L, t.p)
    BY <1>1 DEF Goes
  <2> QED
    BY <2>1, <2>2, BracketIsRead DEF RequestTask
<1>2. CASE Posts(t, k, L)
  BY <1>2, PostsIs DEF RequestTask, IsRequest
<1>3. CASE Plans(t, k, L)
  BY <1>3, PlansIs DEF RequestTask, IsRequest
<1>4. CASE Aggregates(t, k, L)
  BY <1>4, AggregatesIs DEF RequestTask, IsRequest
<1>5. CASE Introduces(t, k, L)
  BY <1>5, IntroducesIs DEF RequestTask, IsRequest
<1>6. CASE Runs(t, k, L)
  BY <1>6, RunsIs DEF RequestTask, IsRequest
<1>7. CASE Covers(t, k, L)
  BY <1>7, CoversIs DEF RequestTask, IsRequest
<1>8. CASE Probes(t, k, L)
  BY <1>8, ProbesIs DEF RequestTask, IsRequest, IsProbe
<1>9. CASE Closes(t, k, L)
  <2>1. Names(L, t.p, t.arts) /\ Stage(k) # "request"
    BY <1>9, ClosesIs DEF RequestTask, Stage
  <2>2. Event("ProblemClosed", t.p).type = "ProblemClosed" /\ Event("ProblemClosed", t.p).id = t.p
    BY DEF Event
  <2>3. ASSUME NEW i \in DOMAIN k.todo, IsRequest(k.todo[i])
        PROVE  /\ i = 2 /\ k.todo[i].id = t.p /\ k.todo[i].artifacts = t.arts
               /\ k.todo[1] = Event("ProblemClosed", t.p)
    BY <1>9, <2>3, ClosesIs DEF IsRequest
  <2> QED
    BY <2>1, <2>2, <2>3 DEF RequestTask
<1> QED
  BY <1>1, <1>2, <1>3, <1>4, <1>5, <1>6, <1>7, <1>8, <1>9 DEF Decision

\* RequestInv is inductive when one request is served at a time.
LEMMA RequestStep ==
  ASSUME OneRequest, TypeOK, TypeOK', SequencerInv, SequencerInv', UniqueKeys(log), RequestInv, [Next]_vars
  PROVE  RequestInv'
<1>1. /\ Answered(log) /\ \A h \in Handlers : RequestTask(task[h], log)
      /\ log \in Seq(Events) /\ log' \in Seq(Events) /\ Alone(log) /\ StaysClosed(log')
      /\ UniqueKeys(log)
  BY DEF RequestInv, SequencerInv, TypeOK, Events
<1>2. CASE Stays
  <2>1. RequestTask(Idle, log)
    BY DEF RequestTask, Idle, At, AtWith, Stage
  <2> QED
    BY <1>1, <1>2, <2>1 DEF Stays, RequestInv
<1>3. CASE ThreadAdds
  <2>1. PICK e \in WorkerEvents : Records(log, log', e) /\ \A h \in Handlers : task'[h] = task[h]
    BY <1>3 DEF ThreadAdds
  <2>2. e.type # "ArtifactAttached" /\ ~ IsRequest(e)
    BY WorkerEventFacts DEF IsRequest
  <2>3. Answered(log')
    BY <1>1, <2>1, <2>2, RecordsAnswered
  <2>4. \A p, arts : Names(log, p, arts) => Names(log', p, arts)
    BY <1>1, <2>1, <2>2, BracketStays
  <2>5. \A type, id : Logged(log, type, id) => Logged(log', type, id)
    BY <2>1, RecordsLogged
  <2>6. \A t : RequestTask(t, log) => RequestTask(t, log')
    BY <2>4, <2>5 DEF RequestTask
  <2> QED
    BY <1>1, <2>1, <2>3, <2>6 DEF RequestInv
<1>4. ASSUME NEW h \in Handlers, NEW k, RequestDecides(h, k)
      PROVE  RequestInv'
  <2>1. RequestTask(k, log)
    BY <1>1, <1>4, DecisionRequests DEF RequestDecides
  <2> QED
    BY <1>1, <1>4, <2>1 DEF RequestInv, RequestDecides
<1>5. ASSUME NEW h \in Handlers, NEW e \in HandlerEvents, NEW k, RequestAdds(h, k, e)
      PROVE  RequestInv'
  <2> DEFINE t == task[h]
  <2>1. /\ RequestTask(t, log) /\ e = t.todo[1] /\ 1 \in DOMAIN t.todo /\ Records(log, log', e)
        /\ \A i \in DOMAIN k.todo :
             i \in Nat \ {0} /\ i + 1 \in DOMAIN t.todo /\ k.todo[i] = t.todo[i + 1]
        /\ \A g \in Handlers : task'[g] = k
        /\ t.at = "append" /\ Stage(k) = Stage(t)
    BY <1>1, <1>5 DEF RequestAdds
  <2> HIDE DEF t
  <2>2. IsRequest(e) => Names(log, e.id, e.artifacts) /\ Logged(log, "ProblemClosed", e.id)
    BY <2>1 DEF RequestTask
  <2>3. Answered(log')
    BY <1>1, <2>1, <2>2, RecordsAnswered
  <2>4. ASSUME NEW i \in DOMAIN k.todo, IsRequest(k.todo[i])
        PROVE  /\ Names(log', k.todo[i].id, k.todo[i].artifacts)
               /\ i = 1 /\ Logged(log', "ProblemClosed", k.todo[i].id)
    <3>1. i \in Nat \ {0} /\ i + 1 \in DOMAIN t.todo /\ k.todo[i] = t.todo[i + 1]
      BY <2>1
    <3>2. /\ Names(log, k.todo[i].id, k.todo[i].artifacts)
          /\ \/ i + 1 = 1
             \/ i + 1 = 2 /\ e.type = "ProblemClosed" /\ e.id = k.todo[i].id
      <4>1. \A j \in DOMAIN t.todo : IsRequest(t.todo[j]) =>
              /\ Names(log, t.todo[j].id, t.todo[j].artifacts)
              /\ \/ j = 1
                 \/ j = 2 /\ t.todo[1].type = "ProblemClosed" /\ t.todo[1].id = t.todo[j].id
        BY <2>1 DEF RequestTask
      <4>2. IsRequest(t.todo[i + 1])
        BY <2>4, <3>1
      <4> QED
        BY <2>1, <3>1, <4>1, <4>2
    <3>3. i = 1 /\ e.type = "ProblemClosed" /\ e.id = k.todo[i].id
      BY <3>1, <3>2
    <3>4. Names(log', k.todo[i].id, k.todo[i].artifacts)
      <4>1. e.type # "ArtifactAttached"
        BY <3>3
      <4>2. \A p, arts : Names(log, p, arts) => Names(log', p, arts)
        BY <1>1, <2>1, <4>1, BracketStays
      <4> QED
        BY <3>2, <4>2
    <3>5. Logged(log', "ProblemClosed", k.todo[i].id)
      BY <2>1, <3>3, RecordsLogged
    <3> QED
      BY <3>3, <3>4, <3>5
  <2>5. RequestTask(k, log')
    BY <2>1, <2>4 DEF RequestTask
  <2> QED
    BY <2>1, <2>3, <2>5 DEF RequestInv
<1> QED
  BY <1>2, <1>3, <1>4, <1>5, OneRequestCases

\* While one request is served at a time, and whatever its crashes: a scoring
\* request names every artifact the candidate attached to a turn of the problem
\* while it was active, the outputs of the code that was run included.
THEOREM RequestsAreComplete ==
  ASSUME OneRequest
  PROVE  Spec => []RequestIsComplete
<1>1. Init => RequestInv
  <2> SUFFICES ASSUME Init PROVE RequestInv
    OBVIOUS
  <2>1. Answered(log)
    BY InitLog DEF Answered
  <2>2. \A h \in Handlers : RequestTask(task[h], log)
    BY DEF Init, RequestTask, Idle, At, AtWith, Stage
  <2> QED
    BY <2>1, <2>2 DEF RequestInv
<1>2. TypeOK /\ TypeOK' /\ SequencerInv /\ SequencerInv' /\ UniqueKeys(log) /\ RequestInv /\ [Next]_vars
        => RequestInv'
  BY RequestStep
<1>3. RequestInv => RequestIsComplete
  <2> SUFFICES ASSUME Answered(log) PROVE RequestIsComplete
    BY DEF RequestInv
  <2> SUFFICES ASSUME NEW r \in Positions(log, {"ScoringRequested"}),
                      NEW a \in Positions(log, {"ArtifactAttached"}),
                      Active(SubSeq(log, 1, a), log[r].id),
                      \E t \in TurnsOf(log, "candidate") :
                        t < a /\ log[t].id = log[a].turn /\ Active(SubSeq(log, 1, t), log[r].id)
               PROVE  log[a].id \in log[r].artifacts
    BY DEF RequestIsComplete
  <2>1. a \in BracketAt(log, log[r].id)
    BY DEF BracketAt
  <2> QED
    BY <2>1 DEF Answered, Names
<1> QED
  BY <1>1, <1>2, <1>3, Types, SequencerInvariant, KeysUnique, PTL DEF Spec

-----------------------------------------------------------------------------
(* What a request and a signal cite was written for their problem.  This needs no   *)
(* assumption on the number of requests in progress.                                *)

\* Form n was posted between the introduction of p and the next one or p's closing.
TurnIn(L, n, p) ==
  \E t \in TurnsOf(L, "candidate"), j \in DOMAIN L : L[t].id = n /\ InBracket(L, p, j, t)

Belongs(L, p, arts) == \A x \in arts : TurnIn(L, x[2], p)

Source(L, e) ==
  /\ e.type = "SignalEmitted" => Belongs(L, e.id[1], e.refs)
  /\ e.type = "ScoringRequested" =>
       Belongs(L, e.id, e.artifacts) /\ e.artifacts \cap ScorableArtifacts(L) # {}

SourceTask(t, L) ==
  /\ \A i \in DOMAIN t.todo : Source(L, t.todo[i])
  /\ Stage(t) \in {"request", "enqueue"} => Belongs(L, t.p, t.arts)
  /\ Stage(t) = "request" => t.arts \subseteq ScorableArtifacts(L)

SourceInv ==
  /\ \A i \in DOMAIN log : Source(log, log[i])
  /\ \A h \in Handlers : SourceTask(task[h], log)
  /\ \A i \in DOMAIN queue : Belongs(log, queue[i].p, queue[i].arts)
  /\ \A i \in DOMAIN worker.todo : Source(log, worker.todo[i])

\* A form is posted for one problem.
LEMMA TurnInOne ==
  ASSUME NEW L \in Seq(Events), UniqueKeys(L), NEW n, NEW p, NEW q, TurnIn(L, n, p), TurnIn(L, n, q)
  PROVE  p = q
<1>1. Len(L) \in Nat /\ DOMAIN L = 1 .. Len(L)
  OBVIOUS
<1>2. PICK t \in TurnsOf(L, "candidate"), j \in DOMAIN L : L[t].id = n /\ InBracket(L, p, j, t)
  BY DEF TurnIn
<1>3. PICK u \in TurnsOf(L, "candidate"), k \in DOMAIN L : L[u].id = n /\ InBracket(L, q, k, u)
  BY DEF TurnIn
<1>4. t = u
  <2>1. t \in DOMAIN L /\ u \in DOMAIN L /\ L[t].type = "TurnPosted" /\ L[u].type = "TurnPosted"
    BY DEF TurnsOf, Positions
  <2>2. L[t] \in Events /\ L[u] \in Events
    BY <2>1
  <2>3. SameKey(L[t], L[u]) /\ ~ Keyless(L[t])
    BY <1>2, <1>3, <2>1, <2>2, KeyNames, KeylessFacts DEF Events
  <2> QED
    BY <2>1, <2>3 DEF UniqueKeys
<1>5. /\ t \in DOMAIN L /\ j < t /\ k < t
      /\ L[j].type = "ProblemIntroduced" /\ L[j].id = p
      /\ L[k].type = "ProblemIntroduced" /\ L[k].id = q
      /\ ~ \E m \in (j + 1) .. (t - 1) : L[m].type = "ProblemIntroduced"
      /\ ~ \E m \in (k + 1) .. (t - 1) : L[m].type = "ProblemIntroduced"
  BY <1>2, <1>3, <1>4 DEF InBracket, TurnsOf, Positions
<1>6. ~ (j < k) /\ ~ (k < j)
  <2>1. j < k => k \in (j + 1) .. (t - 1)
    BY <1>1, <1>5
  <2>2. k < j => j \in (k + 1) .. (t - 1)
    BY <1>1, <1>5
  <2> QED
    BY <1>5, <2>1, <2>2
<1>7. j = k
  BY <1>1, <1>6
<1> QED
  BY <1>5, <1>7

\* _candidate_artifacts_for_problem returns artifacts of turns of the problem, which
\* are among those _scoring_incomplete looks for.
LEMMA CandidatesBelong ==
  ASSUME NEW L \in Seq(Events), NEW p
  PROVE  /\ Belongs(L, p, CandidateArtifacts(L, p))
         /\ CandidateArtifacts(L, p) \subseteq ScorableArtifacts(L)
<1>1. Len(L) \in Nat /\ DOMAIN L = 1 .. Len(L)
  OBVIOUS
<1>2. ASSUME NEW x \in CandidateArtifacts(L, p)
      PROVE  TurnIn(L, x[2], p) /\ x \in ScorableArtifacts(L)
  <2>1. PICK a \in Positions(L, {"ArtifactAttached"}) :
          /\ x = L[a].id /\ L[a].kind # "prompt"
          /\ \E t \in TurnsOf(L, "candidate"), j \in DOMAIN L :
               L[t].id = L[a].turn /\ j < t /\ t < a /\ InBracket(L, p, j, a)
    BY DEF CandidateArtifacts
  <2>2. PICK t \in TurnsOf(L, "candidate"), j \in DOMAIN L :
          L[t].id = L[a].turn /\ j < t /\ t < a /\ InBracket(L, p, j, a)
    BY <2>1
  <2>3. x \in ScorableArtifacts(L)
    BY <2>1, <2>2 DEF ScorableArtifacts
  <2>4. a \in DOMAIN L /\ L[a].type = "ArtifactAttached" /\ t \in DOMAIN L
    BY DEF Positions, TurnsOf
  <2>5. x[2] = L[a].turn
    <3>1. L[a] \in HandlerEvents
      BY <2>4, RequestsEvents
    <3>2. L[a].id = <<L[a].kind, L[a].turn>>
      BY <2>4, <3>1, HandlerEventFacts
    <3> QED
      BY <2>1, <3>2
  <2>6. InBracket(L, p, j, t)
    <3>1. (j + 1) .. (t - 1) \subseteq (j + 1) .. (a - 1)
      BY <1>1, <2>2, <2>4
    <3> QED
      BY <2>2, <3>1 DEF InBracket
  <2> QED
    BY <2>2, <2>3, <2>5, <2>6 DEF TurnIn
<1> QED
  BY <1>2 DEF Belongs

\* What was written for a problem, and what can be scored, still is when the log grows.
LEMMA SourceStays ==
  ASSUME NEW L \in Seq(Events), NEW M \in Seq(Events), NEW e, Records(L, M, e)
  PROVE  /\ \A n, p : TurnIn(L, n, p) => TurnIn(M, n, p)
         /\ \A p, arts : Belongs(L, p, arts) => Belongs(M, p, arts)
         /\ \A f : Source(L, f) => Source(M, f)
         /\ \A t : SourceTask(t, L) => SourceTask(t, M)
<1>1. \A i \in DOMAIN L : i \in DOMAIN M /\ M[i] = L[i]
  BY RecordsGrows
<1>2. Len(L) \in Nat /\ DOMAIN L = 1 .. Len(L)
  OBVIOUS
<1>3. ASSUME NEW n, NEW p, TurnIn(L, n, p)
      PROVE  TurnIn(M, n, p)
  <2>1. PICK t \in TurnsOf(L, "candidate"), j \in DOMAIN L : L[t].id = n /\ InBracket(L, p, j, t)
    BY <1>3 DEF TurnIn
  <2>2. t \in DOMAIN L /\ t \in TurnsOf(M, "candidate") /\ M[t].id = n /\ j \in DOMAIN M
    BY <1>1, <2>1 DEF TurnsOf, Positions
  <2>3. (j + 1) .. (t - 1) \subseteq DOMAIN L
    BY <1>2, <2>2
  <2>4. InBracket(M, p, j, t)
    BY <1>1, <2>1, <2>3 DEF InBracket
  <2> QED
    BY <2>2, <2>4 DEF TurnIn
<1>4. ScorableArtifacts(L) \subseteq ScorableArtifacts(M)
  <2>1. Positions(L, {"ArtifactAttached"}) \subseteq Positions(M, {"ArtifactAttached"})
        /\ TurnsOf(L, "candidate") \subseteq TurnsOf(M, "candidate")
    BY <1>1 DEF Positions, TurnsOf
  <2>2. \A i \in Positions(L, {"ArtifactAttached"}) : M[i] = L[i]
    BY <1>1 DEF Positions
  <2>3. \A i \in TurnsOf(L, "candidate") : M[i] = L[i]
    BY <1>1 DEF Positions, TurnsOf
  <2> QED
    BY <2>1, <2>2, <2>3 DEF ScorableArtifacts
<1>5. \A p, arts : Belongs(L, p, arts) => Belongs(M, p, arts)
  BY <1>3 DEF Belongs
<1>6. \A f : Source(L, f) => Source(M, f)
  BY <1>4, <1>5 DEF Source
<1> QED
  BY <1>3, <1>4, <1>5, <1>6 DEF SourceTask

\* A log whose events have sources still has them when it records one that has.
LEMMA SourcesStay ==
  ASSUME NEW L \in Seq(Events), NEW M \in Seq(Events), NEW e, Records(L, M, e), Source(L, e),
         \A i \in DOMAIN L : Source(L, L[i])
  PROVE  \A i \in DOMAIN M : Source(M, M[i])
<1>1. CASE M = L
  BY <1>1
<1>2. CASE M # L
  <2>1. DOMAIN M = DOMAIN L \cup {Len(L) + 1} /\ M[Len(L) + 1] = e
    BY <1>2, RecordsGrows
  <2>2. \A i \in DOMAIN L : i \in DOMAIN M /\ M[i] = L[i]
    BY RecordsGrows
  <2>3. ASSUME NEW i \in DOMAIN M PROVE Source(L, M[i])
    <3>1. CASE i \in DOMAIN L
      <4>1. M[i] = L[i] /\ Source(L, L[i])
        BY <2>2, <3>1
      <4> QED
        BY <4>1
    <3>2. CASE i = Len(L) + 1
      BY <2>1, <3>2
    <3> QED
      BY <2>1, <3>1, <3>2
  <2> QED
    BY <2>3, SourceStays
<1> QED
  BY <1>1, <1>2

\* A request is made, and a problem handed over, with what the candidate wrote for it.
LEMMA DecisionSources ==
  ASSUME NEW t, NEW k, NEW L \in Seq(Events), WellFormed(k), t.at # "append", SourceTask(t, L),
         Decision(t, k, L)
  PROVE  SourceTask(k, L)
<1> DEFINE Plain(e) == e.type \notin {"SignalEmitted", "ScoringRequested"}
<1>1. ASSUME \A i \in DOMAIN k.todo : Plain(k.todo[i]), Stage(k) \notin {"request", "enqueue"}
      PROVE  SourceTask(k, L)
  BY <1>1 DEF SourceTask, Source
<1>2. CASE Goes(t, k, L)
  <2>1. /\ Stage(k) = k.at /\ DOMAIN k.todo = {} /\ k.at # "enqueue"
        /\ k.at = "request" => k.p = t.p /\ k.arts = CandidateArtifacts(L, t.p)
    BY <1>2, GoesIs DEF Goes
  <2> QED
    BY <2>1, CandidatesBelong DEF SourceTask
<1>3. CASE Posts(t, k, L)
  BY <1>1, <1>3, PostsIs
<1>4. CASE Plans(t, k, L)
  BY <1>1, <1>4, PlansIs
<1>5. CASE Aggregates(t, k, L)
  BY <1>1, <1>5, AggregatesIs
<1>6. CASE Introduces(t, k, L)
  BY <1>1, <1>6, IntroducesIs
<1>7. CASE Runs(t, k, L)
  BY <1>1, <1>7, RunsIs
<1>8. CASE Covers(t, k, L)
  BY <1>1, <1>8, CoversIs
<1>9. CASE Probes(t, k, L)
  BY <1>1, <1>9, ProbesIs DEF IsProbe
<1>10. CASE Closes(t, k, L)
  <2>1. Belongs(L, t.p, t.arts) /\ t.arts \subseteq ScorableArtifacts(L)
    BY <1>10, ClosesIs DEF SourceTask, Stage
  <2>2. /\ \A i \in DOMAIN k.todo :
             \/ Plain(k.todo[i])
             \/ /\ k.todo[i].type = "ScoringRequested" /\ k.todo[i].id = t.p
                /\ k.todo[i].artifacts = t.arts /\ t.arts # {}
        /\ Stage(k) = "enqueue" => k.p = t.p /\ k.arts = t.arts
        /\ Stage(k) # "request"
    BY <1>10, ClosesIs
  <2>3. \A i \in DOMAIN k.todo : Source(L, k.todo[i])
    BY <2>1, <2>2 DEF Source
  <2> QED
    BY <2>1, <2>2, <2>3 DEF SourceTask
<1> QED
  BY <1>2, <1>3, <1>4, <1>5, <1>6, <1>7, <1>8, <1>9, <1>10 DEF Decision

\* A job on the queue was there before, is a request's whose scoring was lost, or is
\* the one a closing hands over.
LEMMA QueueCases ==
  ASSUME TypeOK, [Next]_vars
  PROVE  \A i \in DOMAIN queue' :
           \/ \E j \in DOMAIN queue : queue'[i] = queue[j]
           \/ /\ queue'[i].p \in Requested(log)
              /\ queue'[i].arts = CandidateArtifacts(log, queue'[i].p)
           \/ \E h \in Handlers : /\ task[h].at = "enqueue"
                                  /\ queue'[i].p = task[h].p /\ queue'[i].arts = task[h].arts
<1>1. queue \in Seq(Jobs(queued)) /\ queued \subseteq Problems /\ log \in Seq(Events)
      /\ \A h \in Handlers : task[h] \in Tasks
  BY DEF TypeOK, Jobs, Events
<1> DEFINE Old(job) == \E j \in DOMAIN queue : job = queue[j]
           Lost(job) == job.p \in Requested(log) /\ job.arts = CandidateArtifacts(log, job.p)
           Handed(job) == \E h \in Handlers : /\ task[h].at = "enqueue"
                                              /\ job.p = task[h].p /\ job.arts = task[h].arts
<1> SUFFICES \A i \in DOMAIN queue' : Old(queue'[i]) \/ Lost(queue'[i]) \/ Handed(queue'[i])
  OBVIOUS
<1>2. CASE queue' = queue
  BY <1>2
<1>3. ASSUME NEW S, queue \in Seq(S), NEW jobs \in Seq(S), Enqueued(jobs),
             \A i \in DOMAIN jobs : Lost(jobs[i]) \/ Handed(jobs[i])
      PROVE  \A i \in DOMAIN queue' : Old(queue'[i]) \/ Lost(queue'[i]) \/ Handed(queue'[i])
  <2>1. queue' = queue \o jobs
    BY <1>3 DEF Enqueued
  <2>2. /\ Len(queue) \in Nat /\ Len(jobs) \in Nat
        /\ DOMAIN queue' = 1 .. Len(queue) + Len(jobs)
        /\ DOMAIN queue = 1 .. Len(queue) /\ DOMAIN jobs = 1 .. Len(jobs)
        /\ \A i \in 1 .. Len(queue) + Len(jobs) :
             queue'[i] = IF i <= Len(queue) THEN queue[i] ELSE jobs[i - Len(queue)]
    BY <1>3, <2>1, ConcatProperties
  <2>3. \A i \in 1 .. Len(queue) + Len(jobs) :
          \/ i \in 1 .. Len(queue) /\ i <= Len(queue)
          \/ i - Len(queue) \in 1 .. Len(jobs) /\ ~ (i <= Len(queue))
    BY <2>2
  <2> HIDE DEF Lost, Handed
  <2> QED
    BY <1>3, <2>2, <2>3
<1>4. ASSUME RecoverPending
      PROVE  \A i \in DOMAIN queue' : Old(queue'[i]) \/ Lost(queue'[i]) \/ Handed(queue'[i])
  <2> DEFINE lost == {r \in Positions(log, {"ScoringRequested"}) :
                        /\ log[r].id \notin Completed(log) \cup queued
                        /\ CandidateArtifacts(log, log[r].id) # {}}
             job(r) == Job(log[r].id, CandidateArtifacts(log, log[r].id))
  <2>1. PICK rs \in InOrder(lost) : Enqueued([i \in DOMAIN rs |-> job(rs[i])])
    BY <1>4 DEF RecoverPending
  <2> DEFINE jobs == [i \in DOMAIN rs |-> job(rs[i])]
             S == {queue[i] : i \in DOMAIN queue} \cup {jobs[i] : i \in DOMAIN jobs}
  <2>2. DOMAIN rs = 1 .. Cardinality(lost)
    BY DEF InOrder
  <2>3. Cardinality(lost) \in Nat
    <3>1. lost \subseteq 1 .. Len(log) /\ Len(log) \in Int
      BY <1>1 DEF Positions
    <3> HIDE DEF lost
    <3>2. IsFiniteSet(1 .. Len(log))
      BY <3>1, FS_Interval
    <3> QED
      BY <3>1, <3>2, FS_Subset, FS_CardinalityType
  <2>4. \A r \in lost : Lost(job(r))
    BY DEF Job, Requested
  <2>5. \A i \in DOMAIN jobs : Lost(jobs[i])
    BY <2>4 DEF InOrder
  <2> HIDE DEF lost, job
  <2>6. jobs \in Seq(S)
    BY <2>2, <2>3
  <2>7. queue \in Seq(S)
    BY <1>1
  <2>8. Enqueued(jobs)
    BY <2>1
  <2> HIDE DEF jobs, S, Lost, Handed, Old
  <2> QED
    BY <1>3, <2>5, <2>6, <2>7, <2>8
<1>5. ASSUME NEW h \in Handlers, Enqueue(h)
      PROVE  \A i \in DOMAIN queue' : Old(queue'[i]) \/ Lost(queue'[i]) \/ Handed(queue'[i])
  <2>1. CASE task[h].p \in queued
    BY <1>2, <1>5, <2>1 DEF Enqueue, NoJobs
  <2>2. CASE task[h].p \notin queued
    <3> DEFINE job == Job(task[h].p, task[h].arts)
               jobs == <<job>>
               S == {queue[i] : i \in DOMAIN queue} \cup {job}
    <3>1. Enqueued(jobs) /\ task[h].at = "enqueue"
      BY <1>5, <2>2 DEF Enqueue, Decides
    <3>2. Handed(job)
      BY <3>1 DEF Job
    <3> HIDE DEF job
    <3>3. jobs \in Seq(S) /\ queue \in Seq(S) /\ \A i \in DOMAIN jobs : jobs[i] = job
      BY <1>1
    <3> HIDE DEF jobs, S, Lost, Handed, Old
    <3> QED
      BY <1>3, <3>1, <3>2, <3>3
  <2> QED
    BY <2>1, <2>2
<1>6. ASSUME NEW h \in Handlers, Drives(h)
      PROVE  \A i \in DOMAIN queue' : Old(queue'[i]) \/ Lost(queue'[i]) \/ Handed(queue'[i])
  BY <1>4, <1>6 DEF Drives
<1>7. ASSUME NEW h \in Handlers, Get(h) \/ Step(h) \/ \E n \in Nonces : Post(h, n)
      PROVE  \A i \in DOMAIN queue' : Old(queue'[i]) \/ Lost(queue'[i]) \/ Handed(queue'[i])
  <2> HIDE DEF Lost, Handed, Old
  <2>1. CASE AppendNext(h)
    BY <1>2, <2>1 DEF AppendNext
  <2>2. CASE \/ Get(h) \/ SelectPlan(h) \/ FinishScoring(h) \/ Observe(h) \/ Examine(h) \/ Review(h)
             \/ Close(h) \/ Request(h) \/ \E n \in Nonces : Post(h, n)
    BY <1>2, <2>2
       DEF Get, SelectPlan, FinishScoring, Observe, Examine, Review, Close, Request, Post, NoJobs
  <2>3. CASE \/ IntroduceNext(h) \/ AskExaminer(h) \/ Execute(h) \/ Challenge(h)
             \/ GiveUp(h) \/ Aggregate(h) \/ Respond(h)
    BY <1>6, <2>3
       DEF IntroduceNext, AskExaminer, Execute, Challenge, GiveUp, Aggregate, Respond, Dispatches
  <2> QED
    BY <1>5, <1>7, <2>1, <2>2, <2>3 DEF Step
<1>8. CASE Score
  <2>1. queue # <<>> /\ queue' = Tail(queue)
    BY <1>8 DEF Score
  <2>2. \A i \in DOMAIN Tail(queue) : i + 1 \in DOMAIN queue /\ Tail(queue)[i] = queue[i + 1]
    BY <1>1, <2>1, TailFacts
  <2> QED
    BY <2>1, <2>2
<1>9. CASE Crash
  BY <1>9 DEF Crash
<1> QED
  BY <1>2, <1>7, <1>8, <1>9 DEF Next, WorkerAppend, vars

\* SourceInv is inductive, for any number of requests.
LEMMA SourceStep ==
  ASSUME TypeOK, TypeOK', SourceInv, [Next]_vars
  PROVE  SourceInv'
<1>1. /\ log \in Seq(Events) /\ log' \in Seq(Events)
      /\ \A i \in DOMAIN log : Source(log, log[i])
      /\ \A h \in Handlers : SourceTask(task[h], log)
      /\ \A i \in DOMAIN queue : Belongs(log, queue[i].p, queue[i].arts)
      /\ \A i \in DOMAIN worker.todo : Source(log, worker.todo[i])
  BY DEF TypeOK, Events, SourceInv
<1>2. \A i \in DOMAIN queue' : Belongs(log, queue'[i].p, queue'[i].arts)
  <2>1. ASSUME NEW h \in Handlers, task[h].at = "enqueue"
        PROVE  Belongs(log, task[h].p, task[h].arts)
    BY <1>1, <2>1 DEF SourceTask, Stage
  <2>2. \A p : Belongs(log, p, CandidateArtifacts(log, p))
    BY <1>1, CandidatesBelong
  <2> QED
    BY <1>1, <2>1, <2>2, QueueCases
<1>3. SourceTask(Idle, log)
  BY DEF SourceTask, Idle, At, AtWith, Stage
<1>4. CASE Rests
  BY <1>1, <1>2, <1>4 DEF Rests, SourceInv
<1>5. CASE Restarts
  BY <1>1, <1>2, <1>3, <1>5 DEF Restarts, SourceInv, NewWorker
<1>6. CASE Scores
  <2>1. PICK job \in Jobs(Problems), events \in Seq(WorkerEvents) :
          /\ events \in Results(job) /\ \E i \in DOMAIN queue : job = queue[i]
          /\ worker'.todo = events \o <<Event("ScoringCompleted", job.p)>>
    BY <1>6 DEF Scores
  <2> DEFINE last == Event("ScoringCompleted", job.p)
             all == events \o <<last>>
  <2>2. last.type = "ScoringCompleted" /\ last \in WorkerEvents
    BY WorkerEventsAre DEF Event, Jobs
  <2>3. Belongs(log, job.p, job.arts)
    BY <1>1, <2>1
  <2>4. \A i \in 1 .. Len(events) : Source(log, events[i])
    <3>1. \A i \in 1 .. Len(events) : ResultOf(events[i], job)
      BY <2>1, ResultsReport
    <3>2. \A refs \in SUBSET job.arts : Belongs(log, job.p, refs)
      BY <2>3 DEF Belongs
    <3> QED
      BY <3>1, <3>2 DEF ResultOf, Source
  <2>5. Source(log, last)
    BY <2>2 DEF Source
  <2> HIDE DEF last
  <2>6. \A i \in DOMAIN all : (i \in 1 .. Len(events) /\ all[i] = events[i]) \/ all[i] = last
    BY <2>1, <2>2
  <2> HIDE DEF all
  <2>7. \A i \in DOMAIN all : Source(log, all[i])
    BY <2>4, <2>5, <2>6
  <2>8. worker'.todo = all /\ log' = log /\ task' = task
    BY <1>6, <2>1 DEF Scores, all, last
  <2> QED
    BY <1>1, <1>2, <2>7, <2>8 DEF SourceInv
<1>7. ASSUME NEW e, Records(log, log', e), Source(log, e)
      PROVE  /\ \A i \in DOMAIN log' : Source(log', log'[i])
             /\ \A f : Source(log, f) => Source(log', f)
             /\ \A t : SourceTask(t, log) => SourceTask(t, log')
             /\ \A i \in DOMAIN queue' : Belongs(log', queue'[i].p, queue'[i].arts)
  <2>1. /\ \A p, arts : Belongs(log, p, arts) => Belongs(log', p, arts)
        /\ \A f : Source(log, f) => Source(log', f)
        /\ \A t : SourceTask(t, log) => SourceTask(t, log')
    BY <1>1, <1>7, SourceStays
  <2>4. \A i \in DOMAIN log' : Source(log', log'[i])
    BY <1>1, <1>7, SourcesStay
  <2>5. \A i \in DOMAIN queue' : Belongs(log', queue'[i].p, queue'[i].arts)
    BY <1>2, <2>1
  <2> QED
    BY <2>1, <2>4, <2>5
<1>8. CASE WorkerAppends
  <2> DEFINE s == worker.todo
             e == Head(s)
  <2>1. s \in Seq(WorkerEvents) /\ s # <<>>
    BY <1>8, WorkerHead DEF WorkerAppends
  <2>2. /\ e = s[1] /\ 1 \in DOMAIN s
        /\ \A i \in DOMAIN Tail(s) : i + 1 \in DOMAIN s /\ Tail(s)[i] = s[i + 1]
    BY <2>1, TailFacts
  <2>3. Source(log, e) /\ \A i \in DOMAIN Tail(s) : Source(log, Tail(s)[i])
    BY <1>1, <2>2
  <2>4. task' = task
    BY <1>8 DEF WorkerAppends
  <2>5. CASE Records(log, log', e) /\ worker'.todo = Tail(s)
    <3> HIDE DEF e, s
    <3>1. /\ \A i \in DOMAIN log' : Source(log', log'[i])
          /\ \A f : Source(log, f) => Source(log', f)
          /\ \A t : SourceTask(t, log) => SourceTask(t, log')
          /\ \A i \in DOMAIN queue' : Belongs(log', queue'[i].p, queue'[i].arts)
      BY <1>7, <2>3, <2>5
    <3> QED
      BY <1>1, <2>3, <2>4, <2>5, <3>1 DEF SourceInv
  <2>6. CASE log' = log /\ (worker'.todo = s \/ worker'.todo = <<>>)
    BY <1>1, <1>2, <2>4, <2>6 DEF SourceInv
  <2> QED
    BY <1>8, <2>5, <2>6 DEF WorkerAppends
<1>9. ASSUME NEW h \in Handlers, NEW k, Decides1(h, k) \/ Appends(h, k)
      PROVE  SourceInv'
  <2>1. WellFormed(k) /\ (\A g \in Handlers : task'[g] = IF g = h THEN k ELSE task[g])
        /\ worker' = worker
    BY <1>9, TasksAfter
  <2>2. CASE Decides1(h, k)
    <3>1. log' = log /\ SourceTask(task[h], log) /\ task[h].at # "append" /\ Decision(task[h], k, log)
      BY <1>1, <2>2 DEF Decides1
    <3>2. SourceTask(k, log)
      BY <1>1, <2>1, <3>1, DecisionSources
    <3> QED
      BY <1>1, <1>2, <2>1, <3>1, <3>2 DEF SourceInv
  <2>3. CASE Appends(h, k)
    <3> DEFINE t == task[h]
               e == Head(t.todo)
    <3>1. t \in Tasks /\ t.at = "append" /\ t.todo # <<>> /\ SourceTask(t, log)
      BY <1>1, <2>3 DEF Appends, TypeOK
    <3>2. CASE log' = log /\ k = Idle
      BY <1>1, <1>2, <1>3, <2>1, <3>2 DEF SourceInv
    <3>3. CASE Records(log, log', e) /\ Doing(k, Tail(t.todo), t.then) /\ SameLocals(k, t)
      <4>1. e = t.todo[1] /\ 1 \in DOMAIN t.todo /\ t.todo \in Seq(HandlerEvents)
        BY <3>1, HandlerHead DEF Tasks
      <4>2. Stage(k) = t.then /\ k.todo = Tail(t.todo) /\ Stage(t) = t.then
        BY <2>1, <3>1, <3>3, StageOf DEF Stage
      <4>3. \A i \in DOMAIN Tail(t.todo) : i + 1 \in DOMAIN t.todo /\ Tail(t.todo)[i] = t.todo[i + 1]
        BY <3>1, <4>1, TailFacts
      <4>4. SourceTask(k, log)
        BY <3>1, <3>3, <4>2, <4>3 DEF SourceTask, SameLocals
      <4>5. Source(log, e)
        BY <3>1, <4>1 DEF SourceTask
      <4> HIDE DEF e, t
      <4>6. /\ \A i \in DOMAIN log' : Source(log', log'[i])
            /\ \A f : Source(log, f) => Source(log', f)
            /\ \A u : SourceTask(u, log) => SourceTask(u, log')
            /\ \A i \in DOMAIN queue' : Belongs(log', queue'[i].p, queue'[i].arts)
        BY <1>7, <3>3, <4>5
      <4> QED
        BY <1>1, <2>1, <4>4, <4>6 DEF SourceInv
    <3> QED
      BY <2>3, <3>2, <3>3 DEF Appends
  <2> QED
    BY <1>9, <2>2, <2>3
<1> QED
  BY <1>4, <1>5, <1>6, <1>8, <1>9, NextCases

-----------------------------------------------------------------------------
(* Events refer to earlier ones, for any number of requests in progress.           *)

NamesIn(L) == {Named(L[i]) : i \in DOMAIN L}

\* What the events of s refer to is in N or comes before them in s.
Cited(s, N) ==
  \A m \in DOMAIN s : Cites(s[m]) \subseteq N \cup {Named(s[l]) : l \in 1 .. m - 1}

\* The scoring of p was requested, and arts were attached.
CitedJob(p, arts, N) == <<"ScoringRequested", p>> \in N /\ Attached(arts) \subseteq N

CiteTask(t, L) ==
  /\ Cited(t.todo, NamesIn(L))
  /\ Stage(t) \in {"examine", "review"} /\ t.n # None => <<"TurnPosted", t.n>> \in NamesIn(L)
  /\ Stage(t) = "request" => Attached(t.arts) \subseteq NamesIn(L)
  /\ Stage(t) = "enqueue" => CitedJob(t.p, t.arts, NamesIn(L) \cup NamesIn(t.todo))

CiteInv ==
  /\ Cited(log, {})
  /\ \A h \in Handlers : CiteTask(task[h], log)
  /\ \A i \in DOMAIN queue : CitedJob(queue[i].p, queue[i].arts, NamesIn(log))
  /\ Cited(worker.todo, NamesIn(log))

\* What a reader finds is named in the log.
LEMMA LoggedIsNamed ==
  ASSUME NEW L, NEW type, NEW id
  PROVE  Logged(L, type, id) <=> <<type, id>> \in NamesIn(L)
BY DEF Logged, NamesIn, Named

\* Nothing refers to an observation.
LEMMA NobodyCitesObservations ==
  ASSUME NEW e
  PROVE  Named(Observation) \notin Cites(e)
<1>1. Named(Observation) = <<"Observed", None>>
  BY DEF Named, Observation, Event
<1>2. \A arts : <<"Observed", None>> \notin Attached(arts)
  BY DEF Attached
<1> QED
  BY <1>1, <1>2 DEF Cites

\* What the events of the interview refer to.
LEMMA InterviewCites ==
  /\ Cites(Observation) = {}
  /\ Cites(Event("ProblemPlanSelected", "plan")) = {} /\ Cites(Event("ScoreComputed", "score")) = {}
  /\ Cites(Event("SessionEnded", "scored")) = {Named(Event("ScoreComputed", "score"))}
BY DEF Cites, Observation, Event, Named

LEMMA ProblemCites ==
  ASSUME NEW p
  PROVE  /\ Cites(Event("ProblemIntroduced", p)) = {<<"ProblemPlanSelected", "plan">>}
         /\ Cites(Turn(Opener(p), "challenger", "question")) = {Named(Event("ProblemIntroduced", p))}
         /\ Cites(Event("ProblemClosed", p)) = {<<"ProblemIntroduced", p>>}
         /\ \A arts : Cites(ScoringRequest(p, arts)) = {Named(Event("ProblemClosed", p))} \cup Attached(arts)
BY DEF Cites, Event, Turn, Opener, ScoringRequest, Named

\* What a form, the run of its code and the probe that follows it refer to.
LEMMA FormCites ==
  ASSUME NEW n
  PROVE  /\ \A kind : Cites(Turn(n, "candidate", kind)) = {} /\ Named(Turn(n, "candidate", kind)) = <<"TurnPosted", n>>
         /\ \A kind \in {"markdown", "code_cell"} : Cites(Artifact(kind, n)) = {<<"TurnPosted", n>>}
         /\ \A type \in {"RuntimeExecuted", "RuntimeFailed"} :
              Cites(Event(type, n)) = {<<"ArtifactAttached", <<"code_cell", n>>>>}
         /\ Cites(Artifact("cell_output", n)) = {Named(Event("RuntimeExecuted", n))}
         /\ Cites(Turn(ProbeAfter(n), "examiner", "probe")) \subseteq
              IF n = None THEN {} ELSE {<<"TurnPosted", n>>}
BY DEF Cites, Event, Turn, Artifact, ProbeAfter, Named, Attached

\* What the thread stores for a job refers to.
LEMMA ResultCites ==
  ASSUME NEW job, NEW N, CitedJob(job.p, job.arts, N)
  PROVE  /\ \A e : ResultOf(e, job) => Cites(e) \subseteq N
         /\ Cites(Event("ScoringCompleted", job.p)) \subseteq N
<1>1. ASSUME NEW e, ResultOf(e, job) PROVE Cites(e) \subseteq N
  <2>1. Cites(e) \subseteq {<<"ScoringRequested", job.p>>} \cup Attached(job.arts)
    <3>1. CASE e.type = "SignalEmitted"
      <4>1. Cites(e) = {<<"ScoringRequested", job.p>>} \cup Attached(e.refs)
        BY <1>1, <3>1 DEF ResultOf, Cites
      <4>2. Attached(e.refs) \subseteq Attached(job.arts)
        BY <1>1, <3>1 DEF ResultOf, Attached
      <4> QED
        BY <4>1, <4>2
    <3>2. CASE e.type = "ScorerFailed"
      BY <1>1, <3>2 DEF ResultOf, Cites
    <3> QED
      BY <1>1, <3>1, <3>2 DEF ResultOf
  <2> QED
    BY <2>1 DEF CitedJob
<1>2. Cites(Event("ScoringCompleted", job.p)) = {<<"ScoringRequested", job.p>>}
  BY DEF Cites, Event
<1> QED
  BY <1>1, <1>2 DEF CitedJob

\* Scripts of one, two and three events.
LEMMA OneCited ==
  ASSUME NEW N, NEW a \in HandlerEvents, Cites(a) \subseteq N
  PROVE  <<a>> \in Seq(HandlerEvents) /\ Cited(<<a>>, N)
BY DEF Cited

LEMMA TwoCited ==
  ASSUME NEW N, NEW a \in HandlerEvents, NEW b \in HandlerEvents,
         Cites(a) \subseteq N, Cites(b) \subseteq N \cup {Named(a)}
  PROVE  <<a, b>> \in Seq(HandlerEvents) /\ Cited(<<a, b>>, N)
<1> DEFINE s == <<a, b>>
<1>1. s \in Seq(HandlerEvents) /\ DOMAIN s = {1, 2} /\ s[1] = a /\ s[2] = b
  OBVIOUS
<1> HIDE DEF s
<1>2. Cites(s[2]) \subseteq N \cup {Named(s[l]) : l \in 1 .. 2 - 1}
  <2>1. 1 \in 1 .. 2 - 1
    OBVIOUS
  <2> QED
    BY <1>1, <2>1
<1>3. Cited(s, N)
  BY <1>1, <1>2 DEF Cited
<1> QED
  BY <1>1, <1>3 DEF s

LEMMA ThreeCited ==
  ASSUME NEW N, NEW a \in HandlerEvents, NEW b \in HandlerEvents, NEW c \in HandlerEvents,
         Cites(a) \subseteq N, Cites(b) \subseteq N \cup {Named(a)},
         Cites(c) \subseteq N \cup {Named(a), Named(b)}
  PROVE  <<a, b, c>> \in Seq(HandlerEvents) /\ Cited(<<a, b, c>>, N)
<1> DEFINE s == <<a, b, c>>
<1>1. s \in Seq(HandlerEvents) /\ DOMAIN s = {1, 2, 3} /\ s[1] = a /\ s[2] = b /\ s[3] = c
  OBVIOUS
<1> HIDE DEF s
<1>2. Cites(s[2]) \subseteq N \cup {Named(s[l]) : l \in 1 .. 2 - 1}
  <2>1. 1 \in 1 .. 2 - 1
    OBVIOUS
  <2> QED
    BY <1>1, <2>1
<1>3. Cites(s[3]) \subseteq N \cup {Named(s[l]) : l \in 1 .. 3 - 1}
  <2>1. 1 \in 1 .. 3 - 1 /\ 2 \in 1 .. 3 - 1
    OBVIOUS
  <2> QED
    BY <1>1, <2>1
<1>4. Cited(s, N)
  BY <1>1, <1>2, <1>3 DEF Cited
<1> QED
  BY <1>1, <1>4 DEF s

\* A script whose events refer to its first one only.
LEMMA FirstCited ==
  ASSUME NEW S, NEW s \in Seq(S), s # <<>>, NEW N, Cites(s[1]) \subseteq N,
         \A e \in S : Cites(e) \subseteq N \cup {Named(s[1])}
  PROVE  Cited(s, N)
<1> SUFFICES ASSUME NEW m \in DOMAIN s
             PROVE  Cites(s[m]) \subseteq N \cup {Named(s[l]) : l \in 1 .. m - 1}
  BY DEF Cited
<1>1. CASE m = 1
  BY <1>1
<1>2. CASE m # 1
  <2>1. 1 \in 1 .. m - 1 /\ s[m] \in S
    BY <1>2
  <2> QED
    BY <2>1
<1> QED
  BY <1>1, <1>2

\* A log that records an event names it from then on, unless it is an observation.
LEMMA RecordsNames ==
  ASSUME NEW L, NEW M, NEW e, Records(L, M, e)
  PROVE  /\ NamesIn(L) \subseteq NamesIn(M)
         /\ e # Observation => Named(e) \in NamesIn(M)
<1>1. NamesIn(L) \subseteq NamesIn(M)
  <2>1. \A i \in DOMAIN L : i \in DOMAIN M /\ M[i] = L[i]
    BY RecordsGrows
  <2> QED
    BY <2>1 DEF NamesIn
<1>2. ASSUME e # Observation PROVE Named(e) \in NamesIn(M)
  <2>1. CASE M = L
    <3>1. Logged(L, e.type, e.id)
      BY <1>2, <2>1, RecordedAlready
    <3> QED
      BY <2>1, <3>1, LoggedIsNamed DEF Named
  <2>2. CASE M # L
    <3>1. Len(L) + 1 \in DOMAIN M /\ M[Len(L) + 1] = e
      BY <2>2, RecordsGrows
    <3> QED
      BY <3>1 DEF NamesIn
  <2> QED
    BY <2>1, <2>2
<1> QED
  BY <1>1, <1>2

\* What is cited still is when there is more to cite.
LEMMA StillCited ==
  ASSUME NEW N, NEW O, N \subseteq O
  PROVE  /\ \A s : Cited(s, N) => Cited(s, O)
         /\ \A p, arts : CitedJob(p, arts, N) => CitedJob(p, arts, O)
<1>1. \A s : Cited(s, N) => Cited(s, O)
  BY DEF Cited
<1> QED
  BY <1>1 DEF CitedJob

\* When the first event of a script is recorded, the log finds there what it refers to
\* and so will the rest of the script.
LEMMA TailCited ==
  ASSUME NEW S, NEW s \in Seq(S), s # <<>>, NEW L, NEW M, Records(L, M, Head(s)), Cited(s, NamesIn(L))
  PROVE  /\ Cites(Head(s)) \subseteq NamesIn(L)
         /\ Cited(Tail(s), NamesIn(M))
         /\ NamesIn(s) \subseteq NamesIn(Tail(s)) \cup {Named(Head(s))}
<1> DEFINE e == Head(s)
           r == Tail(s)
<1>1. /\ e = s[1] /\ 1 \in DOMAIN s /\ DOMAIN s = 1 .. Len(s) /\ DOMAIN r = 1 .. Len(s) - 1
      /\ Len(s) \in Nat \ {0}
      /\ \A i \in DOMAIN r : i + 1 \in DOMAIN s /\ r[i] = s[i + 1]
  OBVIOUS
<1> HIDE DEF e, r
<1>2. NamesIn(L) \subseteq NamesIn(M) /\ (e # Observation => Named(e) \in NamesIn(M))
  BY RecordsNames DEF e
<1>3. Cites(s[1]) \subseteq NamesIn(L)
  <2>1. 1 .. 1 - 1 = {}
    OBVIOUS
  <2> QED
    BY <1>1, <2>1 DEF Cited
<1>4. ASSUME NEW m \in DOMAIN r
      PROVE  Cites(r[m]) \subseteq NamesIn(M) \cup {Named(r[l]) : l \in 1 .. m - 1}
  <2>1. m + 1 \in DOMAIN s /\ r[m] = s[m + 1] /\ m \in Nat \ {0} /\ m <= Len(s) - 1
    BY <1>1
  <2>2. Cites(r[m]) \subseteq NamesIn(L) \cup {Named(s[l]) : l \in 1 .. (m + 1) - 1}
    BY <2>1 DEF Cited
  <2>3. ASSUME NEW l \in 1 .. (m + 1) - 1, Named(s[l]) \in Cites(r[m])
        PROVE  Named(s[l]) \in NamesIn(M) \cup {Named(r[k]) : k \in 1 .. m - 1}
    <3>1. CASE l = 1
      <4>1. e # Observation
        BY <1>1, <2>3, <3>1, NobodyCitesObservations
      <4> QED
        BY <1>1, <1>2, <3>1, <4>1
    <3>2. CASE l # 1
      <4>1. l - 1 \in 1 .. m - 1 /\ l - 1 \in DOMAIN r /\ (l - 1) + 1 = l
        BY <1>1, <2>1, <3>2
      <4>2. r[l - 1] = s[l]
        BY <1>1, <4>1
      <4> QED
        BY <4>1, <4>2
    <3> QED
      BY <3>1, <3>2
  <2> QED
    BY <1>2, <2>2, <2>3
<1>5. Cited(r, NamesIn(M))
  BY <1>4 DEF Cited
<1>6. NamesIn(s) \subseteq NamesIn(r) \cup {Named(e)}
  <2>1. ASSUME NEW i \in DOMAIN s PROVE Named(s[i]) \in NamesIn(r) \cup {Named(e)}
    <3>1. CASE i = 1
      BY <1>1, <3>1
    <3>2. CASE i # 1
      <4>1. i - 1 \in DOMAIN r /\ (i - 1) + 1 = i
        BY <1>1, <3>2
      <4>2. r[i - 1] = s[i]
        BY <1>1, <4>1
      <4> QED
        BY <4>1, <4>2 DEF NamesIn
    <3> QED
      BY <3>1, <3>2
  <2> QED
    BY <2>1 DEF NamesIn
<1> QED
  BY <1>1, <1>3, <1>5, <1>6 DEF e, r

\* A log whose events refer to earlier ones records another that refers to what it has.
LEMMA PastStaysCited ==
  ASSUME NEW L, NEW M, NEW e, Records(L, M, e), Cited(L, {}), Cites(e) \subseteq NamesIn(L)
  PROVE  Cited(M, {})
<1>1. CASE M = L
  BY <1>1
<1>2. CASE M # L
  <2>1. /\ Len(L) \in Nat /\ DOMAIN L = 1 .. Len(L)
        /\ DOMAIN M = DOMAIN L \cup {Len(L) + 1} /\ M[Len(L) + 1] = e
        /\ \A i \in DOMAIN L : M[i] = L[i]
    <3>1. \A i \in DOMAIN L : i \in DOMAIN M /\ M[i] = L[i]
      BY RecordsGrows
    <3>2. \/ M = L
          \/ /\ Adds(L, M, e) /\ Len(L) \in Nat /\ DOMAIN L = 1 .. Len(L)
             /\ DOMAIN M = DOMAIN L \cup {Len(L) + 1} /\ M[Len(L) + 1] = e
      BY RecordsGrows
    <3> QED
      BY <1>2, <3>1, <3>2
  <2>2. ASSUME NEW i \in DOMAIN L
        PROVE  Cites(M[i]) \subseteq {Named(M[j]) : j \in 1 .. i - 1}
    <3>1. Cites(L[i]) \subseteq {Named(L[j]) : j \in 1 .. i - 1}
      BY DEF Cited
    <3>2. \A j \in 1 .. i - 1 : j \in DOMAIN L
      BY <2>1
    <3> QED
      BY <2>1, <3>1, <3>2
  <2>3. Cites(M[Len(L) + 1]) \subseteq {Named(M[j]) : j \in 1 .. (Len(L) + 1) - 1}
    <3>1. 1 .. (Len(L) + 1) - 1 = DOMAIN L
      BY <2>1
    <3>2. NamesIn(L) = {Named(M[j]) : j \in DOMAIN L}
      BY <2>1 DEF NamesIn
    <3> QED
      BY <2>1, <3>1, <3>2
  <2> QED
    BY <2>1, <2>2, <2>3 DEF Cited
<1> QED
  BY <1>1, <1>2

\* What the readers return was stored: the plan, the form under review, the problem in
\* hand, its candidate's artifacts.
LEMMA PlanIsNamed ==
  ASSUME NEW L \in Seq(Events), Planned(L)
  PROVE  <<"ProblemPlanSelected", "plan">> \in NamesIn(L)
<1>1. PICK i \in DOMAIN L : L[i].type = "ProblemPlanSelected"
  BY DEF Planned, Positions
<1>2. L[i] \in HandlerEvents
  BY <1>1, RequestsEvents
<1>3. L[i].id = "plan"
  BY <1>1, <1>2 DEF HandlerEvents, Event, Turn, Artifact, ScoringRequest, Observation
<1> QED
  BY <1>1, <1>3 DEF NamesIn, Named

LEMMA LastFormIsNamed ==
  ASSUME NEW L \in Seq(Events), LastCandidateTurn(L) # None
  PROVE  <<"TurnPosted", LastCandidateTurn(L)>> \in NamesIn(L)
<1> DEFINE i == LastOf(TurnsOf(L, "candidate"))
<1>1. i # 0 /\ LastCandidateTurn(L) = L[i].id
  BY DEF LastCandidateTurn
<1>2. i \in TurnsOf(L, "candidate")
  BY <1>1, LastTurnFacts
<1>3. i \in DOMAIN L /\ L[i].type = "TurnPosted"
  BY <1>2 DEF TurnsOf, Positions
<1> HIDE DEF i
<1> QED
  BY <1>1, <1>3 DEF NamesIn, Named

LEMMA CurrentIsNamed ==
  ASSUME NEW L \in Seq(Events), CurrentProblem(L) # None
  PROVE  <<"ProblemIntroduced", CurrentProblem(L)>> \in NamesIn(L)
<1>1. Active(L, CurrentProblem(L))
  BY DEF CurrentProblem
<1>2. Introduced(L, CurrentProblem(L))
  BY <1>1 DEF Active, Introduced, Logged
<1> QED
  BY <1>2, LoggedIsNamed DEF Introduced

LEMMA CandidatesAreNamed ==
  ASSUME NEW L, NEW p
  PROVE  Attached(CandidateArtifacts(L, p)) \subseteq NamesIn(L)
<1>1. ASSUME NEW x \in CandidateArtifacts(L, p) PROVE <<"ArtifactAttached", x>> \in NamesIn(L)
  <2>1. PICK a \in Positions(L, {"ArtifactAttached"}) : x = L[a].id
    BY DEF CandidateArtifacts
  <2> QED
    BY <2>1 DEF Positions, NamesIn, Named
<1> QED
  BY <1>1 DEF Attached

\* A request that posts a script whose events refer to the log or to each other.
LEMMA ScriptCited ==
  ASSUME TypeOK, NEW h \in Handlers, NEW s \in Seq(HandlerEvents), NEW step \in {"idle", "loop"},
         Become(h, Posting(s, At(step))), Cited(s, NamesIn(log))
  PROVE  CiteTask(task'[h], log)
<1> DEFINE k == Posting(s, At(step))
<1>1. WellFormed(k) /\ Doing(k, s, step)
  BY ScriptIs
<1>2. task'[h] = k
  BY DEF TypeOK, Become
<1> HIDE DEF k
<1>3. Stage(k) = step /\ k.todo = s
  BY <1>1, StageOf
<1> QED
  BY <1>2, <1>3 DEF CiteTask

\* A request that goes on with its locals cleared refers to nothing.
LEMMA ClearedCited ==
  ASSUME NEW h \in Handlers, NEW step \in {"idle", "loop", "probe"}, task'[h] = At(step)
  PROVE  CiteTask(task'[h], log)
<1>1. Stage(At(step)) = step /\ At(step).todo = <<>>
  BY DEF Stage, At, AtWith
<1> QED
  BY <1>1 DEF CiteTask, Cited

\* A form's artifacts refer to its turn.
LEMMA PostCites ==
  ASSUME TypeOK, NEW h \in Handlers, NEW n \in Nonces, Post(h, n)
  PROVE  CiteTask(task'[h], log)
<1> DEFINE kind == IF ProbeAwaitsAnswer(log) THEN "defense" ELSE "answer"
           turn == Turn(n, "candidate", kind)
           part(c) == IF c \in Body[n] THEN <<Artifact(c, n)>> ELSE <<>>
           s == <<turn>> \o part("markdown") \o part("code_cell") \o <<Observation>>
           own == {turn, Artifact("markdown", n), Artifact("code_cell", n), Observation}
<1>1. Become(h, Posting(s, At("idle")))
  BY DEF Post, Idle
<1>2. own \subseteq HandlerEvents
  BY HandlerEventsAre DEF Kinds
<1>3. Cites(turn) = {} /\ Named(turn) = <<"TurnPosted", n>>
  <2> HIDE DEF kind
  <2> QED
    BY FormCites
<1>4. \A e \in own : Cites(e) \subseteq {Named(turn)}
  <2>1. /\ Cites(Artifact("markdown", n)) = {<<"TurnPosted", n>>}
        /\ Cites(Artifact("code_cell", n)) = {<<"TurnPosted", n>>}
    BY FormCites
  <2>2. Cites(Observation) = {}
    BY InterviewCites
  <2> HIDE DEF turn
  <2> QED
    BY <1>3, <2>1, <2>2
<1>5. /\ turn \in own /\ Artifact("markdown", n) \in own
      /\ Artifact("code_cell", n) \in own /\ Observation \in own
  OBVIOUS
<1> HIDE DEF turn, own
<1>6. <<turn>> \in Seq(own) /\ part("markdown") \in Seq(own) /\ part("code_cell") \in Seq(own)
      /\ <<Observation>> \in Seq(own)
  <2>1. \A e \in own : <<e>> \in Seq(own) /\ <<>> \in Seq(own)
    OBVIOUS
  <2> QED
    BY <1>5, <2>1
<1>7. \A a, b \in Seq(own) : a # <<>> => a \o b \in Seq(own) /\ a \o b # <<>> /\ (a \o b)[1] = a[1]
  OBVIOUS
<1>8. s \in Seq(own) /\ s # <<>> /\ s[1] = turn
  <2> HIDE DEF part
  <2>1. LET a == <<turn>> IN a \in Seq(own) /\ a # <<>> /\ a[1] = turn
    BY <1>6
  <2>2. LET a == <<turn>> \o part("markdown") IN a \in Seq(own) /\ a # <<>> /\ a[1] = turn
    BY <1>6, <1>7, <2>1
  <2>3. LET a == <<turn>> \o part("markdown") \o part("code_cell")
        IN  a \in Seq(own) /\ a # <<>> /\ a[1] = turn
    BY <1>6, <1>7, <2>2
  <2> QED
    BY <1>6, <1>7, <2>3
<1> HIDE DEF s
<1>9. Cited(s, NamesIn(log))
  BY <1>3, <1>4, <1>8, FirstCited
<1>10. s \in Seq(HandlerEvents)
  BY <1>2, <1>8
<1> QED
  BY <1>1, <1>9, <1>10, ScriptCited

\* What advance appends refers to the log it has read.
LEMMA LoopCites ==
  ASSUME TypeOK, NEW h \in Handlers,
         SelectPlan(h) \/ FinishScoring(h) \/ IntroduceNext(h) \/ Execute(h)
           \/ Challenge(h) \/ Aggregate(h)
  PROVE  CiteTask(task'[h], log)
<1>1. log \in Seq(Events)
  BY DEF TypeOK, Events
<1>2. CASE SelectPlan(h)
  <2> DEFINE e == Event("ProblemPlanSelected", "plan")
  <2>1. Become(h, Posting(<<e>>, At("loop"))) /\ e \in HandlerEvents /\ Cites(e) = {}
    BY <1>2, HandlerEventsAre, InterviewCites DEF SelectPlan
  <2> HIDE DEF e
  <2>2. <<e>> \in Seq(HandlerEvents) /\ Cited(<<e>>, NamesIn(log))
    BY <2>1, OneCited
  <2> QED
    BY <2>1, <2>2, ScriptCited
<1>3. CASE FinishScoring(h) \/ Aggregate(h)
  <2> DEFINE a == Event("ScoreComputed", "score")
             c == Event("SessionEnded", "scored")
             s == <<a, Observation, c>>
  <2>1. Become(h, Posting(s, At("idle")))
    BY <1>3 DEF FinishScoring, Aggregate, Aggregation, Idle
  <2>2. /\ a \in HandlerEvents /\ Observation \in HandlerEvents /\ c \in HandlerEvents
        /\ Cites(a) = {} /\ Cites(Observation) = {} /\ Cites(c) = {Named(a)}
    BY HandlerEventsAre, InterviewCites
  <2> HIDE DEF a, c
  <2>3. s \in Seq(HandlerEvents) /\ Cited(s, NamesIn(log))
    BY <2>2, ThreeCited
  <2> HIDE DEF s
  <2> QED
    BY <2>1, <2>3, ScriptCited
<1>4. ASSUME NEW p \in Problems, Become(h, Introduction(p)), Planned(log)
      PROVE  CiteTask(task'[h], log)
  <2> DEFINE a == Event("ProblemIntroduced", p)
             b == Turn(Opener(p), "challenger", "question")
             s == <<a, b, Observation>>
  <2>1. Become(h, Posting(s, At("loop")))
    BY <1>4 DEF Introduction
  <2>2. /\ a \in HandlerEvents /\ b \in HandlerEvents /\ Observation \in HandlerEvents
        /\ Cites(a) \subseteq NamesIn(log) /\ Cites(b) = {Named(a)} /\ Cites(Observation) = {}
    BY <1>1, <1>4, HandlerEventsAre, InterviewCites, ProblemCites, PlanIsNamed
  <2> HIDE DEF a, b
  <2>3. s \in Seq(HandlerEvents) /\ Cited(s, NamesIn(log))
    BY <2>2, ThreeCited
  <2> HIDE DEF s
  <2> QED
    BY <2>1, <2>3, ScriptCited
<1>5. CASE IntroduceNext(h)
  <2>1. NextToIntroduce(log) \in Problems
    BY <1>5, NextIsForemost DEF IntroduceNext
  <2> QED
    BY <1>4, <1>5, <2>1 DEF IntroduceNext, Drives
<1>6. CASE Challenge(h)
  <2>1. CurrentProblem(log) \in Problems
    BY <1>1, <1>6, CurrentInPlan DEF Challenge
  <2> QED
    BY <1>4, <1>6, <2>1 DEF Challenge, Dispatches, Drives
<1>7. CASE Execute(h)
  <2> DEFINE n == log[LastTurn(log)].id
             a == Event("RuntimeExecuted", n)
             b == Artifact("cell_output", n)
             f == Event("RuntimeFailed", n)
  <2>1. NextAction(log) = "RequestExecution"
    BY <1>7 DEF Execute, Dispatches
  <2>2. n \in Nonces /\ HasArtifact(log, n, "code_cell")
    BY <1>1, <2>1, CodeIsCandidates, NextActionFacts DEF CodeToRun
  <2>3. \/ Become(h, Posting(<<a, b>>, At("loop")))
        \/ Become(h, Posting(<<f>>, At("loop")))
    BY <1>7 DEF Execute
  <2> HIDE DEF n
  <2>4. <<"ArtifactAttached", <<"code_cell", n>>>> \in NamesIn(log)
    BY <2>2, LoggedIsNamed DEF HasArtifact
  <2>5. /\ a \in HandlerEvents /\ b \in HandlerEvents /\ f \in HandlerEvents
        /\ Cites(a) \subseteq NamesIn(log) /\ Cites(b) = {Named(a)} /\ Cites(f) \subseteq NamesIn(log)
    BY <2>2, <2>4, HandlerEventsAre, FormCites DEF Kinds
  <2> HIDE DEF a, b, f
  <2>6. <<a, b>> \in Seq(HandlerEvents) /\ Cited(<<a, b>>, NamesIn(log))
    BY <2>5, TwoCited
  <2>7. <<f>> \in Seq(HandlerEvents) /\ Cited(<<f>>, NamesIn(log))
    BY <2>5, OneCited
  <2> QED
    BY <2>3, <2>6, <2>7, ScriptCited
<1> QED
  BY <1>2, <1>3, <1>5, <1>6, <1>7

\* _do_probe carries over the form it reviews, which is in the log, and its probe
\* refers to it.
LEMMA ProbeCites ==
  ASSUME TypeOK, NEW h \in Handlers, CiteTask(task[h], log), Observe(h) \/ Examine(h) \/ Review(h)
  PROVE  CiteTask(task'[h], log)
<1> DEFINE t == task[h]
<1>1. log \in Seq(Events) /\ t \in Tasks /\ task \in [Handlers -> Tasks] /\ (t.at # "append" => t.todo = <<>>)
  BY DEF TypeOK, Events
<1>2. ASSUME NEW p, Become(h, AtWith("close", p, None, {}))
      PROVE  CiteTask(task'[h], log)
  <2> DEFINE k == AtWith("close", p, None, {})
  <2>1. task'[h] = k
    BY <1>1, <1>2 DEF Become
  <2>2. Stage(k) = "close" /\ k.todo = <<>>
    BY DEF Stage, AtWith
  <2> QED
    BY <2>1, <2>2 DEF CiteTask, Cited
<1>3. CASE Observe(h)
  <2> DEFINE p == CurrentProblem(log)
             n == LastCandidateTurn(log)
             r == AtWith("examine", p, n, {})
  <2>1. p \in Problems \cup {None} /\ n \in Nonces \cup {None}
    BY <1>1, CurrentInPlan, LastCandidateTurnIsForm
  <2>2. n # None => <<"TurnPosted", n>> \in NamesIn(log)
    BY <1>1, LastFormIsNamed
  <2>3. \E s \in {<<Observation>>, <<>>} : Become(h, Posting(s, r))
    BY <1>3 DEF Observe
  <2> HIDE DEF p, n
  <2>4. WellFormed(r) /\ r.at = "examine" /\ r.n = n
    BY <2>1 DEF WellFormed, Tasks, Steps, AtWith
  <2> HIDE DEF r
  <2>5. PICK s \in {<<Observation>>, <<>>} : Become(h, Posting(s, r))
    BY <2>3
  <2>6. s \in Seq(HandlerEvents) /\ Cited(s, NamesIn(log))
    <3>1. <<Observation>> \in Seq(HandlerEvents) /\ Cited(<<Observation>>, NamesIn(log))
      BY HandlerEventsAre, InterviewCites, OneCited
    <3>2. <<>> \in Seq(HandlerEvents) /\ Cited(<<>>, NamesIn(log))
      BY DEF Cited
    <3> QED
      BY <3>1, <3>2
  <2> DEFINE k == Posting(s, r)
  <2>7. WellFormed(k) /\ Doing(k, s, "examine") /\ k.n = n
    BY <2>4, <2>6, PostingIs DEF SameLocals
  <2>8. task'[h] = k
    BY <1>1, <2>5 DEF Become
  <2> HIDE DEF k
  <2>9. Stage(k) = "examine" /\ k.todo = s
    BY <2>7, StageOf
  <2> QED
    BY <2>2, <2>6, <2>7, <2>8, <2>9 DEF CiteTask
<1>4. CASE Examine(h)
  <2> DEFINE r == [at |-> "review", todo |-> t.todo, then |-> t.then, p |-> t.p, n |-> t.n, arts |-> t.arts]
  <2>1. t.at = "examine" /\ t.todo = <<>>
    BY <1>1, <1>4 DEF Examine, Decides
  <2>2. \/ Become(h, AtWith("close", t.p, None, {}))
        \/ Become(h, [t EXCEPT !.at = "review"])
    BY <1>4 DEF Examine
  <2>3. CASE Become(h, [t EXCEPT !.at = "review"])
    <3>1. r = [t EXCEPT !.at = "review"]
      <4>1. t \in Tasks
        BY <1>1
      <4> HIDE DEF t
      <4> QED
        BY <4>1 DEF Tasks
    <3>2. task'[h] = r
      BY <1>1, <2>3, <3>1 DEF Become
    <3>3. Stage(t) = "examine"
      BY <2>1 DEF Stage
    <3>4. r.at = "review" /\ r.n = t.n /\ r.todo = <<>>
      BY <2>1
    <3>5. t.n # None => <<"TurnPosted", t.n>> \in NamesIn(log)
      BY <3>3 DEF CiteTask
    <3> HIDE DEF r, t
    <3>6. Stage(r) = "review"
      BY <3>4 DEF Stage
    <3> QED
      BY <3>2, <3>4, <3>5, <3>6 DEF CiteTask, Cited
  <2> QED
    BY <1>2, <2>2, <2>3
<1>5. CASE Review(h)
  <2> DEFINE probe == Turn(ProbeAfter(t.n), "examiner", "probe")
             before == IF t.p = None THEN {<<>>, <<Observation>>} ELSE {<<Observation>>}
  <2>1. t.at = "review" /\ t.n \in Nonces \cup {None}
    BY <1>1, <1>5 DEF Review, Decides, Tasks
  <2>2. \/ Become(h, AtWith("close", t.p, None, {}))
        \/ \E seen \in before : Become(h, Posting(seen \o <<probe, Observation>>, At("loop")))
    BY <1>5 DEF Review
  <2>3. probe \in HandlerEvents /\ Observation \in HandlerEvents
    BY <2>1, HandlerEventsAre
  <2>4. Cites(probe) \subseteq NamesIn(log) /\ Cites(Observation) = {}
    <3>1. Stage(t) = "review"
      BY <2>1 DEF Stage
    <3>2. t.n # None => <<"TurnPosted", t.n>> \in NamesIn(log)
      BY <3>1 DEF CiteTask
    <3>3. Cites(probe) \subseteq IF t.n = None THEN {} ELSE {<<"TurnPosted", t.n>>}
      BY FormCites
    <3>4. Cites(Observation) = {}
      BY InterviewCites
    <3> HIDE DEF probe
    <3> QED
      BY <3>2, <3>3, <3>4
  <2>5. \A seen \in before : seen = <<>> \/ seen = <<Observation>>
    OBVIOUS
  <2> HIDE DEF probe, before
  <2>6. <<probe, Observation>> \in Seq(HandlerEvents) /\ Cited(<<probe, Observation>>, NamesIn(log))
    BY <2>3, <2>4, TwoCited
  <2>7. /\ <<Observation, probe, Observation>> \in Seq(HandlerEvents)
        /\ Cited(<<Observation, probe, Observation>>, NamesIn(log))
    BY <2>3, <2>4, ThreeCited
  <2>8. ASSUME NEW seen \in before, Become(h, Posting(seen \o <<probe, Observation>>, At("loop")))
        PROVE  CiteTask(task'[h], log)
    <3> DEFINE said == seen \o <<probe, Observation>>
    <3>1. said = <<probe, Observation>> \/ said = <<Observation, probe, Observation>>
      BY <2>3, <2>5, SeenFirst
    <3>2. Become(h, Posting(said, At("loop")))
      BY <2>8
    <3> HIDE DEF said
    <3>3. said \in Seq(HandlerEvents) /\ Cited(said, NamesIn(log))
      BY <2>6, <2>7, <3>1
    <3> QED
      BY <3>2, <3>3, ScriptCited
  <2> QED
    BY <1>2, <2>2, <2>8
<1> QED
  BY <1>3, <1>4, <1>5

\* The artifacts a request has read are in the log.
LEMMA CloseCites ==
  ASSUME TypeOK, NEW h \in Handlers, Close(h)
  PROVE  CiteTask(task'[h], log)
<1> DEFINE arts == CandidateArtifacts(log, task[h].p)
           r == AtWith("request", task[h].p, None, arts)
<1>1. task'[h] = r
  BY DEF TypeOK, Close, Become
<1>2. Attached(arts) \subseteq NamesIn(log)
  BY CandidatesAreNamed
<1> HIDE DEF arts
<1>3. Stage(r) = "request" /\ r.todo = <<>> /\ r.arts = arts
  BY DEF Stage, AtWith
<1> HIDE DEF r
<1> QED
  BY <1>1, <1>2, <1>3 DEF CiteTask, Cited

\* A problem in hand was introduced, and what is requested for it is in the log.
LEMMA RequestCites ==
  ASSUME TypeOK, NEW h \in Handlers, SequencerTask(task[h], log), CiteTask(task[h], log), Request(h)
  PROVE  CiteTask(task'[h], log)
<1> DEFINE t == task[h]
           p == t.p
           arts == t.arts
           closed == Event("ProblemClosed", p)
           requested == ScoringRequest(p, arts)
           r == AtWith("enqueue", p, None, arts)
           N == NamesIn(log)
<1>1. log \in Seq(Events) /\ t \in Tasks /\ task \in [Handlers -> Tasks]
  BY DEF TypeOK, Events
<1>2. t.at = "request" /\ p \in Problems /\ p # None
  BY <1>1 DEF Request, Decides, TypeOK, Tasks
<1>3. <<"ProblemIntroduced", p>> \in N
  <2>1. Stage(t) = "request"
    BY <1>2 DEF Stage
  <2>2. Introduced(log, p)
    BY <1>2, <2>1 DEF SequencerTask
  <2> QED
    BY <2>2, LoggedIsNamed DEF Introduced
<1>4. arts \in SUBSET ArtifactIds /\ Attached(arts) \subseteq N
  BY <1>1, <1>2 DEF CiteTask, Stage, Tasks
<1>5. closed \in HandlerEvents /\ requested \in HandlerEvents
  BY <1>2, <1>4, HandlerEventsAre
<1>6. \/ Become(h, Posting(<<closed>>, At("loop")))
      \/ Become(h, Posting(<<closed>> \o <<requested>>, At("loop")))
      \/ Become(h, Posting(<<closed>> \o <<requested>>, r))
  BY DEF Request
<1>7. /\ Cites(closed) = {<<"ProblemIntroduced", p>>}
      /\ Cites(requested) = {Named(closed)} \cup Attached(arts)
      /\ Named(requested) = <<"ScoringRequested", p>>
  BY ProblemCites DEF Named, ScoringRequest
<1>8. WellFormed(r) /\ r.at = "enqueue" /\ r.p = p /\ r.arts = arts
  <2> HIDE DEF p, arts
  <2> QED
    BY <1>2, <1>4 DEF WellFormed, Tasks, Steps, AtWith
<1> HIDE DEF closed, requested, arts, r, p, N
<1>9. <<closed>> \o <<requested>> = <<closed, requested>>
  BY <1>5, JoinedShort
<1>10. <<closed>> \in Seq(HandlerEvents) /\ Cited(<<closed>>, N)
  BY <1>3, <1>5, <1>7, OneCited
<1>11. <<closed, requested>> \in Seq(HandlerEvents) /\ Cited(<<closed, requested>>, N)
  <2>1. Cites(closed) \subseteq N /\ Cites(requested) \subseteq N \cup {Named(closed)}
    BY <1>3, <1>4, <1>7
  <2> QED
    BY <1>5, <2>1, TwoCited
<1>12. CASE Become(h, Posting(<<closed, requested>>, r))
  <2> DEFINE s == <<closed, requested>>
             k == Posting(s, r)
  <2>1. WellFormed(k) /\ Doing(k, s, "enqueue") /\ k.p = p /\ k.arts = arts
    BY <1>8, <1>11, PostingIs DEF SameLocals
  <2>2. task'[h] = k
    BY <1>1, <1>12 DEF Become
  <2>3. Named(requested) \in NamesIn(s)
    <3>1. 2 \in DOMAIN s /\ s[2] = requested
      OBVIOUS
    <3> HIDE DEF s
    <3> QED
      BY <3>1 DEF NamesIn
  <2>4. Cited(s, N)
    BY <1>11
  <2> HIDE DEF k, s
  <2>5. Stage(k) = "enqueue" /\ k.todo = s
    BY <2>1, StageOf
  <2>6. CitedJob(p, arts, N \cup NamesIn(s))
    BY <1>4, <1>7, <2>3 DEF CitedJob
  <2> QED
    BY <2>1, <2>2, <2>4, <2>5, <2>6 DEF CiteTask, N
<1>13. Cited(<<closed>>, NamesIn(log)) /\ Cited(<<closed, requested>>, NamesIn(log))
  BY <1>10, <1>11 DEF N
<1> QED
  BY <1>6, <1>9, <1>10, <1>11, <1>12, <1>13, ScriptCited

\* A request that is not in the middle of its appends refers to the log it has read.
LEMMA DecisionCites ==
  ASSUME TypeOK, SequencerInv, NEW h \in Handlers, task[h].at # "append", CiteTask(task[h], log),
         Get(h) \/ Step(h) \/ \E n \in Nonces : Post(h, n)
  PROVE  CiteTask(task'[h], log)
<1>1. task \in [Handlers -> Tasks] /\ SequencerTask(task[h], log)
  BY DEF TypeOK, SequencerInv
<1>2. ~ AppendNext(h)
  BY DEF AppendNext
<1>3. CASE \E n \in Nonces : Post(h, n)
  BY <1>3, PostCites
<1>4. CASE SelectPlan(h) \/ FinishScoring(h) \/ IntroduceNext(h) \/ Execute(h)
             \/ Challenge(h) \/ Aggregate(h)
  BY <1>4, LoopCites
<1>5. CASE Get(h) \/ AskExaminer(h) \/ GiveUp(h) \/ Respond(h) \/ Enqueue(h)
  <2>1. \E step \in {"idle", "loop", "probe"} : Become(h, At(step))
    BY <1>5 DEF Get, AskExaminer, GiveUp, Respond, Enqueue, Idle
  <2>2. \E step \in {"idle", "loop", "probe"} : task'[h] = At(step)
    BY <1>1, <2>1 DEF Become
  <2> QED
    BY <2>2, ClearedCited
<1>6. CASE Observe(h) \/ Examine(h) \/ Review(h)
  BY <1>6, ProbeCites
<1>7. CASE Close(h) \/ Request(h)
  BY <1>1, <1>7, CloseCites, RequestCites
<1> QED
  BY <1>2, <1>3, <1>4, <1>5, <1>6, <1>7 DEF Step

\* The same of every request, whoever takes the step.
LEMMA StepCites ==
  ASSUME TypeOK, SequencerInv, CiteInv, [Next]_vars
  PROVE  \A g \in Handlers : task[g].at # "append" => CiteTask(task'[g], log)
<1> SUFFICES ASSUME NEW g \in Handlers, task[g].at # "append"
             PROVE  CiteTask(task'[g], log)
  OBVIOUS
<1>1. CiteTask(task[g], log)
  BY DEF CiteInv
<1>2. CASE task' = task
  BY <1>1, <1>2
<1>3. ASSUME NEW h \in Handlers, Get(h) \/ Step(h) \/ \E n \in Nonces : Post(h, n)
      PROVE  CiteTask(task'[g], log)
  <2>1. CASE h = g
    BY <1>1, <1>3, <2>1, DecisionCites
  <2>2. CASE h # g
    <3>1. PICK k : Decides1(h, k) \/ Appends(h, k)
      BY <1>3, HandlerSteps
    <3>2. task'[g] = task[g]
      BY <2>2, <3>1, TasksAfter
    <3> QED
      BY <1>1, <3>2
  <2> QED
    BY <2>1, <2>2
<1>4. CASE Crash
  <2>1. task'[g] = At("idle")
    BY <1>4 DEF Crash, Idle
  <2> QED
    BY <2>1, ClearedCited
<1> QED
  BY <1>2, <1>3, <1>4 DEF Next, vars, Score, WorkerAppend

\* When an event is recorded that refers to the log, so do its events and what referred
\* to it before.
LEMMA CiteRecords ==
  ASSUME NEW L, NEW M, NEW e, Records(L, M, e), Cited(L, {}), Cites(e) \subseteq NamesIn(L)
  PROVE  /\ Cited(M, {})
         /\ \A s : Cited(s, NamesIn(L)) => Cited(s, NamesIn(M))
         /\ \A p, arts : CitedJob(p, arts, NamesIn(L)) => CitedJob(p, arts, NamesIn(M))
         /\ \A t : CiteTask(t, L) => CiteTask(t, M)
<1>1. NamesIn(L) \subseteq NamesIn(M)
  BY RecordsNames
<1>2. /\ \A s : Cited(s, NamesIn(L)) => Cited(s, NamesIn(M))
      /\ \A p, arts : CitedJob(p, arts, NamesIn(L)) => CitedJob(p, arts, NamesIn(M))
  BY <1>1, StillCited
<1>3. \A p, arts, O : CitedJob(p, arts, NamesIn(L) \cup O) => CitedJob(p, arts, NamesIn(M) \cup O)
  BY <1>1 DEF CitedJob
<1>4. Cited(M, {})
  BY PastStaysCited
<1>5. ASSUME NEW t, CiteTask(t, L) PROVE CiteTask(t, M)
  <2>1. Cited(t.todo, NamesIn(M))
    BY <1>2, <1>5 DEF CiteTask
  <2>2. Stage(t) \in {"examine", "review"} /\ t.n # None => <<"TurnPosted", t.n>> \in NamesIn(M)
    BY <1>1, <1>5 DEF CiteTask
  <2>3. Stage(t) = "enqueue" => CitedJob(t.p, t.arts, NamesIn(M) \cup NamesIn(t.todo))
    BY <1>3, <1>5 DEF CiteTask
  <2>4. Stage(t) = "request" => Attached(t.arts) \subseteq NamesIn(M)
    BY <1>1, <1>5 DEF CiteTask
  <2> QED
    BY <2>1, <2>2, <2>3, <2>4 DEF CiteTask
<1> QED
  BY <1>2, <1>4, <1>5

\* A request that appends goes on with references to the log it has grown.
LEMMA AppendCites ==
  ASSUME NEW t, NEW k, NEW L, NEW M, NEW S, t.todo \in Seq(S), t.todo # <<>>, t.at = "append",
         CiteTask(t, L), Records(L, M, Head(t.todo)),
         WellFormed(k), Doing(k, Tail(t.todo), t.then), SameLocals(k, t)
  PROVE  CiteTask(k, M)
<1> DEFINE s == t.todo
           e == Head(s)
<1>1. /\ Cited(Tail(s), NamesIn(M))
      /\ NamesIn(s) \subseteq NamesIn(Tail(s)) \cup {Named(e)}
  BY TailCited DEF CiteTask
<1>2. NamesIn(L) \subseteq NamesIn(M) /\ (e # Observation => Named(e) \in NamesIn(M))
  BY RecordsNames
<1>3. Stage(k) = t.then /\ k.todo = Tail(s) /\ Stage(t) = t.then
  BY StageOf DEF Stage
<1>4. k.n = t.n /\ k.p = t.p /\ k.arts = t.arts
  BY DEF SameLocals
<1> HIDE DEF e, s
<1>5. Stage(k) \in {"examine", "review"} /\ k.n # None => <<"TurnPosted", k.n>> \in NamesIn(M)
  BY <1>2, <1>3, <1>4 DEF CiteTask
<1>6. Stage(k) = "request" => Attached(k.arts) \subseteq NamesIn(M)
  BY <1>2, <1>3, <1>4 DEF CiteTask
<1>7. ASSUME Stage(k) = "enqueue"
      PROVE  CitedJob(k.p, k.arts, NamesIn(M) \cup NamesIn(k.todo))
  <2>1. CitedJob(k.p, k.arts, NamesIn(L) \cup NamesIn(s))
    BY <1>3, <1>4, <1>7 DEF CiteTask, s
  <2>2. Named(Observation) = <<"Observed", None>>
    BY DEF Named, Observation, Event
  <2>3. NamesIn(L) \cup NamesIn(s) \subseteq NamesIn(M) \cup NamesIn(k.todo) \cup {<<"Observed", None>>}
    BY <1>1, <1>2, <1>3, <2>2
  <2>4. /\ <<"Observed", None>> # <<"ScoringRequested", k.p>>
        /\ <<"Observed", None>> \notin Attached(k.arts)
    BY DEF Attached
  <2> QED
    BY <2>1, <2>3, <2>4 DEF CitedJob
<1> QED
  BY <1>1, <1>3, <1>5, <1>6, <1>7 DEF CiteTask

\* CiteInv is inductive, for any number of requests.
LEMMA CiteStep ==
  ASSUME TypeOK, TypeOK', SequencerInv, CiteInv, [Next]_vars
  PROVE  CiteInv'
<1>1. /\ log \in Seq(Events) /\ Cited(log, {})
      /\ \A h \in Handlers : CiteTask(task[h], log)
      /\ \A i \in DOMAIN queue : CitedJob(queue[i].p, queue[i].arts, NamesIn(log))
      /\ Cited(worker.todo, NamesIn(log))
  BY DEF TypeOK, Events, CiteInv
<1>2. \A i \in DOMAIN queue' : CitedJob(queue'[i].p, queue'[i].arts, NamesIn(log))
  <2>1. ASSUME NEW h \in Handlers, task[h].at = "enqueue"
        PROVE  CitedJob(task[h].p, task[h].arts, NamesIn(log))
    <3>1. Stage(task[h]) = "enqueue" /\ task[h].todo = <<>>
      BY <2>1 DEF Stage, TypeOK
    <3>2. NamesIn(log) \cup NamesIn(<<>>) = NamesIn(log)
      BY DEF NamesIn
    <3> QED
      BY <1>1, <3>1, <3>2 DEF CiteTask
  <2>2. ASSUME NEW p \in Requested(log)
        PROVE  CitedJob(p, CandidateArtifacts(log, p), NamesIn(log))
    <3>1. <<"ScoringRequested", p>> \in NamesIn(log)
      BY <2>2 DEF Requested, Positions, NamesIn, Named
    <3> QED
      BY <3>1, CandidatesAreNamed DEF CitedJob
  <2>3. ASSUME NEW i \in DOMAIN queue'
        PROVE  CitedJob(queue'[i].p, queue'[i].arts, NamesIn(log))
    <3>1. CASE \E j \in DOMAIN queue : queue'[i] = queue[j]
      BY <1>1, <3>1
    <3>2. CASE /\ queue'[i].p \in Requested(log)
               /\ queue'[i].arts = CandidateArtifacts(log, queue'[i].p)
      BY <2>2, <3>2
    <3>3. CASE \E h \in Handlers : /\ task[h].at = "enqueue"
                                   /\ queue'[i].p = task[h].p /\ queue'[i].arts = task[h].arts
      BY <2>1, <3>3
    <3> QED
      BY <2>3, <3>1, <3>2, <3>3, QueueCases
  <2> QED
    BY <2>3
<1>3. CiteTask(Idle, log) /\ Cited(<<>>, NamesIn(log))
  BY DEF CiteTask, Cited, Idle, At, AtWith, Stage
<1>4. CASE Rests
  BY <1>1, <1>2, <1>4 DEF Rests, CiteInv
<1>5. CASE Restarts
  BY <1>1, <1>2, <1>3, <1>5 DEF Restarts, CiteInv, NewWorker
<1>6. CASE Scores
  <2>1. PICK job \in Jobs(Problems), events \in Seq(WorkerEvents) :
          /\ events \in Results(job) /\ \E i \in DOMAIN queue : job = queue[i]
          /\ worker'.todo = events \o <<Event("ScoringCompleted", job.p)>>
    BY <1>6 DEF Scores
  <2> DEFINE last == Event("ScoringCompleted", job.p)
             all == events \o <<last>>
  <2>2. last \in WorkerEvents
    BY WorkerEventsAre DEF Jobs
  <2>3. CitedJob(job.p, job.arts, NamesIn(log))
    BY <1>1, <2>1
  <2>4. \A i \in 1 .. Len(events) : Cites(events[i]) \subseteq NamesIn(log)
    <3>1. \A i \in 1 .. Len(events) : ResultOf(events[i], job)
      BY <2>1, ResultsReport
    <3> QED
      BY <2>3, <3>1, ResultCites
  <2>5. Cites(last) \subseteq NamesIn(log)
    BY <2>3, ResultCites
  <2> HIDE DEF last
  <2>6. \A i \in DOMAIN all : (i \in 1 .. Len(events) /\ all[i] = events[i]) \/ all[i] = last
    BY <2>1, <2>2
  <2> HIDE DEF all
  <2>7. \A i \in DOMAIN all : Cites(all[i]) \subseteq NamesIn(log)
    BY <2>4, <2>5, <2>6
  <2>8. Cited(all, NamesIn(log))
    BY <2>7 DEF Cited
  <2>9. worker'.todo = all /\ log' = log /\ task' = task
    BY <1>6, <2>1 DEF Scores, all, last
  <2> QED
    BY <1>1, <1>2, <2>8, <2>9 DEF CiteInv
<1>7. ASSUME NEW e, Records(log, log', e), Cites(e) \subseteq NamesIn(log)
      PROVE  /\ Cited(log', {})
             /\ \A s : Cited(s, NamesIn(log)) => Cited(s, NamesIn(log'))
             /\ \A t : CiteTask(t, log) => CiteTask(t, log')
             /\ \A i \in DOMAIN queue' : CitedJob(queue'[i].p, queue'[i].arts, NamesIn(log'))
  <2>1. /\ Cited(log', {})
        /\ \A s : Cited(s, NamesIn(log)) => Cited(s, NamesIn(log'))
        /\ \A p, arts : CitedJob(p, arts, NamesIn(log)) => CitedJob(p, arts, NamesIn(log'))
        /\ \A t : CiteTask(t, log) => CiteTask(t, log')
    BY <1>1, <1>7, CiteRecords
  <2>2. \A i \in DOMAIN queue' : CitedJob(queue'[i].p, queue'[i].arts, NamesIn(log'))
    BY <1>2, <2>1
  <2> QED
    BY <2>1, <2>2
<1>8. CASE WorkerAppends
  <2> DEFINE s == worker.todo
             e == Head(s)
  <2>1. s \in Seq(WorkerEvents) /\ s # <<>> /\ task' = task
    BY <1>8, WorkerHead DEF WorkerAppends
  <2>2. CASE Records(log, log', e) /\ worker'.todo = Tail(s)
    <3>1. Cites(e) \subseteq NamesIn(log) /\ Cited(Tail(s), NamesIn(log'))
      BY <1>1, <2>1, <2>2, TailCited
    <3> HIDE DEF e, s
    <3>2. /\ Cited(log', {})
          /\ \A t : CiteTask(t, log) => CiteTask(t, log')
          /\ \A i \in DOMAIN queue' : CitedJob(queue'[i].p, queue'[i].arts, NamesIn(log'))
      BY <1>7, <2>2, <3>1
    <3> QED
      BY <1>1, <2>1, <2>2, <3>1, <3>2 DEF CiteInv
  <2>3. CASE log' = log /\ (worker'.todo = s \/ worker'.todo = <<>>)
    BY <1>1, <1>2, <1>3, <2>1, <2>3 DEF CiteInv
  <2> QED
    BY <1>8, <2>2, <2>3 DEF WorkerAppends
<1>9. ASSUME NEW h \in Handlers, NEW k, Decides1(h, k) \/ Appends(h, k)
      PROVE  CiteInv'
  <2>1. WellFormed(k) /\ (\A g \in Handlers : task'[g] = IF g = h THEN k ELSE task[g])
        /\ worker' = worker
    BY <1>9, TasksAfter
  <2>2. CASE Decides1(h, k)
    <3>1. log' = log /\ task[h].at # "append"
      BY <2>2 DEF Decides1
    <3>2. CiteTask(task'[h], log)
      BY <3>1, StepCites
    <3>3. CiteTask(k, log)
      BY <2>1, <3>2
    <3> QED
      BY <1>1, <1>2, <2>1, <3>1, <3>3 DEF CiteInv
  <2>3. CASE Appends(h, k)
    <3> DEFINE t == task[h]
               e == Head(t.todo)
    <3>1. t \in Tasks /\ t.at = "append" /\ t.todo # <<>> /\ CiteTask(t, log)
      BY <1>1, <2>3 DEF Appends, TypeOK
    <3>2. CASE log' = log /\ k = Idle
      BY <1>1, <1>2, <1>3, <2>1, <3>2 DEF CiteInv
    <3>3. CASE Records(log, log', e) /\ Doing(k, Tail(t.todo), t.then) /\ SameLocals(k, t)
      <4>1. t.todo \in Seq(HandlerEvents)
        BY <3>1 DEF Tasks
      <4>2. CiteTask(k, log')
        BY <2>1, <3>1, <3>3, <4>1, AppendCites
      <4>3. Cites(e) \subseteq NamesIn(log)
        BY <3>1, <3>3, <4>1, TailCited DEF CiteTask
      <4> HIDE DEF e, t
      <4>4. /\ Cited(log', {})
            /\ \A s : Cited(s, NamesIn(log)) => Cited(s, NamesIn(log'))
            /\ \A u : CiteTask(u, log) => CiteTask(u, log')
            /\ \A i \in DOMAIN queue' : CitedJob(queue'[i].p, queue'[i].arts, NamesIn(log'))
        BY <1>7, <3>3, <4>3
      <4> QED
        BY <1>1, <2>1, <4>2, <4>4 DEF CiteInv
    <3> QED
      BY <2>3, <3>2, <3>3 DEF Appends
  <2> QED
    BY <1>9, <2>2, <2>3
<1> QED
  BY <1>4, <1>5, <1>6, <1>8, <1>9, NextCases

\* The invariants.md rule "Referential", for every number of concurrent requests, forms,
\* problems, refused appends and crashes: an event refers to events that come before it
\* in the log. The inductive invariant says it of what every author has left to append
\* and of the jobs on the queue; a request in the middle of _do_probe or of closing a
\* problem needs the form and the problem it carries over to be in the log already.
THEOREM PastIsCited == Spec => []EventsCiteThePast
<1>1. Init => CiteInv
  <2> SUFFICES ASSUME Init PROVE CiteInv
    OBVIOUS
  <2>1. Cited(log, {})
    <3>1. DOMAIN log = {1} /\ log[1].type = "SessionStarted"
      BY InitLog
    <3>2. Cites(log[1]) = {}
      BY <3>1 DEF Cites
    <3> QED
      BY <3>1, <3>2 DEF Cited
  <2>2. \A h \in Handlers : CiteTask(task[h], log)
    BY DEF Init, CiteTask, Cited, Idle, At, AtWith, Stage
  <2>3. queue = <<>> /\ worker.todo = <<>>
    BY DEF Init, NewWorker
  <2> QED
    BY <2>1, <2>2, <2>3 DEF CiteInv, Cited
<1>2. TypeOK /\ TypeOK' /\ SequencerInv /\ CiteInv /\ [Next]_vars => CiteInv'
  BY CiteStep
<1>3. CiteInv => EventsCiteThePast
  <2>1. ASSUME NEW L, Cited(L, {})
        PROVE  \A i \in DOMAIN L : Cites(L[i]) \subseteq {Named(L[j]) : j \in 1 .. i - 1}
    BY <2>1 DEF Cited
  <2> QED
    BY <2>1 DEF CiteInv, EventsCiteThePast
<1> QED
  BY <1>1, <1>2, <1>3, Types, SequencerInvariant, PTL DEF Spec

-----------------------------------------------------------------------------
(* The score comes after the results of what was requested. *)

\* The dimensions the session is scored on include every problem's, as create_app
\* configures them (adapters/http/app.py).
AllDimsScored == Dims \subseteq ScoredDims

\* Every problem whose scoring was requested has its results in the log.
AllReported(L) ==
  \A r \in Positions(L, {"ScoringRequested"}) : \A k \in DOMAIN TargetDims[L[r].id] :
    \E j \in DOMAIN L : Reports(L[j], L[r].id, TargetDims[L[r].id][k])

\* ScoreNeedsSignals, of any log.
ScoredAfter(L) ==
  \A i \in Positions(L, {"ScoreComputed"}), r \in Positions(L, {"ScoringRequested"}) :
    r < i => \A k \in DOMAIN TargetDims[L[r].id] :
               \E j \in 1 .. i - 1 : Reports(L[j], L[r].id, TargetDims[L[r].id][k])

\* A score about to be appended is the next event, and nothing is missing.
ScoreTask(t, L) ==
  \A i \in DOMAIN t.todo : t.todo[i].type = "ScoreComputed" => i = 1 /\ AllReported(L)

ScoreInv == ScoredAfter(log) /\ \A h \in Handlers : ScoreTask(task[h], log)

\* When the background scoring of every request has completed nothing is missing.
LEMMA ReadyIsReported ==
  ASSUME NEW L \in Seq(Events), AsyncScoringReady(L),
         \A i \in Positions(L, {"ScoringCompleted"}) : ReportedBy(L, i)
  PROVE  AllReported(L)
<1>1. SUFFICES ASSUME NEW r \in Positions(L, {"ScoringRequested"}), NEW k \in DOMAIN TargetDims[L[r].id]
               PROVE  \E j \in DOMAIN L : Reports(L[j], L[r].id, TargetDims[L[r].id][k])
  BY DEF AllReported
<1>2. PICK i \in Positions(L, {"ScoringCompleted"}) : L[i].id = L[r].id
  BY DEF AsyncScoringReady, Requested, Completed
<1>3. \E j \in 1 .. i - 1 : Reports(L[j], L[r].id, TargetDims[L[r].id][k])
  BY <1>2 DEF ReportedBy
<1>4. 1 .. i - 1 \subseteq DOMAIN L
  BY DEF Positions
<1> QED
  BY <1>3, <1>4

\* When every artifact is cited by a signal of every dimension nothing is missing: the
\* signal that cites an artifact of a request is of the same problem.
LEMMA CitedIsReported ==
  ASSUME NEW L \in Seq(Events), UniqueKeys(L), AllDimsScored, Unscored(L) = {},
         \A i \in DOMAIN L : Source(L, L[i])
  PROVE  AllReported(L)
<1>1. SUFFICES ASSUME NEW r \in Positions(L, {"ScoringRequested"}), NEW k \in DOMAIN TargetDims[L[r].id]
               PROVE  \E j \in DOMAIN L : Reports(L[j], L[r].id, TargetDims[L[r].id][k])
  BY DEF AllReported
<1> DEFINE p == L[r].id
           d == TargetDims[p][k]
<1>2. r \in DOMAIN L /\ L[r].type = "ScoringRequested"
  BY DEF Positions
<1>3. d \in ScoredDims
  <2>1. p \in Problems
    BY <1>2, IntroducedInPlan
  <2>2. d \in {TargetDims[p][i] : i \in DOMAIN TargetDims[p]}
    OBVIOUS
  <2>3. d \in Dims
    <3> HIDE DEF d, p
    <3> QED
      BY <2>1, <2>2 DEF Dims
  <2> QED
    BY <2>3 DEF AllDimsScored
<1>4. PICK x \in L[r].artifacts : x \in ScorableArtifacts(L) /\ TurnIn(L, x[2], p)
  BY <1>2 DEF Source, Belongs
<1>5. IsScored(L, x, d)
  <2> HIDE DEF d, p
  <2>1. <<x, d>> \in ScorableArtifacts(L) \X ScoredDims
    BY <1>3, <1>4
  <2>2. <<x, d>>[1] = x /\ <<x, d>>[2] = d
    OBVIOUS
  <2> QED
    BY <2>1, <2>2 DEF Unscored
<1> HIDE DEF d
<1>6. PICK j \in DOMAIN L : L[j].type = "SignalEmitted" /\ L[j].dim = d /\ x \in L[j].refs
  BY <1>5 DEF IsScored, Positions
<1>7. TurnIn(L, x[2], L[j].id[1])
  BY <1>6 DEF Source, Belongs
<1>8. L[j].id[1] = p
  BY <1>4, <1>7, TurnInOne
<1>9. Reports(L[j], p, d)
  BY <1>6, <1>8 DEF Reports
<1> QED
  BY <1>9 DEF d

\* An event recorded after its cause keeps the score after the results, and nothing
\* goes missing unless a scoring is requested.
LEMMA RecordsScored ==
  ASSUME NEW L \in Seq(Events), NEW M \in Seq(Events), NEW e, Records(L, M, e), ScoredAfter(L)
  PROVE  /\ (e.type = "ScoreComputed" => AllReported(L)) => ScoredAfter(M)
         /\ e.type # "ScoringRequested" /\ AllReported(L) => AllReported(M)
<1>1. CASE M = L
  BY <1>1
<1>2. CASE M # L
  <2> DEFINE n == Len(L)
  <2>1. Adds(L, M, e)
    BY <1>2 DEF Records
  <2>2. /\ n \in Nat /\ DOMAIN L = 1 .. n /\ DOMAIN M = 1 .. n + 1
        /\ M[n + 1] = e /\ \A i \in 1 .. n : M[i] = L[i]
    BY <2>1 DEF Adds
  <2> HIDE DEF n
  <2>3. ASSUME NEW i \in Positions(M, {"ScoreComputed"}), NEW r \in Positions(M, {"ScoringRequested"}),
               r < i, NEW k \in DOMAIN TargetDims[M[r].id], e.type = "ScoreComputed" => AllReported(L)
        PROVE  \E j \in 1 .. i - 1 : Reports(M[j], M[r].id, TargetDims[M[r].id][k])
    <3>1. i \in 1 .. n + 1 /\ r \in 1 .. n + 1
      BY <2>2 DEF Positions
    <3>2. r \in 1 .. n /\ M[r] = L[r] /\ r \in Positions(L, {"ScoringRequested"})
      <4>1. r \in 1 .. n
        BY <2>2, <2>3, <3>1
      <4> QED
        BY <2>2, <4>1 DEF Positions
    <3>3. CASE i \in 1 .. n
      <4>1. i \in Positions(L, {"ScoreComputed"})
        BY <2>2, <3>3 DEF Positions
      <4>2. PICK j \in 1 .. i - 1 : Reports(L[j], L[r].id, TargetDims[L[r].id][k])
        BY <2>3, <3>2, <4>1 DEF ScoredAfter
      <4>3. j \in 1 .. n /\ M[j] = L[j]
        BY <2>2, <3>3
      <4> QED
        BY <3>2, <4>2, <4>3
    <3>4. CASE i = n + 1
      <4>1. e.type = "ScoreComputed"
        BY <2>2, <3>4 DEF Positions
      <4>2. PICK j \in DOMAIN L : Reports(L[j], L[r].id, TargetDims[L[r].id][k])
        BY <2>3, <3>2, <4>1 DEF AllReported
      <4>3. j \in 1 .. n /\ M[j] = L[j] /\ j \in 1 .. i - 1
        BY <2>2, <3>4
      <4> QED
        BY <3>2, <4>2, <4>3
    <3> QED
      BY <2>2, <3>1, <3>3, <3>4
  <2>4. ASSUME NEW r \in Positions(M, {"ScoringRequested"}), e.type # "ScoringRequested", AllReported(L),
               NEW k \in DOMAIN TargetDims[M[r].id]
        PROVE  \E j \in DOMAIN M : Reports(M[j], M[r].id, TargetDims[M[r].id][k])
    <3>1. r \in 1 .. n /\ M[r] = L[r] /\ r \in Positions(L, {"ScoringRequested"})
      BY <2>2, <2>4 DEF Positions
    <3>2. PICK j \in DOMAIN L : Reports(L[j], L[r].id, TargetDims[L[r].id][k])
      BY <2>4, <3>1 DEF AllReported
    <3>3. j \in DOMAIN M /\ M[j] = L[j]
      BY <2>2
    <3> QED
      BY <3>1, <3>2, <3>3
  <2>5. (e.type = "ScoreComputed" => AllReported(L)) => ScoredAfter(M)
    BY <2>3 DEF ScoredAfter
  <2>6. e.type # "ScoringRequested" /\ AllReported(L) => AllReported(M)
    BY <2>4 DEF AllReported
  <2> QED
    BY <2>5, <2>6
<1> QED
  BY <1>1, <1>2

\* A decision to score is taken when nothing is missing.
LEMMA DecisionScores ==
  ASSUME NEW t, NEW k, NEW L \in Seq(Events), UniqueKeys(L), AllDimsScored, WellFormed(k),
         \A i \in Positions(L, {"ScoringCompleted"}) : ReportedBy(L, i),
         \A i \in DOMAIN L : Source(L, L[i]),
         Decision(t, k, L)
  PROVE  ScoreTask(k, L)
<1>1. ASSUME \A i \in DOMAIN k.todo : k.todo[i].type # "ScoreComputed"
      PROVE  ScoreTask(k, L)
  BY <1>1 DEF ScoreTask
<1>2. CASE Aggregates(t, k, L)
  <2>1. AllReported(L)
    <3>1. AsyncScoringReady(L) \/ Unscored(L) = {}
      BY <1>2, AggregatesIs
    <3> QED
      BY <3>1, ReadyIsReported, CitedIsReported
  <2> QED
    BY <1>2, <2>1, AggregatesIs DEF ScoreTask
<1>3. CASE Goes(t, k, L)
  BY <1>1, <1>3, GoesIs
<1>4. CASE Posts(t, k, L)
  BY <1>1, <1>4, PostsIs
<1>5. CASE Plans(t, k, L)
  BY <1>1, <1>5, PlansIs
<1>6. CASE Introduces(t, k, L)
  BY <1>1, <1>6, IntroducesIs
<1>7. CASE Runs(t, k, L)
  BY <1>1, <1>7, RunsIs
<1>8. CASE Covers(t, k, L)
  BY <1>1, <1>8, CoversIs
<1>9. CASE Probes(t, k, L)
  BY <1>1, <1>9, ProbesIs DEF IsProbe
<1>10. CASE Closes(t, k, L)
  BY <1>1, <1>10, ClosesIs
<1> QED
  BY <1>2, <1>3, <1>4, <1>5, <1>6, <1>7, <1>8, <1>9, <1>10 DEF Decision

\* ScoreInv is inductive when one request is served at a time.
LEMMA ScoredStep ==
  ASSUME OneRequest, AllDimsScored, TypeOK, TypeOK', UniqueKeys(log), CompletionInv, SourceInv, ScoreInv,
         [Next]_vars
  PROVE  ScoreInv'
<1>1. /\ ScoredAfter(log) /\ \A h \in Handlers : ScoreTask(task[h], log)
      /\ log \in Seq(Events) /\ log' \in Seq(Events) /\ UniqueKeys(log)
      /\ \A i \in Positions(log, {"ScoringCompleted"}) : ReportedBy(log, i)
      /\ \A i \in DOMAIN log : Source(log, log[i])
  BY DEF ScoreInv, TypeOK, Events, CompletionInv, SourceInv
<1>2. CASE Stays
  <2>1. ScoreTask(Idle, log)
    BY DEF ScoreTask, Idle, At, AtWith
  <2> QED
    BY <1>1, <1>2, <2>1 DEF Stays, ScoreInv
<1>3. CASE ThreadAdds
  <2>1. PICK e \in WorkerEvents : Records(log, log', e) /\ \A h \in Handlers : task'[h] = task[h]
    BY <1>3 DEF ThreadAdds
  <2>2. e.type \notin {"ScoreComputed", "ScoringRequested"}
    BY WorkerEventFacts
  <2>3. ScoredAfter(log') /\ (AllReported(log) => AllReported(log'))
    BY <1>1, <2>1, <2>2, RecordsScored
  <2>4. \A t : ScoreTask(t, log) => ScoreTask(t, log')
    BY <2>3 DEF ScoreTask
  <2> QED
    BY <1>1, <2>1, <2>3, <2>4 DEF ScoreInv
<1>4. ASSUME NEW h \in Handlers, NEW k, RequestDecides(h, k)
      PROVE  ScoreInv'
  <2>1. ScoreTask(k, log)
    BY <1>1, <1>4, DecisionScores DEF RequestDecides
  <2> QED
    BY <1>1, <1>4, <2>1 DEF ScoreInv, RequestDecides
<1>5. ASSUME NEW h \in Handlers, NEW e \in HandlerEvents, NEW k, RequestAdds(h, k, e)
      PROVE  ScoreInv'
  <2> DEFINE t == task[h]
  <2>1. /\ ScoreTask(t, log) /\ e = t.todo[1] /\ 1 \in DOMAIN t.todo /\ Records(log, log', e)
        /\ \A i \in DOMAIN k.todo :
             i \in Nat \ {0} /\ i + 1 \in DOMAIN t.todo /\ k.todo[i] = t.todo[i + 1]
        /\ \A g \in Handlers : task'[g] = k
    BY <1>1, <1>5 DEF RequestAdds
  <2> HIDE DEF t
  <2>2. ScoredAfter(log')
    <3>1. e.type = "ScoreComputed" => AllReported(log)
      BY <2>1 DEF ScoreTask
    <3> QED
      BY <1>1, <2>1, <3>1, RecordsScored
  <2>3. \A i \in DOMAIN k.todo : i + 1 # 1
    BY <2>1
  <2>4. ScoreTask(k, log')
    BY <2>1, <2>3 DEF ScoreTask
  <2> QED
    BY <2>1, <2>2, <2>4 DEF ScoreInv
<1> QED
  BY <1>2, <1>3, <1>4, <1>5, OneRequestCases

\* While one request is served at a time, and whatever its crashes and the retries of
\* the scoring thread: the session's score is computed after every problem whose
\* scoring was requested has a signal or a failure for each of its dimensions. This
\* holds on both ways to the score, and on the one that looks at the artifacts only
\* because a signal cites the turns of its own problem (SourceInv).
THEOREM ScoresAreBacked ==
  ASSUME OneRequest, AllDimsScored
  PROVE  Spec => []ScoreNeedsSignals
<1>1. Init => SourceInv /\ ScoreInv /\ CompletionInv
  <2> SUFFICES ASSUME Init PROVE SourceInv /\ ScoreInv /\ CompletionInv
    OBVIOUS
  <2>1. TypeOK
    BY InitTyped
  <2>2. SourceInv
    BY InitLog DEF Init, SourceInv, SourceTask, Source, Idle, At, AtWith, Stage, NewWorker
  <2>3. ScoreInv
    BY InitLog DEF Init, ScoreInv, ScoredAfter, ScoreTask, Idle, At, AtWith
  <2>4. CompletionInv
    BY <2>1, InitLog DEF Init, CompletionInv, WillReport, NewWorker
  <2> QED
    BY <2>2, <2>3, <2>4
<1>2. TypeOK /\ TypeOK' /\ SourceInv /\ [Next]_vars => SourceInv'
  BY SourceStep
<1>3. TypeOK' /\ CompletionInv /\ [Next]_vars => CompletionInv'
  BY CompletionStep
<1>4. TypeOK /\ TypeOK' /\ UniqueKeys(log) /\ CompletionInv /\ SourceInv /\ ScoreInv /\ [Next]_vars => ScoreInv'
  BY ScoredStep
<1>5. ScoreInv => ScoreNeedsSignals
  BY DEF ScoreInv, ScoredAfter, ScoreNeedsSignals, SignalsBefore, Reports
<1> QED
  BY <1>1, <1>2, <1>3, <1>4, <1>5, Types, KeysUnique, PTL DEF Spec
=============================================================================
