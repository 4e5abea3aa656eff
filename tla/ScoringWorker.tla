---------------------------- MODULE ScoringWorker ---------------------------
(***************************************************************************)
(* adapters/scorer/background_worker.py: the scoring thread of one server  *)
(* process, the callers that hand it jobs, and the application that starts *)
(* it and stops it with its lifespan (adapters/http/app.py).               *)
(*                                                                         *)
(* A job is identified by its session and problem, which is all the queue  *)
(* decides by.  Of the event log the worker sees whether somebody has      *)
(* appended to the session between its last_seq() and its append: that is  *)
(* `fresh`, and makes sequence numbers unnecessary here.  InterviewSession *)
(* has one session, one caller of each job and a thread that always runs;  *)
(* this module has what it leaves out: the lock around _queued_or_done,    *)
(* the gap before the put, start, stop, the sentinel and the join.         *)
(***************************************************************************)
EXTENDS Naturals, Sequences

CONSTANTS Jobs,        \* (session_id, problem_id) of the closed problems
          Callers,     \* threads that may be in enqueue together
          Threads,     \* identities for the threads start() creates
          None,        \* no job; in the queue, stop()'s sentinel
          MaxResults,  \* the events a scorer returns for a job, at most
          MaxStarts    \* bound: how often the application's lifespan is entered

ASSUME NoneAssumption == None \notin Jobs \cup Threads
ASSUME ResultsAssumption == MaxResults \in Nat
ASSUME StartsAssumption == MaxStarts \in Nat

VARIABLES queue,    \* _queue
          known,    \* _queued_or_done
          putting,  \* putting[c]: the job caller c put in known and not yet in queue
          thread,   \* thread[t]: where thread t stands
          current,  \* _thread
          app,      \* the lifespan: "down", "up", or "stopping" inside stop()
          starts,   \* times the lifespan was entered
          leftover,     \* a join has timed out
          due,      \* the jobs queued or in hand when stop() was last called
          done      \* the jobs whose ScoringCompleted is in the event log

vars == <<queue, known, putting, thread, current, app, starts, leftover, due, done>>

MaxTries == 4

At(pc, job, left, tries) ==
  [pc |-> pc, job |-> job, left |-> left, tries |-> tries, fresh |-> TRUE]

Init ==
  /\ queue = <<>>
  /\ known = {}
  /\ putting = [c \in Callers |-> None]
  /\ thread = [t \in Threads |-> At("new", None, 0, 0)]
  /\ current = None
  /\ app = "down"
  /\ starts = 0
  /\ leftover = FALSE
  /\ due = {}
  /\ done = {}

Live == {"get", "score", "read", "append"}

Alive(t) == thread[t].pc \in Live

\* self._thread.is_alive()
CurrentAlive == current \in {t \in Threads : Alive(t)}

Queued(j) == \E i \in DOMAIN queue : queue[i] = j

InHand(j) == \E t \in Threads : Alive(t) /\ thread[t].job = j

\* --- enqueue -------------------------------------------------------------

\* Mutant of Claim: the job is looked for and not entered.
ClaimUnseen(c, j) ==
  /\ putting[c] = None
  /\ j \notin known
  /\ putting' = [putting EXCEPT ![c] = j]
  /\ UNCHANGED <<queue, known, thread, current, app, starts, leftover, due, done>>

\* Under _job_lock; a job already known is dropped, which changes nothing.
Claim(c, j) ==
  /\ putting[c] = None
  /\ j \notin known
  /\ known' = known \cup {j}
  /\ putting' = [putting EXCEPT ![c] = j]
  /\ UNCHANGED <<queue, thread, current, app, starts, leftover, due, done>>

\* put_nowait, after the lock is released
Put(c) ==
  /\ putting[c] # None
  /\ queue' = Append(queue, putting[c])
  /\ putting' = [putting EXCEPT ![c] = None]
  /\ UNCHANGED <<known, thread, current, app, starts, leftover, due, done>>

\* --- start and stop, by the application ----------------------------------

\* Mutant of Start: the thread of an earlier start is not looked for.
StartAnyway ==
  /\ app = "down" /\ starts < MaxStarts
  /\ app' = "up"
  /\ starts' = starts + 1
  /\ leftover' = (leftover \/ Queued(None))
  /\ \E t \in Threads :
       /\ thread[t].pc = "new"
       /\ thread' = [thread EXCEPT ![t] = At("get", None, 0, 0)]
       /\ current' = t
  /\ UNCHANGED <<queue, known, putting, due, done>>

\* A new thread, unless the last one is still alive.
Start ==
  /\ app = "down" /\ starts < MaxStarts
  /\ app' = "up"
  /\ starts' = starts + 1
  /\ leftover' = (leftover \/ Queued(None))
  /\ \/ CurrentAlive /\ UNCHANGED <<thread, current>>
     \/ /\ ~ CurrentAlive
        /\ \E t \in Threads :
             /\ thread[t].pc = "new"
             /\ thread' = [thread EXCEPT ![t] = At("get", None, 0, 0)]
             /\ current' = t
  /\ UNCHANGED <<queue, known, putting, due, done>>

\* The sentinel goes behind everything queued by now.
Stop ==
  /\ app = "up"
  /\ app' = "stopping"
  /\ queue' = Append(queue, None)
  /\ due' = {j \in Jobs : Queued(j) \/ InHand(j)}
  /\ UNCHANGED <<known, putting, thread, current, starts, leftover, done>>

\* thread.join(timeout) returns when the thread has ended, or after 2 seconds.
Join ==
  /\ app = "stopping"
  /\ app' = "down"
  /\ UNCHANGED <<queue, known, putting, thread, current, starts, leftover, due, done>>

\* --- the thread ----------------------------------------------------------

Becomes(t, k) == thread' = [thread EXCEPT ![t] = k]

\* Mutant of Get: stop is noticed as soon as it was called.
GetUnlessStopped(t) ==
  /\ thread[t].pc = "get"
  /\ queue # <<>>
  /\ queue' = Tail(queue)
  /\ Becomes(t, IF app = "stopping" \/ Head(queue) = None THEN At("ended", None, 0, 0)
                ELSE At("score", Head(queue), 0, 0))
  /\ UNCHANGED <<known, putting, current, app, starts, leftover, due, done>>

\* queue.get(): a job, or the sentinel that ends the thread.
Get(t) ==
  /\ thread[t].pc = "get"
  /\ queue # <<>>
  /\ queue' = Tail(queue)
  /\ Becomes(t, IF Head(queue) = None THEN At("ended", None, 0, 0)
                ELSE At("score", Head(queue), 0, 0))
  /\ UNCHANGED <<known, putting, current, app, starts, leftover, due, done>>

\* Mutant of Score: when the scorer raises nothing is recorded.
ScoreOrSkip(t) ==
  /\ thread[t].pc = "score"
  /\ \/ \E n \in 0 .. MaxResults : Becomes(t, At("read", thread[t].job, n + 1, 0))
     \/ Becomes(t, At("get", None, 0, 0))
  /\ UNCHANGED <<queue, known, putting, current, app, starts, leftover, due, done>>

\* The scorer returns n events, or raises and they are n failures; the
\* completion is appended after them.
Score(t) ==
  /\ thread[t].pc = "score"
  /\ \E n \in 0 .. MaxResults : Becomes(t, At("read", thread[t].job, n + 1, 0))
  /\ UNCHANGED <<queue, known, putting, current, app, starts, leftover, due, done>>

\* _append: last_seq()
ReadSeq(t) ==
  /\ thread[t].pc = "read"
  /\ Becomes(t, [thread[t] EXCEPT !.pc = "append", !.fresh = TRUE])
  /\ UNCHANGED <<queue, known, putting, current, app, starts, leftover, due, done>>

\* Another writer appends to the job's session.
Overtake(t) ==
  /\ thread[t].pc = "append"
  /\ thread[t].fresh
  /\ Becomes(t, [thread[t] EXCEPT !.fresh = FALSE])
  /\ UNCHANGED <<queue, known, putting, current, app, starts, leftover, due, done>>

\* The event is in the log: stored now, or found there under its key.
Appended(t) ==
  LET k == thread[t]
  IN IF k.left > 1
     THEN Becomes(t, At("read", k.job, k.left - 1, 0)) /\ UNCHANGED done
     ELSE Becomes(t, At("get", None, 0, 0)) /\ done' = done \cup {k.job}

\* Refused with a ValueError, up to three times; the fourth leaves _process.
Refused(t) ==
  LET k == thread[t]
  IN /\ Becomes(t, IF k.tries + 1 < MaxTries
                   THEN At("read", k.job, k.left, k.tries + 1)
                   ELSE [k EXCEPT !.pc = "dead"])
     /\ UNCHANGED done

\* log.append; a key already in the log is answered even to a stale sequence
\* number.
AppendEvent(t) ==
  /\ thread[t].pc = "append"
  /\ \/ Appended(t) /\ (thread[t].fresh \/ thread[t].left > 1)
     \/ ~ thread[t].fresh /\ Refused(t)
  /\ UNCHANGED <<queue, known, putting, current, app, starts, leftover, due>>

\* The log raises (the database is locked for too long), on reading the sequence number
\* or on appending: nothing catches it.
LogFails(t) ==
  /\ thread[t].pc \in {"read", "append"}
  /\ Becomes(t, [thread[t] EXCEPT !.pc = "dead"])
  /\ UNCHANGED <<queue, known, putting, current, app, starts, leftover, due, done>>

\* -------------------------------------------------------------------------

Run(t) == Get(t) \/ Score(t) \/ ReadSeq(t) \/ AppendEvent(t)

Next ==
  \/ \E c \in Callers : Put(c) \/ \E j \in Jobs : Claim(c, j)
  \/ Start \/ Stop \/ Join
  \/ \E t \in Threads : Run(t) \/ Overtake(t) \/ LogFails(t)

Spec == Init /\ [][Next]_vars

\* Fairness: threads are scheduled.  Nobody has to start, stop or enqueue.
FairSpec ==
  /\ Spec
  /\ \A c \in Callers : WF_vars(Put(c))
  /\ \A t \in Threads : WF_vars(Run(t))

-----------------------------------------------------------------------------
(* Properties. *)

TypeOK ==
  /\ queue \in Seq(Jobs \cup {None})
  /\ known \subseteq Jobs
  /\ putting \in [Callers -> Jobs \cup {None}]
  /\ thread \in [Threads -> [pc : Live \cup {"new", "ended", "dead"}, job : Jobs \cup {None},
                             left : Nat, tries : 0 .. MaxTries - 1, fresh : BOOLEAN]]
  /\ current \in Threads \cup {None}
  /\ app \in {"down", "up", "stopping"}
  /\ starts \in Nat
  /\ leftover \in BOOLEAN
  /\ due \subseteq Jobs
  /\ done \subseteq Jobs

\* At most one thread takes jobs from the queue, and it is the one stop joins.
OneThread == \A t \in Threads : Alive(t) => t = current

Holding == {"score", "read", "append", "dead"}

Held(j) == \E t \in Threads : thread[t].job = j

Handed(j) == \E c \in Callers : putting[c] = j

\* Every job enqueue has accepted is in exactly one place: with its caller, in
\* the queue, in the hands of one thread (for good, when that thread died), or
\* completed in the log.  Racing callers, stop, restart and refused appends
\* neither lose a job nor have it scored twice.
OnePlace ==
  /\ \A j \in Jobs :
       /\ j \in known <=> (Handed(j) \/ Queued(j) \/ Held(j) \/ j \in done)
       /\ Handed(j) => ~ Queued(j) /\ ~ Held(j) /\ j \notin done
       /\ Queued(j) => ~ Held(j) /\ j \notin done
       /\ Held(j) => j \notin done
  /\ \A c, d \in Callers : putting[c] = putting[d] => c = d \/ putting[c] = None
  /\ \A i, k \in DOMAIN queue : queue[i] = queue[k] => i = k \/ queue[i] = None
  /\ \A t, u \in Threads : thread[t].job = thread[u].job => t = u \/ thread[t].job = None
  /\ \A t \in Threads : thread[t].pc \in Holding <=> thread[t].job # None

\* The fate of a job as the callers may know it.
Status(j) ==
  IF j \in done THEN "recorded"
  ELSE IF InHand(j) THEN "scoring"
  ELSE IF Handed(j) \/ Queued(j) THEN "accepted"
  ELSE IF j \in known THEN "lost"
  ELSE "new"

Fates == [j \in Jobs |-> Status(j)]

Service == INSTANCE ScoringService WITH status <- Fates

\* The worker is the service its callers rely on: accepted once, scored once
\* and one at a time, ending in a completion or with the thread.
ServiceSpec == Service!Spec

\* stop() drains: when its join returns because the thread ended at the sentinel,
\* every job queued or in hand at the call is completed in the log, as long as
\* no earlier stop() had left its sentinel behind (it ends a later run early).
StopDrains ==
  (app = "down" /\ current # None /\ ~ leftover)
    => (thread[current].pc = "ended" => due \subseteq done)

\* While the application is up and its thread lives, every accepted job is
\* completed, whatever the scorer answers and whoever else writes to the log.
JobsFinish ==
  \A j \in Jobs :
    (j \in known /\ app = "up")
      ~> (j \in done \/ app # "up" \/ ~ CurrentAlive)
=============================================================================
