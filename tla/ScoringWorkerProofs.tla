-------------------------- MODULE ScoringWorkerProofs -------------------------
(***************************************************************************)
(* Proofs about ScoringWorker for any jobs, callers, threads and starts.   *)
(* The inductive invariant is what the run checks, with the types and the  *)
(* fact the restarts depend on: a thread that takes jobs is the one that   *)
(* start() will look at and stop() will join.                              *)
(***************************************************************************)
EXTENDS ScoringWorker, TLAPS

IInv == TypeOK /\ OneThread /\ OnePlace

USE NoneAssumption, ResultsAssumption, StartsAssumption

\* The states of a thread.
State == [pc : Live \cup {"new", "ended", "dead"}, job : Jobs \cup {None},
          left : Nat, tries : 0 .. MaxTries - 1, fresh : BOOLEAN]

\* At builds a state.
LEMMA AtIsState ==
  ASSUME NEW pc \in {"new", "get", "score", "read", "ended"}, NEW job \in Jobs \cup {None},
         NEW left \in Nat, NEW tries \in 0 .. 3
  PROVE  At(pc, job, left, tries) \in State
BY DEF At, State, Live, MaxTries

\* A thread's state may change in its parts.
LEMMA PartsOfState ==
  ASSUME NEW s \in State
  PROVE  /\ [s EXCEPT !.pc = "append", !.fresh = TRUE] \in State
         /\ [s EXCEPT !.fresh = FALSE] \in State
         /\ [s EXCEPT !.pc = "dead"] \in State
BY DEF State, Live

\* A step of thread t that gives it a state.
LEMMA BecomesTyped ==
  ASSUME TypeOK, NEW t \in Threads, NEW k \in State, Becomes(t, k),
         UNCHANGED <<known, putting, current, app, starts, leftover, due>>,
         queue' \in Seq(Jobs \cup {None}), done' \subseteq Jobs
  PROVE  TypeOK'
BY DEF TypeOK, Becomes, State

\* What is in a queue after a put.
LEMMA InAppended ==
  ASSUME NEW S, NEW q \in Seq(S), NEW e \in S
  PROVE  /\ Append(q, e) \in Seq(S)
         /\ \A x : (\E i \in DOMAIN Append(q, e) : Append(q, e)[i] = x)
                     <=> (\E i \in DOMAIN q : q[i] = x) \/ x = e
<1> DEFINE r == Append(q, e)
<1>1. /\ r \in Seq(S) /\ Len(q) \in Nat
      /\ DOMAIN q = 1 .. Len(q) /\ DOMAIN r = 1 .. Len(q) + 1
      /\ \A i \in 1 .. Len(q) : r[i] = q[i]
      /\ r[Len(q) + 1] = e
  OBVIOUS
<1> HIDE DEF r
<1>2. ASSUME NEW x
      PROVE  (\E i \in DOMAIN r : r[i] = x) <=> (\E i \in DOMAIN q : q[i] = x) \/ x = e
  BY <1>1
<1> QED
  BY <1>1, <1>2 DEF r

\* What is in a queue after a get.
LEMMA InTail ==
  ASSUME NEW S, NEW q \in Seq(S), q # <<>>
  PROVE  /\ Tail(q) \in Seq(S) /\ Head(q) \in S
         /\ Head(q) = q[1] /\ 1 \in DOMAIN q
         /\ \A i \in DOMAIN Tail(q) : i + 1 \in DOMAIN q /\ Tail(q)[i] = q[i + 1]
         /\ \A x : (\E i \in DOMAIN q : q[i] = x)
                     <=> (\E i \in DOMAIN Tail(q) : Tail(q)[i] = x) \/ x = Head(q)
<1> DEFINE r == Tail(q)
<1>1. /\ r \in Seq(S) /\ Len(q) \in Nat \ {0} /\ Head(q) = q[1] /\ Head(q) \in S
      /\ DOMAIN q = 1 .. Len(q) /\ DOMAIN r = 1 .. Len(q) - 1
      /\ \A i \in 1 .. Len(q) - 1 : r[i] = q[i + 1]
  OBVIOUS
<1> HIDE DEF r
<1>2. ASSUME NEW x
      PROVE  (\E i \in DOMAIN q : q[i] = x) <=> (\E i \in DOMAIN r : r[i] = x) \/ x = q[1]
  <2>1. ASSUME NEW i \in DOMAIN q, q[i] = x, x # q[1]
        PROVE  \E k \in DOMAIN r : r[k] = x
    <3>1. i - 1 \in DOMAIN r /\ r[i - 1] = q[i]
      BY <1>1, <2>1
    <3> QED
      BY <2>1, <3>1
  <2>2. ASSUME NEW i \in DOMAIN r, r[i] = x
        PROVE  \E k \in DOMAIN q : q[k] = x
    <3>1. i + 1 \in DOMAIN q /\ r[i] = q[i + 1]
      BY <1>1, <2>2
    <3> QED
      BY <2>2, <3>1
  <2>3. 1 \in DOMAIN q
    BY <1>1
  <2> QED
    BY <2>1, <2>2, <2>3
<1> QED
  BY <1>1, <1>2 DEF r

\* The worker before the first start
LEMMA InitIInv == Init => IInv
<1> SUFFICES ASSUME Init PROVE IInv
  OBVIOUS
<1>1. TypeOK
  <2>1. <<>> \in Seq(Jobs \cup {None})
    OBVIOUS
  <2>2. At("new", None, 0, 0) \in State
    BY AtIsState
  <2> QED
    BY <2>1, <2>2 DEF Init, TypeOK, State
<1>2. OneThread
  BY DEF Init, OneThread, Alive, At, Live
<1>3. OnePlace
  BY DEF Init, OnePlace, Handed, Queued, Held, Holding, At
<1> QED
  BY <1>1, <1>2, <1>3 DEF IInv

\* No step leaves the types of the variables.
LEMMA StepTypeOK == IInv /\ [Next]_vars => TypeOK'
<1> SUFFICES ASSUME IInv, [Next]_vars PROVE TypeOK'
  OBVIOUS
<1>0. TypeOK /\ OnePlace
  BY DEF IInv
<1>1. ASSUME NEW c \in Callers, NEW j \in Jobs, Claim(c, j) PROVE TypeOK'
  BY <1>0, <1>1 DEF Claim, TypeOK
<1>2. ASSUME NEW c \in Callers, Put(c) PROVE TypeOK'
  <2>1. queue' \in Seq(Jobs \cup {None})
    BY <1>0, <1>2, InAppended DEF Put, TypeOK
  <2> QED
    BY <1>0, <1>2, <2>1 DEF Put, TypeOK
<1>3. CASE Start
  <2>1. At("get", None, 0, 0) \in State
    BY AtIsState
  <2>2. thread' \in [Threads -> State]
    BY <1>0, <1>3, <2>1 DEF Start, TypeOK, State
  <2> QED
    BY <1>0, <1>3, <2>2 DEF Start, TypeOK, State
<1>4. CASE Stop
  <2>1. queue' \in Seq(Jobs \cup {None})
    BY <1>0, <1>4, InAppended DEF Stop, TypeOK
  <2> QED
    BY <1>0, <1>4, <2>1 DEF Stop, TypeOK
<1>5. CASE Join
  BY <1>0, <1>5 DEF Join, TypeOK
<1>6. ASSUME NEW t \in Threads, Get(t) PROVE TypeOK'
  <2>1. queue' \in Seq(Jobs \cup {None}) /\ Head(queue) \in Jobs \cup {None}
    BY <1>0, <1>6, InTail DEF Get, TypeOK
  <2>2. /\ At("ended", None, 0, 0) \in State
        /\ At("score", Head(queue), 0, 0) \in State
    BY <2>1, AtIsState
  <2>3. done' \subseteq Jobs
    BY <1>0, <1>6 DEF Get, TypeOK
  <2> QED
    BY <1>0, <1>6, <2>1, <2>2, <2>3, BecomesTyped DEF Get
<1>7. ASSUME NEW t \in Threads, NEW k \in State, Becomes(t, k),
             UNCHANGED <<queue, known, putting, current, app, starts, leftover, due>>,
             done' \subseteq Jobs
      PROVE  TypeOK'
  BY <1>0, <1>7, BecomesTyped DEF TypeOK
<1>8. ASSUME NEW t \in Threads PROVE thread[t] \in State
  BY <1>0, <1>8 DEF TypeOK, State
<1>9. ASSUME NEW t \in Threads, Score(t) PROVE TypeOK'
  <2>1. PICK n \in 0 .. MaxResults : Becomes(t, At("read", thread[t].job, n + 1, 0))
    BY <1>9 DEF Score
  <2>2. At("read", thread[t].job, n + 1, 0) \in State
    <3>1. thread[t].job \in Jobs \cup {None} /\ n + 1 \in Nat
      BY <1>8 DEF State
    <3> QED
      BY <3>1, AtIsState
  <2> QED
    BY <1>0, <1>7, <1>9, <2>1, <2>2 DEF Score, TypeOK
<1>10. ASSUME NEW t \in Threads, ReadSeq(t) \/ Overtake(t) \/ LogFails(t) PROVE TypeOK'
  <2>1. /\ [thread[t] EXCEPT !.pc = "append", !.fresh = TRUE] \in State
        /\ [thread[t] EXCEPT !.fresh = FALSE] \in State
        /\ [thread[t] EXCEPT !.pc = "dead"] \in State
    BY <1>8, PartsOfState
  <2> QED
    BY <1>0, <1>7, <1>10, <2>1 DEF ReadSeq, Overtake, LogFails, TypeOK
<1>11. ASSUME NEW t \in Threads, AppendEvent(t) PROVE TypeOK'
  <2>1. thread[t] \in State /\ thread[t].job \in Jobs
    BY <1>0, <1>8, <1>11 DEF AppendEvent, TypeOK, OnePlace, Holding
  <2>2. CASE Appended(t)
    <3>1. At("get", None, 0, 0) \in State
      BY AtIsState
    <3>2. thread[t].left > 1 => At("read", thread[t].job, thread[t].left - 1, 0) \in State
      <4>1. thread[t].left > 1 => thread[t].left - 1 \in Nat
        BY <2>1 DEF State
      <4> QED
        BY <2>1, <4>1, AtIsState
    <3> QED
      BY <1>0, <1>7, <1>11, <2>1, <2>2, <3>1, <3>2 DEF AppendEvent, Appended, TypeOK
  <2>3. CASE Refused(t)
    <3>1. [thread[t] EXCEPT !.pc = "dead"] \in State
      BY <2>1, PartsOfState
    <3>2. thread[t].tries + 1 < MaxTries
            => At("read", thread[t].job, thread[t].left, thread[t].tries + 1) \in State
      <4>1. /\ thread[t].left \in Nat
            /\ thread[t].tries + 1 < MaxTries => thread[t].tries + 1 \in 0 .. 3
        BY <2>1 DEF State, MaxTries
      <4> QED
        BY <2>1, <4>1, AtIsState
    <3> QED
      BY <1>0, <1>7, <1>11, <2>1, <2>3, <3>1, <3>2 DEF AppendEvent, Refused, TypeOK
  <2> QED
    BY <1>11, <2>2, <2>3 DEF AppendEvent
<1>12. CASE UNCHANGED vars
  BY <1>0, <1>12 DEF vars, TypeOK
<1> QED
  BY <1>1, <1>2, <1>3, <1>4, <1>5, <1>6, <1>9, <1>10, <1>11, <1>12
     DEF Next, Run

\* A step that moves no job keeps every job in its place.
LEMMA NothingMoves ==
  ASSUME TypeOK, OnePlace, TypeOK',
         UNCHANGED <<queue, known, putting, done>>,
         \A t \in Threads : /\ thread'[t].job = thread[t].job
                            /\ thread'[t].pc \in Holding <=> thread[t].pc \in Holding
  PROVE  OnePlace'
BY DEF OnePlace, Handed, Queued, Held

\* A thread that is alive is the current one, whatever is started and stopped.
LEMMA StepOneThread == IInv /\ [Next]_vars => OneThread'
<1> SUFFICES ASSUME IInv, [Next]_vars PROVE OneThread'
  OBVIOUS
<1>0. OneThread /\ TypeOK
  BY DEF IInv
<1>1. CASE Start
  <2>1. CASE CurrentAlive
    BY <1>0, <1>1, <2>1 DEF Start, OneThread, Alive
  <2>2. CASE ~ CurrentAlive
    <3>1. \A t \in Threads : ~ Alive(t)
      BY <1>0, <2>2 DEF CurrentAlive, OneThread
    <3>2. PICK t \in Threads : /\ thread' = [thread EXCEPT ![t] = At("get", None, 0, 0)]
                               /\ current' = t
      BY <1>1, <2>2 DEF Start
    <3>3. \A u \in Threads : u # t => thread'[u] = thread[u]
      BY <1>0, <3>2 DEF TypeOK
    <3> QED
      BY <3>1, <3>2, <3>3 DEF OneThread, Alive
  <2> QED
    BY <2>1, <2>2
<1>2. ASSUME UNCHANGED current, \A t \in Threads : Alive(t)' => Alive(t)
      PROVE  OneThread'
  BY <1>0, <1>2 DEF OneThread
<1>3. ASSUME NEW t \in Threads, NEW k, Becomes(t, k), Alive(t), UNCHANGED current
      PROVE  OneThread'
  <2>1. \A u \in Threads : u # t => thread'[u] = thread[u]
    BY <1>0, <1>3 DEF Becomes, TypeOK
  <2> QED
    BY <1>2, <1>3, <2>1 DEF Alive
<1>4. ASSUME NEW t \in Threads, Run(t) \/ Overtake(t) \/ LogFails(t) PROVE OneThread'
  <2>1. Alive(t) /\ UNCHANGED current
    BY <1>4 DEF Run, Get, Score, ReadSeq, AppendEvent, Overtake, LogFails, Alive, Live
  <2>2. \E k : Becomes(t, k)
    BY <1>4 DEF Run, Get, Score, ReadSeq, AppendEvent, Appended, Refused, Overtake, LogFails
  <2> QED
    BY <1>3, <2>1, <2>2
<1>5. ASSUME UNCHANGED <<thread, current>> PROVE OneThread'
  BY <1>2, <1>5 DEF Alive
<1> QED
  BY <1>1, <1>4, <1>5 DEF Next, vars, Put, Claim, Stop, Join

\* No step loses a job or puts it in two places.
LEMMA StepOnePlace == IInv /\ [Next]_vars => OnePlace'
<1> SUFFICES ASSUME IInv, [Next]_vars PROVE OnePlace'
  OBVIOUS
<1>0. TypeOK /\ OneThread /\ OnePlace /\ TypeOK'
  BY StepTypeOK DEF IInv
<1>1. ASSUME NEW c \in Callers, NEW j \in Jobs, Claim(c, j) PROVE OnePlace'
  <2>1. /\ \A d \in Callers : putting'[d] = IF d = c THEN j ELSE putting[d]
        /\ UNCHANGED <<queue, thread, done>> /\ known' = known \cup {j}
        /\ putting[c] = None /\ j \notin known
    BY <1>0, <1>1 DEF Claim, TypeOK
  <2>2. \A k \in Jobs : Handed(k)' <=> Handed(k) \/ k = j
    BY <2>1 DEF Handed
  <2>3. \A k \in Jobs : (Queued(k)' <=> Queued(k)) /\ (Held(k)' <=> Held(k))
    BY <2>1 DEF Queued, Held
  <2>4. ~ Handed(j) /\ ~ Queued(j) /\ ~ Held(j) /\ j \notin done
    BY <1>0, <2>1 DEF OnePlace
  <2>5. \A d, e \in Callers : putting'[d] = putting'[e] => d = e \/ putting'[d] = None
    BY <1>0, <2>1, <2>4 DEF OnePlace, Handed
  <2> QED
    BY <1>0, <2>1, <2>2, <2>3, <2>4, <2>5 DEF OnePlace
<1>2. ASSUME NEW c \in Callers, Put(c) PROVE OnePlace'
  <2> DEFINE j == putting[c]
  <2>1. /\ j \in Jobs
        /\ \A d \in Callers : putting'[d] = IF d = c THEN None ELSE putting[d]
        /\ UNCHANGED <<known, thread, done>>
        /\ queue' = Append(queue, j) /\ queue \in Seq(Jobs \cup {None})
    BY <1>0, <1>2 DEF Put, TypeOK
  <2>2. \A k \in Jobs : Handed(k)' <=> Handed(k) /\ k # j
    BY <1>0, <2>1 DEF Handed, OnePlace
  <2>3. \A k \in Jobs : Queued(k)' <=> Queued(k) \/ k = j
    BY <2>1, InAppended DEF Queued
  <2>4. \A k \in Jobs : Held(k)' <=> Held(k)
    BY <2>1 DEF Held
  <2>5. Handed(j) /\ ~ Queued(j) /\ ~ Held(j) /\ j \notin done
    BY <1>0, <2>1 DEF OnePlace, Handed
  <2>6. \A i, k \in DOMAIN queue' : queue'[i] = queue'[k] => i = k \/ queue'[i] = None
    <3>1. /\ Len(queue) \in Nat /\ DOMAIN queue = 1 .. Len(queue)
          /\ DOMAIN queue' = 1 .. Len(queue) + 1
          /\ \A i \in 1 .. Len(queue) : queue'[i] = queue[i]
          /\ queue'[Len(queue) + 1] = j
      BY <2>1
    <3>2. \A i \in DOMAIN queue : queue[i] # j
      BY <2>5 DEF Queued
    <3>3. \A i, k \in DOMAIN queue : queue[i] = queue[k] => i = k \/ queue[i] = None
      BY <1>0 DEF OnePlace
    <3> HIDE DEF j
    <3> QED
      BY <3>1, <3>2, <3>3
  <2>7. \A d, e \in Callers : putting'[d] = putting'[e] => d = e \/ putting'[d] = None
    BY <1>0, <2>1 DEF OnePlace
  <2>8. /\ \A t, u \in Threads : thread'[t].job = thread'[u].job => t = u \/ thread'[t].job = None
        /\ \A t \in Threads : thread'[t].pc \in Holding <=> thread'[t].job # None
    BY <1>0, <2>1 DEF OnePlace
  <2>9. \A k \in Jobs :
         /\ k \in known <=> (Handed(k) \/ Queued(k) \/ Held(k) \/ k \in done)
         /\ Handed(k) => ~ Queued(k) /\ ~ Held(k) /\ k \notin done
         /\ Queued(k) => ~ Held(k) /\ k \notin done
         /\ Held(k) => k \notin done
    BY <1>0 DEF OnePlace
  <2> HIDE DEF j
  <2> QED
    BY <2>1, <2>2, <2>3, <2>4, <2>5, <2>6, <2>7, <2>8, <2>9 DEF OnePlace
<1>3. CASE Start
  <2>1. At("get", None, 0, 0).job = None /\ At("get", None, 0, 0).pc \notin Holding
    BY DEF At, Holding
  <2>2. \A t \in Threads : /\ thread'[t].job = thread[t].job
                           /\ thread'[t].pc \in Holding <=> thread[t].pc \in Holding
    <3>1. CASE UNCHANGED thread
      BY <3>1
    <3>2. CASE \E u \in Threads : /\ thread[u].pc = "new"
                                 /\ thread' = [thread EXCEPT ![u] = At("get", None, 0, 0)]
      <4>1. PICK u \in Threads : /\ thread[u].pc = "new"
                                 /\ thread' = [thread EXCEPT ![u] = At("get", None, 0, 0)]
        BY <3>2
      <4>2. thread[u].job = None /\ thread[u].pc \notin Holding
        BY <1>0, <4>1 DEF OnePlace, Holding
      <4>3. \A t \in Threads : thread'[t] = IF t = u THEN At("get", None, 0, 0) ELSE thread[t]
        BY <1>0, <4>1 DEF TypeOK
      <4> QED
        BY <2>1, <4>2, <4>3
    <3> QED
      BY <1>3, <3>1, <3>2 DEF Start
  <2> QED
    BY <1>0, <1>3, <2>2, NothingMoves DEF Start
<1>4. CASE Stop
  <2>1. /\ queue' = Append(queue, None) /\ queue \in Seq(Jobs \cup {None})
        /\ UNCHANGED <<known, putting, thread, done>>
    BY <1>0, <1>4 DEF Stop, TypeOK
  <2>2. \A k \in Jobs : Queued(k)' <=> Queued(k)
    BY <2>1, InAppended DEF Queued
  <2>3. \A i, k \in DOMAIN queue' : queue'[i] = queue'[k] => i = k \/ queue'[i] = None
    <3>1. /\ Len(queue) \in Nat /\ DOMAIN queue = 1 .. Len(queue)
          /\ DOMAIN queue' = 1 .. Len(queue) + 1
          /\ \A i \in 1 .. Len(queue) : queue'[i] = queue[i]
          /\ queue'[Len(queue) + 1] = None
      BY <2>1
    <3>2. \A i, k \in DOMAIN queue : queue[i] = queue[k] => i = k \/ queue[i] = None
      BY <1>0 DEF OnePlace
    <3> QED
      BY <3>1, <3>2
  <2> QED
    BY <1>0, <2>1, <2>2, <2>3 DEF OnePlace, Handed, Held
<1>5. ASSUME NEW t \in Threads, NEW k, Becomes(t, k),
             k.job = thread[t].job, k.pc \in Holding <=> thread[t].pc \in Holding,
             UNCHANGED <<queue, known, putting, done>>
      PROVE  OnePlace'
  <2>1. \A u \in Threads : thread'[u] = IF u = t THEN k ELSE thread[u]
    BY <1>0, <1>5 DEF Becomes, TypeOK
  <2> QED
    BY <1>0, <1>5, <2>1, NothingMoves
<1>6. ASSUME NEW t \in Threads, Score(t) PROVE OnePlace'
  <2>1. PICK n \in 0 .. MaxResults : Becomes(t, At("read", thread[t].job, n + 1, 0))
    BY <1>6 DEF Score
  <2>2. /\ At("read", thread[t].job, n + 1, 0).job = thread[t].job
        /\ At("read", thread[t].job, n + 1, 0).pc \in Holding
    BY DEF At, Holding
  <2>3. thread[t].pc \in Holding
    BY <1>6 DEF Score, Holding
  <2> QED
    BY <1>5, <1>6, <2>1, <2>2, <2>3 DEF Score
<1>7. ASSUME NEW t \in Threads, ReadSeq(t) \/ Overtake(t) \/ LogFails(t) PROVE OnePlace'
  <2>1. thread[t] \in State
    BY <1>0 DEF TypeOK, State
  <2>2. PICK k \in State : Becomes(t, k) /\ k.job = thread[t].job /\ k.pc \in Holding
    <3>1. /\ [thread[t] EXCEPT !.pc = "append", !.fresh = TRUE] \in State
          /\ [thread[t] EXCEPT !.fresh = FALSE] \in State
          /\ [thread[t] EXCEPT !.pc = "dead"] \in State
      BY <2>1, PartsOfState
    <3>2. CASE ReadSeq(t)
      BY <2>1, <3>1, <3>2 DEF ReadSeq, State, Holding
    <3>3. CASE Overtake(t)
      BY <2>1, <3>1, <3>3 DEF Overtake, State, Holding
    <3>4. CASE LogFails(t)
      BY <2>1, <3>1, <3>4 DEF LogFails, State, Holding
    <3> QED
      BY <1>7, <3>2, <3>3, <3>4
  <2>3. thread[t].pc \in Holding
    BY <1>7 DEF ReadSeq, Overtake, LogFails, Holding
  <2> QED
    BY <1>5, <1>7, <2>2, <2>3 DEF ReadSeq, Overtake, LogFails
<1>8. ASSUME NEW t \in Threads, AppendEvent(t) PROVE OnePlace'
  <2> DEFINE j == thread[t].job
  <2>1. j \in Jobs /\ thread[t].pc \in Holding /\ thread[t] \in State
    BY <1>0, <1>8 DEF AppendEvent, TypeOK, OnePlace, Holding, State
  <2>2. CASE Appended(t) /\ thread[t].left > 1
    <3>1. /\ At("read", j, thread[t].left - 1, 0).job = j
          /\ At("read", j, thread[t].left - 1, 0).pc \in Holding
      BY DEF At, Holding
    <3> QED
      BY <1>5, <1>8, <2>1, <2>2, <3>1 DEF AppendEvent, Appended
  <2>3. CASE Refused(t)
    <3>1. /\ At("read", j, thread[t].left, thread[t].tries + 1).job = j
          /\ At("read", j, thread[t].left, thread[t].tries + 1).pc \in Holding
          /\ [thread[t] EXCEPT !.pc = "dead"].job = j
          /\ [thread[t] EXCEPT !.pc = "dead"].pc \in Holding
      BY <2>1 DEF At, Holding, State
    <3> QED
      BY <1>5, <1>8, <2>1, <2>3, <3>1 DEF AppendEvent, Refused
  <2>4. CASE Appended(t) /\ ~ thread[t].left > 1
    <3>1. /\ \A u \in Threads : thread'[u] = IF u = t THEN At("get", None, 0, 0) ELSE thread[u]
          /\ done' = done \cup {j}
          /\ UNCHANGED <<queue, known, putting>>
      BY <1>0, <1>8, <2>4 DEF AppendEvent, Appended, Becomes, TypeOK
    <3>2. At("get", None, 0, 0).job = None /\ At("get", None, 0, 0).pc \notin Holding
      BY DEF At, Holding
    <3>3. \A k \in Jobs : Held(k)' <=> Held(k) /\ k # j
      BY <1>0, <2>1, <3>1, <3>2 DEF Held, OnePlace
    <3>4. \A k \in Jobs : (Handed(k)' <=> Handed(k)) /\ (Queued(k)' <=> Queued(k))
      BY <3>1 DEF Handed, Queued
    <3>5. Held(j)
      BY DEF Held
    <3>6. /\ \A u, v \in Threads : thread'[u].job = thread'[v].job => u = v \/ thread'[u].job = None
          /\ \A u \in Threads : thread'[u].pc \in Holding <=> thread'[u].job # None
      BY <1>0, <3>1, <3>2 DEF OnePlace
    <3> QED
      BY <1>0, <2>1, <3>1, <3>3, <3>4, <3>5, <3>6 DEF OnePlace
  <2> QED
    BY <1>8, <2>2, <2>3, <2>4 DEF AppendEvent
<1>9. ASSUME NEW t \in Threads, Get(t) PROVE OnePlace'
  <2> DEFINE j == Head(queue)
             k == IF j = None THEN At("ended", None, 0, 0) ELSE At("score", j, 0, 0)
  <2>1. /\ queue' = Tail(queue) /\ queue \in Seq(Jobs \cup {None}) /\ queue # <<>>
        /\ \A u \in Threads : thread'[u] = IF u = t THEN k ELSE thread[u]
        /\ UNCHANGED <<known, putting, done>>
    BY <1>0, <1>9 DEF Get, Becomes, TypeOK
  <2>2. /\ k.job = j
        /\ k.pc \in Holding <=> k.job # None
    BY DEF At, Holding
  <2>3. thread[t].job = None /\ thread[t].pc \notin Holding
    BY <1>0, <1>9 DEF Get, OnePlace, Holding
  <2>4. /\ j \in Jobs \cup {None} /\ j = queue[1] /\ 1 \in DOMAIN queue
        /\ \A i \in DOMAIN queue' : i + 1 \in DOMAIN queue /\ queue'[i] = queue[i + 1]
        /\ \A x : (\E i \in DOMAIN queue : queue[i] = x)
                    <=> (\E i \in DOMAIN queue' : queue'[i] = x) \/ x = j
    <3> DEFINE r == Tail(queue)
    <3>1. /\ j \in Jobs \cup {None} /\ j = queue[1] /\ 1 \in DOMAIN queue
          /\ \A i \in DOMAIN r : i + 1 \in DOMAIN queue /\ r[i] = queue[i + 1]
          /\ \A x : (\E i \in DOMAIN queue : queue[i] = x)
                      <=> (\E i \in DOMAIN r : r[i] = x) \/ x = j
      BY <2>1, InTail
    <3>2. queue' = r
      BY <2>1
    <3> HIDE DEF r, j
    <3> QED
      BY <3>1, <3>2
  <2>5. DOMAIN queue' \subseteq Nat \ {0} /\ DOMAIN queue \subseteq Nat
    <3>1. queue' \in Seq(Jobs \cup {None})
      BY <1>0 DEF TypeOK
    <3> QED
      BY <2>1, <3>1
  <2> HIDE DEF j, k
  <2>6. \A x, y \in DOMAIN queue' : queue'[x] = queue'[y] => x = y \/ queue'[x] = None
    <3> SUFFICES ASSUME NEW x \in DOMAIN queue', NEW y \in DOMAIN queue',
                        queue'[x] = queue'[y], queue'[x] # None
                 PROVE  x = y
      OBVIOUS
    <3>1. x + 1 = y + 1
      BY <1>0, <2>4 DEF OnePlace
    <3> QED
      BY <2>5, <3>1
  <2>7. \A x \in DOMAIN queue' : queue'[x] = j => j = None
    <3> SUFFICES ASSUME NEW x \in DOMAIN queue', queue'[x] = j, j # None
                 PROVE  FALSE
      OBVIOUS
    <3>1. x + 1 = 1
      BY <1>0, <2>4 DEF OnePlace
    <3> QED
      BY <2>5, <3>1
  <2>8. \A x \in Jobs : Queued(x)' <=> Queued(x) /\ x # j
    BY <2>4, <2>7, NoneAssumption DEF Queued
  <2>9. j \in Jobs => Queued(j)
    BY <2>4 DEF Queued
  <2>10. \A x \in Jobs : Held(x)' <=> Held(x) \/ x = j
    BY <1>0, <2>1, <2>2, <2>3, NoneAssumption DEF Held
  <2>11. \A u, v \in Threads : thread'[u].job = thread'[v].job => u = v \/ thread'[u].job = None
    <3>1. \A u \in Threads : thread[u].job = j => j = None
      BY <1>0, <2>4, <2>9 DEF OnePlace, Held
    <3> QED
      BY <1>0, <2>1, <2>2, <3>1 DEF OnePlace
  <2>12. \A u \in Threads : thread'[u].pc \in Holding <=> thread'[u].job # None
    BY <1>0, <2>1, <2>2 DEF OnePlace
  <2>13. \A x \in Jobs : Handed(x)' <=> Handed(x)
    BY <2>1 DEF Handed
  <2>14. \A x \in Jobs :
         /\ x \in known <=> (Handed(x) \/ Queued(x) \/ Held(x) \/ x \in done)
         /\ Handed(x) => ~ Queued(x) /\ ~ Held(x) /\ x \notin done
         /\ Queued(x) => ~ Held(x) /\ x \notin done
         /\ Held(x) => x \notin done
    BY <1>0 DEF OnePlace
  <2>15. \A c, d \in Callers : putting'[c] = putting'[d] => c = d \/ putting'[c] = None
    BY <1>0, <2>1 DEF OnePlace
  <2> QED
    BY <2>1, <2>6, <2>8, <2>9, <2>10, <2>11, <2>12, <2>13, <2>14, <2>15 DEF OnePlace
<1>10. ASSUME UNCHANGED <<queue, known, putting, thread, done>> PROVE OnePlace'
  BY <1>0, <1>10, NothingMoves
<1> QED
  BY <1>1, <1>2, <1>3, <1>4, <1>6, <1>7, <1>8, <1>9, <1>10 DEF Next, Run, Join, vars

\* The invariant of the worker
THEOREM Inductive == Spec => []IInv
<1>1. IInv /\ [Next]_vars => IInv'
  BY StepTypeOK, StepOneThread, StepOnePlace DEF IInv
<1> QED
  BY InitIInv, <1>1, PTL DEF Spec

\* For any jobs, callers, threads and starts, every accepted job is with its caller,
\* queued, in the hands of one thread or completed, and never in two of these.
THEOREM Accounted == Spec => []OnePlace
  BY Inductive, PTL DEF IInv

-----------------------------------------------------------------------------
(* stop() drains. *)

\* From stop() on: the sentinel is in the queue, once, and every job due is completed,
\* in the hands of the thread or ahead of it; or it has ended the thread, and every
\* job due is completed.
Draining ==
  \/ /\ thread[current].pc # "ended"
     /\ \E s \in DOMAIN queue :
          /\ \A i \in DOMAIN queue : queue[i] = None <=> i = s
          /\ \A j \in due : \/ j \in done \/ thread[current].job = j
                            \/ \E i \in 1 .. s - 1 : queue[i] = j
  \/ thread[current].pc = "ended" /\ due \subseteq done

\* No run so far was handed a sentinel from before its start.
DrainInv ==
  ~ leftover =>
    /\ app = "up" => current # None /\ thread[current].pc # "ended" /\ ~ Queued(None)
    /\ app # "up" /\ current # None => Draining

\* A step of the living thread that does not end it keeps what is due in view.
LEMMA ThreadDrains ==
  ASSUME IInv, DrainInv, NEW t \in Threads, NEW k, Becomes(t, k), Alive(t), k.pc # "ended",
         UNCHANGED <<queue, current, app, leftover, due>>, done \subseteq done',
         k.job = thread[t].job \/ thread[t].job \in done'
  PROVE  DrainInv'
<1>1. t = current /\ thread[t].pc # "ended"
  BY DEF IInv, OneThread, Alive, Live
<1>2. thread'[t] = k
  BY DEF IInv, TypeOK, Becomes
<1>3. ASSUME ~ leftover, app = "up" PROVE current # None /\ ~ Queued(None)
  BY <1>3 DEF DrainInv
<1>4. ASSUME ~ leftover, app # "up", current # None PROVE Draining'
  <2>1. PICK s \in DOMAIN queue :
          /\ \A i \in DOMAIN queue : queue[i] = None <=> i = s
          /\ \A j \in due : \/ j \in done \/ thread[current].job = j
                            \/ \E i \in 1 .. s - 1 : queue[i] = j
    BY <1>1, <1>4 DEF DrainInv, Draining
  <2>2. \A j \in due : \/ j \in done' \/ k.job = j
                       \/ \E i \in 1 .. s - 1 : queue[i] = j
    BY <1>1, <2>1
  <2> QED
    BY <1>1, <1>2, <2>1, <2>2 DEF Draining
<1> QED
  BY <1>1, <1>2, <1>3, <1>4 DEF DrainInv, Queued

\* The job a caller puts comes behind the sentinel.
LEMMA PutDrains ==
  ASSUME IInv, DrainInv, NEW c \in Callers, Put(c)
  PROVE  DrainInv'
<1>1. /\ queue \in Seq(Jobs \cup {None}) /\ putting[c] # None /\ putting[c] \in Jobs \cup {None}
      /\ queue' = Append(queue, putting[c])
      /\ UNCHANGED <<thread, current, app, leftover, due, done>>
  BY DEF IInv, TypeOK, Put
<1>2. /\ Len(queue) \in Nat /\ DOMAIN queue = 1 .. Len(queue) /\ DOMAIN queue' = 1 .. Len(queue) + 1
      /\ \A i \in 1 .. Len(queue) : queue'[i] = queue[i]
      /\ queue'[Len(queue) + 1] = putting[c]
  BY <1>1
<1>3. \A i \in DOMAIN queue' : queue'[i] = None <=> i \in DOMAIN queue /\ queue[i] = None
  BY <1>1, <1>2
<1>4. ASSUME ~ leftover, app = "up"
      PROVE  current # None /\ thread[current].pc # "ended" /\ ~ Queued(None)'
  BY <1>3, <1>4 DEF DrainInv, Queued
<1>5. ASSUME ~ leftover, app # "up", current # None PROVE Draining'
  <2>1. CASE thread[current].pc = "ended"
    BY <1>1, <1>5, <2>1 DEF DrainInv, Draining
  <2>2. CASE thread[current].pc # "ended"
    <3>1. PICK s \in DOMAIN queue :
            /\ \A i \in DOMAIN queue : queue[i] = None <=> i = s
            /\ \A j \in due : \/ j \in done \/ thread[current].job = j
                              \/ \E i \in 1 .. s - 1 : queue[i] = j
      BY <1>5, <2>2 DEF DrainInv, Draining
    <3>2. s \in DOMAIN queue' /\ \A i \in DOMAIN queue' : queue'[i] = None <=> i = s
      BY <1>2, <1>3, <3>1
    <3>3. \A i \in 1 .. s - 1 : queue'[i] = queue[i]
      BY <1>2
    <3>4. \A j \in due : \/ j \in done \/ thread[current].job = j
                         \/ \E i \in 1 .. s - 1 : queue'[i] = j
      BY <3>1, <3>3
    <3> QED
      BY <1>1, <2>2, <3>2, <3>4 DEF Draining
  <2> QED
    BY <2>1, <2>2
<1> QED
  BY <1>1, <1>4, <1>5 DEF DrainInv

\* stop() puts its sentinel behind everything that is due.
LEMMA StopDrainsOn ==
  ASSUME IInv, DrainInv, Stop
  PROVE  DrainInv'
<1>1. /\ queue \in Seq(Jobs \cup {None}) /\ queue' = Append(queue, None)
      /\ app = "up" /\ app' # "up"
      /\ due' = {j \in Jobs : Queued(j) \/ InHand(j)}
      /\ UNCHANGED <<thread, current, leftover, done>>
  BY DEF IInv, TypeOK, Stop
<1>2. /\ Len(queue) \in Nat /\ DOMAIN queue = 1 .. Len(queue) /\ DOMAIN queue' = 1 .. Len(queue) + 1
      /\ \A i \in 1 .. Len(queue) : queue'[i] = queue[i]
      /\ queue'[Len(queue) + 1] = None
  BY <1>1
<1>3. ASSUME ~ leftover PROVE Draining'
  <2>1. thread[current].pc # "ended" /\ ~ Queued(None)
    BY <1>1, <1>3 DEF DrainInv
  <2>2. \A i \in DOMAIN queue' : queue'[i] = None <=> i = Len(queue) + 1
    BY <1>2, <2>1 DEF Queued
  <2>3. ASSUME NEW j \in due'
        PROVE  thread[current].job = j \/ \E i \in 1 .. (Len(queue) + 1) - 1 : queue'[i] = j
    <3>1. CASE Queued(j)
      BY <1>2, <3>1 DEF Queued
    <3>2. CASE InHand(j)
      BY <3>2 DEF InHand, IInv, OneThread
    <3> QED
      BY <1>1, <2>3, <3>1, <3>2
  <2>4. Len(queue) + 1 \in DOMAIN queue'
    BY <1>2
  <2> DEFINE s == Len(queue) + 1
  <2>5. /\ s \in DOMAIN queue' /\ thread'[current'].pc # "ended"
        /\ \A i \in DOMAIN queue' : queue'[i] = None <=> i = s
        /\ \A j \in due' : \/ j \in done' \/ thread'[current'].job = j
                           \/ \E i \in 1 .. s - 1 : queue'[i] = j
    BY <1>1, <2>1, <2>2, <2>3, <2>4
  <2> HIDE DEF s
  <2> QED
    BY <2>5 DEF Draining
<1> QED
  BY <1>1, <1>3 DEF DrainInv

\* A thread that takes what is first in the queue takes it in hand, or ends with
\* nothing due ahead of the sentinel.
LEMMA GetDrains ==
  ASSUME IInv, IInv', DrainInv, NEW t \in Threads, Get(t)
  PROVE  DrainInv'
<1> DEFINE first == Head(queue)
<1>1. /\ queue \in Seq(Jobs \cup {None}) /\ queue # <<>> /\ queue' = Tail(queue)
      /\ UNCHANGED <<current, app, leftover, due, done>>
      /\ thread[t].pc = "get" /\ Alive(t) /\ t = current /\ thread[t].job = None
  BY DEF IInv, TypeOK, Get, OneThread, Alive, Live, OnePlace, Holding
<1>2. /\ Len(queue) \in Nat /\ DOMAIN queue = 1 .. Len(queue) /\ DOMAIN queue' = 1 .. Len(queue) - 1
      /\ \A i \in 1 .. Len(queue) - 1 : queue'[i] = queue[i + 1]
      /\ first = queue[1] /\ 1 \in DOMAIN queue
  BY <1>1
<1> HIDE DEF first
<1>3. /\ first = None => thread'[t].pc = "ended" /\ thread'[t].job = None
      /\ first # None => thread'[t].pc = "score" /\ thread'[t].job = first
  BY DEF IInv, TypeOK, Get, Becomes, At, first
<1>4. ASSUME ~ leftover, app = "up"
      PROVE  current # None /\ thread'[current].pc # "ended" /\ ~ Queued(None)'
  <2>1. current # None /\ \A i \in DOMAIN queue : queue[i] # None
    BY <1>4 DEF DrainInv, Queued
  <2>2. \A i \in DOMAIN queue' : i + 1 \in DOMAIN queue
    BY <1>2
  <2> QED
    BY <1>1, <1>2, <1>3, <2>1, <2>2 DEF Queued
<1>5. ASSUME ~ leftover, app # "up", current # None PROVE Draining'
  <2>1. PICK s \in DOMAIN queue :
          /\ \A i \in DOMAIN queue : queue[i] = None <=> i = s
          /\ \A j \in due : \/ j \in done \/ thread[current].job = j
                            \/ \E i \in 1 .. s - 1 : queue[i] = j
    BY <1>1, <1>5 DEF DrainInv, Draining
  <2>2. \A j \in due : j # None
    BY DEF IInv, TypeOK
  <2>3. CASE first = None
    <3>1. s = 1
      BY <1>2, <2>1, <2>3
    <3>2. 1 .. s - 1 = {}
      BY <3>1
    <3>3. due \subseteq done
      BY <1>1, <2>1, <2>2, <3>2
    <3> QED
      BY <1>1, <1>3, <2>3, <3>3 DEF Draining
  <2>4. CASE first # None
    <3> DEFINE r == s - 1
    <3>1. s # 1 /\ s \in 1 .. Len(queue)
      BY <1>2, <2>1, <2>4
    <3>2. r \in DOMAIN queue' /\ r + 1 = s
      BY <1>2, <3>1
    <3>3. \A i \in DOMAIN queue' : queue'[i] = None <=> i = r
      <4>1. \A i \in DOMAIN queue' : i + 1 \in DOMAIN queue /\ queue'[i] = queue[i + 1]
        BY <1>2
      <4>2. \A i \in DOMAIN queue' : i + 1 = s <=> i = r
        BY <1>2, <3>1
      <4> QED
        BY <2>1, <4>1, <4>2
    <3>4. ASSUME NEW j \in due
          PROVE  j \in done \/ first = j \/ \E i \in 1 .. r - 1 : queue'[i] = j
      <4>1. CASE \E i \in 1 .. s - 1 : queue[i] = j
        <5>1. PICK i \in 1 .. s - 1 : queue[i] = j
          BY <4>1
        <5>2. CASE i = 1
          BY <1>2, <5>1, <5>2
        <5>3. CASE i # 1
          <6>1. i - 1 \in 1 .. r - 1 /\ i - 1 \in 1 .. Len(queue) - 1 /\ (i - 1) + 1 = i
            BY <1>2, <3>1, <5>3
          <6>2. queue'[i - 1] = j
            BY <1>2, <5>1, <6>1
          <6> QED
            BY <6>1, <6>2
        <5> QED
          BY <5>2, <5>3
      <4> QED
        BY <1>1, <2>1, <2>2, <4>1
    <3> HIDE DEF r
    <3> QED
      BY <1>1, <1>3, <2>4, <3>2, <3>3, <3>4 DEF Draining
  <2> QED
    BY <2>3, <2>4
<1> QED
  BY <1>1, <1>4, <1>5 DEF DrainInv

\* start() begins a run with a living thread.
LEMMA StartDrains ==
  ASSUME IInv, DrainInv, Start
  PROVE  DrainInv'
<1>1. /\ app' = "up" /\ UNCHANGED <<queue, due, done>>
      /\ leftover' = (leftover \/ Queued(None))
  BY DEF Start
<1>2. current' # None /\ thread'[current'].pc # "ended"
  <2>1. CASE CurrentAlive /\ UNCHANGED <<thread, current>>
    BY <2>1 DEF CurrentAlive, Alive, Live
  <2>2. CASE ~ CurrentAlive /\ \E t \in Threads :
               thread' = [thread EXCEPT ![t] = At("get", None, 0, 0)] /\ current' = t
    <3>1. PICK t \in Threads :
            thread' = [thread EXCEPT ![t] = At("get", None, 0, 0)] /\ current' = t
      BY <2>2
    <3>2. thread'[t] = At("get", None, 0, 0)
      BY <3>1 DEF IInv, TypeOK
    <3> QED
      BY <3>1, <3>2 DEF At
  <2> QED
    BY <2>1, <2>2 DEF Start
<1> QED
  BY <1>1, <1>2 DEF DrainInv, Queued

\* DrainInv is inductive.
LEMMA DrainStep ==
  ASSUME IInv, IInv', DrainInv, [Next]_vars
  PROVE  DrainInv'
<1>1. \A t \in Threads : thread[t] \in State
  BY DEF IInv, TypeOK, State
<1>2. ASSUME NEW t \in Threads, Score(t) \/ ReadSeq(t) \/ Overtake(t) \/ LogFails(t) \/ AppendEvent(t)
      PROVE  DrainInv'
  <2>1. /\ Alive(t) /\ UNCHANGED <<queue, current, app, leftover, due>> /\ thread[t] \in State
    BY <1>1, <1>2 DEF Score, ReadSeq, Overtake, LogFails, AppendEvent, Alive, Live
  <2>2. \A pc, job, left, tries : At(pc, job, left, tries).pc = pc /\ At(pc, job, left, tries).job = job
    BY DEF At
  <2>3. /\ [thread[t] EXCEPT !.pc = "dead"].pc = "dead"
        /\ [thread[t] EXCEPT !.pc = "dead"].job = thread[t].job
        /\ [thread[t] EXCEPT !.pc = "append", !.fresh = TRUE].pc = "append"
        /\ [thread[t] EXCEPT !.pc = "append", !.fresh = TRUE].job = thread[t].job
        /\ [thread[t] EXCEPT !.fresh = FALSE].pc = thread[t].pc
        /\ [thread[t] EXCEPT !.fresh = FALSE].job = thread[t].job
    BY <2>1 DEF State
  <2>4. thread[t].pc # "ended"
    BY <2>1 DEF Alive, Live
  <2>5. ASSUME NEW k, Becomes(t, k), k.pc # "ended", done \subseteq done',
               k.job = thread[t].job \/ thread[t].job \in done'
        PROVE  DrainInv'
    BY <2>1, <2>5, ThreadDrains
  <2>6. CASE Score(t)
    <3>1. PICK n \in 0 .. MaxResults : Becomes(t, At("read", thread[t].job, n + 1, 0))
      BY <2>6 DEF Score
    <3> QED
      BY <2>2, <2>5, <2>6, <3>1 DEF Score
  <2>7. CASE ReadSeq(t)
    BY <2>3, <2>5, <2>7 DEF ReadSeq
  <2>8. CASE Overtake(t)
    BY <2>3, <2>4, <2>5, <2>8 DEF Overtake
  <2>9. CASE LogFails(t)
    BY <2>3, <2>5, <2>9 DEF LogFails
  <2>10. CASE AppendEvent(t)
    <3>1. CASE Appended(t) /\ thread[t].left > 1
      BY <2>2, <2>5, <3>1 DEF Appended
    <3>2. CASE Appended(t) /\ ~ (thread[t].left > 1)
      BY <2>2, <2>5, <3>2 DEF Appended
    <3>3. CASE Refused(t) /\ thread[t].tries + 1 < MaxTries
      BY <2>2, <2>5, <3>3 DEF Refused
    <3>4. CASE Refused(t) /\ ~ (thread[t].tries + 1 < MaxTries)
      BY <2>3, <2>5, <3>4 DEF Refused
    <3> QED
      BY <2>10, <3>1, <3>2, <3>3, <3>4 DEF AppendEvent
  <2> QED
    BY <1>2, <2>6, <2>7, <2>8, <2>9, <2>10
<1>3. CASE (\E c \in Callers, j \in Jobs : Claim(c, j)) \/ Join \/ UNCHANGED vars
  <2>1. /\ UNCHANGED <<queue, thread, current, leftover, due, done>>
        /\ app' = app \/ (app # "up" /\ app' # "up")
    BY <1>3 DEF Claim, Join, vars
  <2> QED
    BY <2>1 DEF DrainInv, Draining, Queued
<1> QED
  BY <1>2, <1>3, PutDrains, StopDrainsOn, GetDrains, StartDrains DEF Next, Run

\* For any jobs, callers, threads and restarts: when stop() returns and its thread
\* has ended at the sentinel, everything queued or in hand at the call is completed
\* in the log, unless an earlier stop() had left a sentinel behind.
THEOREM Drained == Spec => []StopDrains
<1>1. Init => DrainInv
  BY DEF Init, DrainInv
<1>2. IInv /\ IInv' /\ DrainInv /\ [Next]_vars => DrainInv'
  BY DrainStep
<1>3. DrainInv => StopDrains
  BY DEF DrainInv, Draining, StopDrains
<1> QED
  BY <1>1, <1>2, <1>3, Inductive, PTL DEF Spec

-----------------------------------------------------------------------------
(* The refinement: what every step is for the service. *)

\* A job that changes its status alone moves in the service.
LEMMA Moves ==
  ASSUME NEW j \in Jobs, NEW b, \A k \in Jobs : Status(k)' = IF k = j THEN b ELSE Status(k)
  PROVE  Service!Move(j, Status(j), b)
BY DEF Service!Move, Fates

\* When no job changes its status the service stands still.
LEMMA Stays ==
  ASSUME \A k \in Jobs : Status(k)' = Status(k)
  PROVE  UNCHANGED Fates
BY DEF Fates

\* Nor does a job whose place is the same.
LEMMA SamePlace ==
  ASSUME NEW k \in Jobs, k \in done' <=> k \in done, k \in known' <=> k \in known,
         InHand(k)' <=> InHand(k), Handed(k)' \/ Queued(k)' <=> Handed(k) \/ Queued(k)
  PROVE  Status(k)' = Status(k)
BY DEF Status

\* A living thread with a job holds it.
LEMMA HandHolds == \A j \in Jobs : InHand(j) => Held(j)
  BY DEF InHand, Held

\* At most one job is in hand.
LEMMA OneInHand ==
  ASSUME OneThread, NEW j \in Jobs, NEW k \in Jobs, InHand(j), InHand(k)
  PROVE  j = k
BY DEF InHand, OneThread

\* The worker starts as the service does.
LEMMA InitRefines == Init => Service!Init
<1> SUFFICES ASSUME Init, NEW j \in Jobs PROVE Status(j) = "new"
  BY DEF Service!Init, Fates
<1> QED
  BY DEF Init, Status, InHand, Handed, Queued, Alive, Live, At

\* Every step of the worker is a step of the service, or none.
LEMMA StepRefines ==
  IInv /\ [Next]_vars => [Service!Next]_Fates
<1> SUFFICES ASSUME IInv, [Next]_vars
             PROVE  Service!Next \/ UNCHANGED Fates
  OBVIOUS
<1>0. TypeOK /\ OneThread /\ OnePlace /\ OnePlace'
  BY StepOnePlace DEF IInv
<1>1. ASSUME NEW c \in Callers, NEW j \in Jobs, Claim(c, j) PROVE Service!Accept(j)
  <2>1. /\ \A d \in Callers : putting'[d] = IF d = c THEN j ELSE putting[d]
        /\ UNCHANGED <<queue, thread, done>> /\ known' = known \cup {j}
        /\ putting[c] = None /\ j \notin known
    BY <1>0, <1>1 DEF Claim, TypeOK
  <2>2. \A k \in Jobs : /\ InHand(k)' <=> InHand(k)
                        /\ Queued(k)' <=> Queued(k)
                        /\ Handed(k)' <=> Handed(k) \/ k = j
    BY <2>1 DEF InHand, Alive, Queued, Handed
  <2>3. ~ Handed(j) /\ ~ Queued(j) /\ ~ InHand(j) /\ j \notin done
    BY <1>0, <2>1, HandHolds DEF OnePlace
  <2>4. \A k \in Jobs : Status(k)' = IF k = j THEN "accepted" ELSE Status(k)
    BY <2>1, <2>2, <2>3 DEF Status
  <2>5. Status(j) = "new"
    BY <2>1, <2>3 DEF Status
  <2> QED
    BY <2>4, <2>5, Moves DEF Service!Accept
<1>2. ASSUME NEW c \in Callers, Put(c) PROVE UNCHANGED Fates
  <2>1. /\ putting[c] \in Jobs
        /\ \A d \in Callers : putting'[d] = IF d = c THEN None ELSE putting[d]
        /\ UNCHANGED <<known, thread, done>>
        /\ queue' = Append(queue, putting[c]) /\ queue \in Seq(Jobs \cup {None})
    BY <1>0, <1>2 DEF Put, TypeOK
  <2>2. \A k \in Jobs : Queued(k)' <=> Queued(k) \/ k = putting[c]
    BY <2>1, InAppended DEF Queued
  <2>3. \A k \in Jobs : Handed(k)' <=> Handed(k) /\ k # putting[c]
    BY <1>0, <2>1 DEF Handed, OnePlace
  <2>4. Handed(putting[c])
    BY DEF Handed
  <2>5. \A k \in Jobs : InHand(k)' <=> InHand(k)
    BY <2>1 DEF InHand, Alive
  <2> QED
    BY <2>1, <2>2, <2>3, <2>4, <2>5, SamePlace, Stays
<1>3. ASSUME UNCHANGED <<known, putting, done>>, \A k \in Jobs : Queued(k)' <=> Queued(k),
             \A k \in Jobs : InHand(k)' <=> InHand(k)
      PROVE  UNCHANGED Fates
  BY <1>3, SamePlace, Stays DEF Handed
<1>4. CASE Start
  <2>1. \A t \in Threads : thread[t].pc = "new" => thread[t].job = None
    BY <1>0 DEF OnePlace, Holding
  <2>2. \A k \in Jobs : InHand(k)' <=> InHand(k)
    <3>1. CASE UNCHANGED thread
      BY <3>1 DEF InHand, Alive
    <3>2. CASE \E u \in Threads : /\ thread[u].pc = "new"
                                 /\ thread' = [thread EXCEPT ![u] = At("get", None, 0, 0)]
      <4>1. PICK u \in Threads : /\ thread[u].pc = "new"
                                 /\ thread' = [thread EXCEPT ![u] = At("get", None, 0, 0)]
        BY <3>2
      <4>2. \A t \in Threads : thread'[t] = IF t = u THEN At("get", None, 0, 0) ELSE thread[t]
        BY <1>0, <4>1 DEF TypeOK
      <4>3. At("get", None, 0, 0).job = None
        BY DEF At
      <4>4. ASSUME NEW k \in Jobs PROVE InHand(k)' <=> InHand(k)
        <5>1. k # None
          OBVIOUS
        <5> QED
          BY <2>1, <4>1, <4>2, <4>3, <5>1 DEF InHand, Alive
      <4> QED
        BY <4>4
    <3> QED
      BY <1>4, <3>1, <3>2 DEF Start
  <2> QED
    BY <1>3, <1>4, <2>2 DEF Start, Queued
<1>5. CASE Stop
  <2>1. \A k \in Jobs : Queued(k)' <=> Queued(k)
    <3>1. queue' = Append(queue, None) /\ queue \in Seq(Jobs \cup {None})
      BY <1>0, <1>5 DEF Stop, TypeOK
    <3> QED
      BY <3>1, InAppended DEF Queued
  <2> QED
    BY <1>3, <1>5, <2>1 DEF Stop, InHand, Alive
<1>6. CASE Join \/ UNCHANGED vars
  BY <1>3, <1>6 DEF Join, vars, Queued, InHand, Alive
<1>7. ASSUME NEW t \in Threads, Get(t)
      PROVE  Service!Next \/ UNCHANGED Fates
  <2> DEFINE j == Head(queue)
  <2>1. /\ queue \in Seq(Jobs \cup {None}) /\ queue # <<>>
        /\ queue' = Tail(queue)
        /\ UNCHANGED <<known, putting, done>>
        /\ Alive(t) /\ thread[t].job = None
    BY <1>0, <1>7 DEF Get, TypeOK, Alive, Live, OnePlace, Holding
  <2>2. \A k \in Jobs : ~ InHand(k)
    BY <1>0, <2>1 DEF InHand, OneThread
  <2>3. \A x : (\E i \in DOMAIN queue : queue[i] = x)
                <=> (\E i \in DOMAIN queue' : queue'[i] = x) \/ x = j
    <3> DEFINE r == Tail(queue)
    <3>1. \A x : (\E i \in DOMAIN queue : queue[i] = x)
                  <=> (\E i \in DOMAIN r : r[i] = x) \/ x = j
      BY <2>1, InTail
    <3>2. queue' = r
      BY <2>1
    <3> HIDE DEF r, j
    <3> QED
      BY <3>1, <3>2
  <2> HIDE DEF j
  <2>4. CASE j = None
    <3>1. \A u \in Threads : thread'[u] = IF u = t THEN At("ended", None, 0, 0) ELSE thread[u]
      BY <1>0, <1>7, <2>4 DEF Get, Becomes, TypeOK, j
    <3>2. At("ended", None, 0, 0).pc \notin Live
      BY DEF At, Live
    <3>3. \A k \in Jobs : InHand(k)' <=> InHand(k)
      BY <2>2, <3>1, <3>2 DEF InHand, Alive
    <3>4. \A k \in Jobs : Queued(k)' <=> Queued(k)
      BY <2>3, <2>4, NoneAssumption DEF Queued
    <3> QED
      BY <1>3, <2>1, <3>3, <3>4
  <2>5. CASE j # None
    <3>1. j \in Jobs
      BY <2>1, <2>5, InTail DEF j
    <3>2. \A u \in Threads : thread'[u] = IF u = t THEN At("score", j, 0, 0) ELSE thread[u]
      BY <1>0, <1>7, <2>5 DEF Get, Becomes, TypeOK, j
    <3>3. At("score", j, 0, 0).pc \in Live /\ At("score", j, 0, 0).job = j
      BY DEF At, Live
    <3>4. \A k \in Jobs : InHand(k)' <=> k = j
      BY <2>2, <3>2, <3>3 DEF InHand, Alive
    <3>5. Queued(j) /\ j \notin done
      BY <1>0, <2>3, <3>1 DEF Queued, OnePlace
    <3>6. \A k \in Jobs : k # j => (Queued(k)' <=> Queued(k))
      BY <2>3 DEF Queued
    <3>7. \A k \in Jobs : Status(k)' = IF k = j THEN "scoring" ELSE Status(k)
      BY <2>1, <2>2, <3>4, <3>5, <3>6 DEF Status, Handed
    <3>8. Status(j) = "accepted" /\ \A k \in Jobs : Status(k) # "scoring"
      BY <2>2, <3>1, <3>5 DEF Status
    <3>9. Service!Begin(j)
      BY <3>1, <3>7, <3>8, Moves DEF Service!Begin, Fates
    <3> QED
      BY <3>1, <3>9 DEF Service!Next
  <2> QED
    BY <2>4, <2>5
<1>8. ASSUME NEW t \in Threads, NEW k, Becomes(t, k), Alive(t), k.pc \in Live,
             k.job = thread[t].job, UNCHANGED <<queue, known, putting, done>>
      PROVE  UNCHANGED Fates
  <2>1. \A u \in Threads : thread'[u] = IF u = t THEN k ELSE thread[u]
    BY <1>0, <1>8 DEF Becomes, TypeOK
  <2>2. \A j \in Jobs : InHand(j)' <=> InHand(j)
    BY <1>8, <2>1 DEF InHand, Alive
  <2> QED
    BY <1>3, <1>8, <2>2 DEF Queued
<1>9. ASSUME NEW t \in Threads, Score(t) \/ ReadSeq(t) \/ Overtake(t)
      PROVE  UNCHANGED Fates
  <2>1. thread[t] \in State
    BY <1>0 DEF TypeOK, State
  <2>2. \E k : Becomes(t, k) /\ k.pc \in Live /\ k.job = thread[t].job
    <3>1. CASE Score(t)
      <4>1. PICK n \in 0 .. MaxResults : Becomes(t, At("read", thread[t].job, n + 1, 0))
        BY <3>1 DEF Score
      <4>2. /\ At("read", thread[t].job, n + 1, 0).pc \in Live
            /\ At("read", thread[t].job, n + 1, 0).job = thread[t].job
        BY DEF At, Live
      <4> QED
        BY <4>1, <4>2
    <3>2. CASE ReadSeq(t)
      <4> DEFINE k == [thread[t] EXCEPT !.pc = "append", !.fresh = TRUE]
      <4>1. Becomes(t, k) /\ k.pc \in Live /\ k.job = thread[t].job
        BY <2>1, <3>2 DEF ReadSeq, State, Live
      <4> QED
        BY <4>1
    <3>3. CASE Overtake(t)
      <4> DEFINE k == [thread[t] EXCEPT !.fresh = FALSE]
      <4>1. Becomes(t, k) /\ k.pc \in Live /\ k.job = thread[t].job
        BY <2>1, <3>3 DEF Overtake, State, Live
      <4> QED
        BY <4>1
    <3> QED
      BY <1>9, <3>1, <3>2, <3>3
  <2>3. Alive(t) /\ UNCHANGED <<queue, known, putting, done>>
    BY <1>9 DEF Score, ReadSeq, Overtake, Alive, Live
  <2> QED
    BY <1>8, <2>2, <2>3
<1>10. ASSUME NEW t \in Threads, NEW k, Becomes(t, k), Alive(t), thread[t].job \in Jobs,
              k.pc \notin Live \/ k.job = None,
              UNCHANGED <<queue, known, putting>>,
              done' = done \/ done' = done \cup {thread[t].job}
       PROVE  \/ done' = done /\ Service!Lose(thread[t].job)
              \/ done' = done \cup {thread[t].job} /\ Service!Record(thread[t].job)
  <2> DEFINE j == thread[t].job
  <2>1. \A u \in Threads : thread'[u] = IF u = t THEN k ELSE thread[u]
    BY <1>0, <1>10 DEF Becomes, TypeOK
  <2>2. \A i \in Jobs : ~ InHand(i)'
    <3> SUFFICES ASSUME NEW i \in Jobs, NEW u \in Threads, thread'[u].pc \in Live,
                        thread'[u].job = i
                 PROVE  FALSE
      BY DEF InHand, Alive
    <3>1. i # None
      OBVIOUS
    <3>2. u # t
      BY <1>10, <2>1, <3>1
    <3> QED
      BY <1>0, <1>10, <2>1, <3>2 DEF OneThread, Alive
  <2>3. InHand(j) /\ Held(j)
    BY <1>10, HandHolds DEF InHand
  <2>4. \A i \in Jobs : InHand(i) => i = j
    BY <1>0, <1>10, <2>3, OneInHand
  <2>5. j \in known /\ ~ Handed(j) /\ ~ Queued(j) /\ j \notin done
    BY <1>0, <1>10, <2>3 DEF OnePlace
  <2>6. \A i \in Jobs : (Handed(i)' <=> Handed(i)) /\ (Queued(i)' <=> Queued(i))
    BY <1>10 DEF Handed, Queued
  <2>7. Status(j) = "scoring"
    BY <2>3, <2>5 DEF Status
  <2>8. CASE done' = done
    <3>1. \A i \in Jobs : Status(i)' = IF i = j THEN "lost" ELSE Status(i)
      BY <1>10, <2>2, <2>4, <2>5, <2>6, <2>8 DEF Status
    <3> QED
      BY <1>10, <2>7, <2>8, <3>1, Moves DEF Service!Lose
  <2>9. CASE done' = done \cup {j}
    <3>1. \A i \in Jobs : Status(i)' = IF i = j THEN "recorded" ELSE Status(i)
      BY <1>10, <2>2, <2>4, <2>5, <2>6, <2>9 DEF Status
    <3> QED
      BY <1>10, <2>7, <2>9, <3>1, Moves DEF Service!Record
  <2> QED
    BY <1>10, <2>8, <2>9
<1>11. ASSUME NEW t \in Threads, AppendEvent(t) \/ LogFails(t)
       PROVE  Service!Next \/ UNCHANGED Fates
  <2> DEFINE j == thread[t].job
  <2>1. /\ thread[t] \in State /\ j \in Jobs /\ Alive(t)
        /\ UNCHANGED <<queue, known, putting>>
    BY <1>0, <1>11 DEF AppendEvent, LogFails, TypeOK, State, OnePlace, Holding, Alive, Live
  <2>2. CASE Becomes(t, [thread[t] EXCEPT !.pc = "dead"]) /\ UNCHANGED done
    <3> DEFINE k == [thread[t] EXCEPT !.pc = "dead"]
    <3>1. k.pc \notin Live /\ Becomes(t, k)
      BY <2>1, <2>2 DEF State, Live
    <3> HIDE DEF k
    <3>2. Service!Lose(j) \/ Service!Record(j)
      BY <1>10, <2>1, <2>2, <3>1
    <3> QED
      BY <2>1, <3>2 DEF Service!Next
  <2>3. CASE \E left, tries : Becomes(t, At("read", j, left, tries)) /\ UNCHANGED done
    <3>1. \A left, tries : /\ At("read", j, left, tries).pc \in Live
                          /\ At("read", j, left, tries).job = j
      BY DEF At, Live
    <3> QED
      BY <1>8, <2>1, <2>3, <3>1
  <2>4. CASE Becomes(t, At("get", None, 0, 0)) /\ done' = done \cup {j}
    <3>1. At("get", None, 0, 0).job = None
      BY DEF At
    <3>2. Service!Lose(j) \/ Service!Record(j)
      BY <1>10, <2>1, <2>4, <3>1
    <3> QED
      BY <2>1, <3>2 DEF Service!Next
  <2> QED
    BY <1>11, <2>2, <2>3, <2>4 DEF AppendEvent, Appended, Refused, LogFails
<1> QED
  BY <1>1, <1>2, <1>4, <1>5, <1>6, <1>7, <1>9, <1>11 DEF Next, Run, Service!Next

\* With its callers, its thread and the application interleaved in any way, the
\* worker is the service: a job is accepted once, scored once and one at a time, and
\* ends completed in the log, or lost with the thread that held it.
THEOREM Refinement == Spec => ServiceSpec
  BY InitRefines, StepRefines, Inductive, PTL DEF Spec, ServiceSpec, Service!Spec
=============================================================================
