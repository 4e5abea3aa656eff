--------------------------- MODULE SqliteLogProofs --------------------------
(***************************************************************************)
(* Proofs about SqliteLog for any sessions, threads, processes and keys.   *)
(* The inductive invariant IInv says who holds the two locks at every      *)
(* statement of append, and that what the transaction has read about the   *)
(* table is still so.                                                      *)
(***************************************************************************)
EXTENDS SqliteLog, TLAPS

\* A thread past AcquireLock holds its connection's lock and has an envelope;
\* one past BEGIN IMMEDIATE holds the write lock as well.
LocksInv ==
  \A w \in Writers :
    /\ pc[w] # "idle" => env[w] \in Envelope
    /\ pc[w] = "idle" => env[w] = None
    /\ (pc[w] = "begin" \/ InTransaction(w)) => pyLock[ProcOf[w]] = w
    /\ InTransaction(w) => dbLock = w
    /\ dbLock = w => InTransaction(w)
    /\ pc[w] = "done" <=> reply[w] # None

IInv == TypeOK /\ LocksInv /\ CheckedStillTrue /\ KeysUnique /\ SeqsUnique

USE ProcOfAssumption, NoWriterAssumption, SeqsAreNumbers, NoKeyIsNoKey,
    NoneIsNoAnswer, RefusalsAreNotEnvelopes

\* An empty table, no lock held and no append in progress satisfy the invariant.
LEMMA InitIInv == Init => IInv
  BY DEF Init, IInv, TypeOK, LocksInv, CheckedStillTrue, KeysUnique,
         SeqsUnique, PCs, InTransaction

\* The envelope of a statement in the transaction, and the refusals, are
\* values a caller can be given.
LEMMA Answers == /\ ValueError \in Refusals
                 /\ RuntimeError \in Refusals
                 /\ \A e, L : Stored(e, L) \subseteq L
  BY DEF Refusals, Contract!Refusals, Stored, Contract!Stored

\* No step leaves the types of the variables.
LEMMA StepTypeOK == TypeOK /\ LocksInv /\ [Next]_vars => TypeOK'
<1> SUFFICES ASSUME TypeOK, LocksInv, [Next]_vars PROVE TypeOK'
  OBVIOUS
<1>1. ASSUME NEW w \in Writers, NEW e \in Envelope, Append(w, e) PROVE TypeOK'
  BY <1>1 DEF Append, TypeOK, PCs, GoTo
<1>2. ASSUME NEW w \in Writers, AcquireLock(w) PROVE TypeOK'
  BY <1>2 DEF AcquireLock, TypeOK, PCs, GoTo
<1>3. ASSUME NEW w \in Writers, BeginImmediate(w) PROVE TypeOK'
  BY <1>3 DEF BeginImmediate, TypeOK, PCs, GoTo
<1>4. ASSUME NEW w \in Writers, BeginBusy(w) PROVE TypeOK'
  BY <1>4, Answers DEF BeginBusy, Leave, TypeOK, PCs, GoTo
<1>5. ASSUME NEW w \in Writers, LookupKey(w) PROVE TypeOK'
  BY <1>5, Answers DEF LookupKey, Leave, TypeOK, PCs, GoTo
<1>6. ASSUME NEW w \in Writers, CheckSeq(w) PROVE TypeOK'
  BY <1>6, Answers DEF CheckSeq, Leave, TypeOK, PCs, GoTo
<1>7. ASSUME NEW w \in Writers, Insert(w) PROVE TypeOK'
  BY <1>7, Answers DEF Insert, Leave, TypeOK, PCs, GoTo
<1>8. ASSUME NEW w \in Writers, Commit(w) PROVE TypeOK'
  <2>1. env[w] \in Envelope
    BY <1>8 DEF Commit, LocksInv
  <2> QED
    BY <1>8, <2>1 DEF Commit, Leave, TypeOK, PCs, GoTo
<1>9. ASSUME NEW w \in Writers, Return(w) PROVE TypeOK'
  BY <1>9 DEF Return, TypeOK, PCs, GoTo
<1>10. ASSUME NEW p \in Procs, Crash(p) PROVE TypeOK'
  BY <1>10 DEF Crash, TypeOK, PCs
<1>11. ASSUME UNCHANGED vars PROVE TypeOK'
  BY <1>11 DEF vars, TypeOK
<1> QED
  BY <1>1, <1>2, <1>3, <1>4, <1>5, <1>6, <1>7, <1>8, <1>9, <1>10, <1>11
  DEF Next, Step

\* The locks are held exactly by the threads LocksInv says.
LEMMA StepLocksInv == TypeOK /\ LocksInv /\ [Next]_vars => LocksInv'
<1> SUFFICES ASSUME TypeOK, LocksInv, [Next]_vars PROVE LocksInv'
  OBVIOUS
<1>1. ASSUME NEW w \in Writers, NEW e \in Envelope, Append(w, e) PROVE LocksInv'
  BY <1>1, Answers DEF Append, GoTo, TypeOK, PCs, LocksInv, InTransaction
<1>2. ASSUME NEW w \in Writers, AcquireLock(w) PROVE LocksInv'
  BY <1>2, Answers DEF AcquireLock, GoTo, TypeOK, PCs, LocksInv, InTransaction
<1>3. ASSUME NEW w \in Writers, BeginImmediate(w) PROVE LocksInv'
  BY <1>3, Answers DEF BeginImmediate, GoTo, TypeOK, PCs, LocksInv, InTransaction
<1>4. ASSUME NEW w \in Writers, BeginBusy(w) PROVE LocksInv'
  BY <1>4, Answers DEF BeginBusy, Leave, GoTo, TypeOK, PCs, LocksInv, InTransaction
<1>5. ASSUME NEW w \in Writers, LookupKey(w) PROVE LocksInv'
  BY <1>5, Answers DEF LookupKey, Leave, GoTo, TypeOK, PCs, LocksInv, InTransaction
<1>6. ASSUME NEW w \in Writers, CheckSeq(w) PROVE LocksInv'
  BY <1>6, Answers DEF CheckSeq, Leave, GoTo, TypeOK, PCs, LocksInv, InTransaction
<1>7. ASSUME NEW w \in Writers, Insert(w) PROVE LocksInv'
  BY <1>7, Answers DEF Insert, Leave, GoTo, TypeOK, PCs, LocksInv, InTransaction
<1>8. ASSUME NEW w \in Writers, Commit(w) PROVE LocksInv'
  BY <1>8, Answers DEF Commit, Leave, GoTo, TypeOK, PCs, LocksInv, InTransaction
<1>9. ASSUME NEW w \in Writers, Return(w) PROVE LocksInv'
  BY <1>9, Answers DEF Return, GoTo, TypeOK, PCs, LocksInv, InTransaction
<1>10. ASSUME NEW p \in Procs, Crash(p) PROVE LocksInv'
  BY <1>10, Answers DEF Crash, TypeOK, PCs, LocksInv, InTransaction
<1>11. ASSUME UNCHANGED vars PROVE LocksInv'
  BY <1>11, Answers DEF vars, TypeOK, PCs, LocksInv, InTransaction
<1> QED
  BY <1>1, <1>2, <1>3, <1>4, <1>5, <1>6, <1>7, <1>8, <1>9, <1>10, <1>11
  DEF Next, Step

\* Only the thread holding the write lock commits, so what it has read of
\* the table stays true until it does.
LEMMA StepChecked == TypeOK /\ LocksInv /\ CheckedStillTrue /\ [Next]_vars => CheckedStillTrue'
<1> SUFFICES ASSUME TypeOK, LocksInv, CheckedStillTrue, [Next]_vars PROVE CheckedStillTrue'
  OBVIOUS
<1>1. ASSUME NEW w \in Writers, NEW e \in Envelope, Append(w, e) PROVE CheckedStillTrue'
  BY <1>1, Answers DEF Append, GoTo, TypeOK, PCs, LocksInv, InTransaction, CheckedStillTrue
<1>2. ASSUME NEW w \in Writers, AcquireLock(w) PROVE CheckedStillTrue'
  BY <1>2, Answers DEF AcquireLock, GoTo, TypeOK, PCs, LocksInv, InTransaction, CheckedStillTrue
<1>3. ASSUME NEW w \in Writers, BeginImmediate(w) PROVE CheckedStillTrue'
  BY <1>3, Answers DEF BeginImmediate, GoTo, TypeOK, PCs, LocksInv, InTransaction, CheckedStillTrue
<1>4. ASSUME NEW w \in Writers, BeginBusy(w) PROVE CheckedStillTrue'
  BY <1>4, Answers DEF BeginBusy, Leave, GoTo, TypeOK, PCs, LocksInv, InTransaction, CheckedStillTrue
<1>5. ASSUME NEW w \in Writers, LookupKey(w) PROVE CheckedStillTrue'
  BY <1>5, Answers DEF LookupKey, Leave, GoTo, TypeOK, PCs, LocksInv, InTransaction, CheckedStillTrue
<1>6. ASSUME NEW w \in Writers, CheckSeq(w) PROVE CheckedStillTrue'
  BY <1>6, Answers DEF CheckSeq, Leave, GoTo, TypeOK, PCs, LocksInv, InTransaction, CheckedStillTrue
<1>7. ASSUME NEW w \in Writers, Insert(w) PROVE CheckedStillTrue'
  BY <1>7, Answers DEF Insert, Leave, GoTo, TypeOK, PCs, LocksInv, InTransaction, CheckedStillTrue
<1>8. ASSUME NEW w \in Writers, Commit(w) PROVE CheckedStillTrue'
  BY <1>8, Answers DEF Commit, Leave, GoTo, TypeOK, PCs, LocksInv, InTransaction, CheckedStillTrue
<1>9. ASSUME NEW w \in Writers, Return(w) PROVE CheckedStillTrue'
  BY <1>9, Answers DEF Return, GoTo, TypeOK, PCs, LocksInv, InTransaction, CheckedStillTrue
<1>10. ASSUME NEW p \in Procs, Crash(p) PROVE CheckedStillTrue'
  BY <1>10, Answers DEF Crash, TypeOK, PCs, LocksInv, InTransaction, CheckedStillTrue
<1>11. ASSUME UNCHANGED vars PROVE CheckedStillTrue'
  BY <1>11, Answers DEF vars, TypeOK, PCs, LocksInv, InTransaction, CheckedStillTrue
<1> QED
  BY <1>1, <1>2, <1>3, <1>4, <1>5, <1>6, <1>7, <1>8, <1>9, <1>10, <1>11
  DEF Next, Step

\* Only COMMIT changes the table, and it adds one envelope, which has a key
\* its session does not have yet and comes after everything in its session.
LEMMA RowsGrow ==
  ASSUME LocksInv, CheckedStillTrue, [Next]_vars
  PROVE  \/ rows' = rows
         \/ \E e \in Envelope : /\ rows' = rows \cup {e}
                                /\ Stored(e, rows) = {}
                                /\ After(e, rows)
<1>1. ASSUME NEW w \in Writers, Commit(w)
      PROVE  \E e \in Envelope : /\ rows' = rows \cup {e}
                                 /\ Stored(e, rows) = {}
                                 /\ After(e, rows)
  <2>1. env[w] \in Envelope /\ rows' = rows \cup {env[w]}
    BY <1>1 DEF Commit, LocksInv
  <2>2. Stored(env[w], rows) = {} /\ After(env[w], rows)
    BY <1>1 DEF Commit, CheckedStillTrue
  <2> QED
    BY <2>1, <2>2
<1>2. ASSUME ~ \E w \in Writers : Commit(w) PROVE rows' = rows
  BY <1>2 DEF Next, Step, vars, Append, AcquireLock, BeginImmediate, BeginBusy,
              LookupKey, CheckSeq, Insert, Return, Crash
<1> QED
  BY <1>1, <1>2

\* Hence keys and sequence numbers stay unique.
LEMMA StepUnique ==
  ASSUME TypeOK, LocksInv, CheckedStillTrue, KeysUnique, SeqsUnique, [Next]_vars
  PROVE  KeysUnique' /\ SeqsUnique'
<1>1. CASE rows' = rows
  BY <1>1 DEF KeysUnique, SeqsUnique
<1>2. ASSUME NEW e \in Envelope, rows' = rows \cup {e},
             Stored(e, rows) = {}, After(e, rows)
      PROVE  KeysUnique' /\ SeqsUnique'
  <2>1. \A x \in rows : ~ (x.sess = e.sess /\ x.key = e.key /\ e.key # NoKey)
    BY <1>2 DEF Stored, Contract!Stored
  <2>2. KeysUnique'
    BY <1>2, <2>1 DEF KeysUnique
  <2>3. \A x \in rows : x.sess = e.sess => x.seq # e.seq
    <3> SUFFICES ASSUME NEW x \in rows, x.sess = e.sess, x.seq = e.seq
                 PROVE  FALSE
      OBVIOUS
    <3>1. x.seq < e.seq
      BY <1>2 DEF After, Contract!After
    <3>2. e.seq \in Nat
      BY <1>2 DEF Envelope, Contract!Envelope
    <3> QED
      BY <3>1, <3>2
  <2>4. SeqsUnique'
    BY <1>2, <2>3 DEF SeqsUnique
  <2> QED
    BY <2>2, <2>4
<1> QED
  BY <1>1, <1>2, RowsGrow

\* The invariant is inductive: every statement, return and crash preserves it.
LEMMA StepIInv == IInv /\ [Next]_vars => IInv'
  BY StepTypeOK, StepLocksInv, StepChecked, StepUnique DEF IInv

\* The inductive invariant holds of every behaviour of the specification.
THEOREM Invariance == Spec => []IInv
  BY InitIInv, StepIInv, PTL DEF Spec

\* Every variable keeps its type.
THEOREM TypeCorrect == Spec => []TypeOK
<1>1. IInv => TypeOK
  BY DEF IInv
<1> QED
  BY <1>1, Invariance, PTL

\* What append has read inside its transaction is still true when it inserts:
\* the IntegrityError branch is dead code while BEGIN IMMEDIATE holds.
THEOREM ChecksHold == Spec => []CheckedStillTrue
<1>1. IInv => CheckedStillTrue
  BY DEF IInv
<1> QED
  BY <1>1, Invariance, PTL

\* One event per idempotency key of a session: the retry of an append that was
\* stored stores nothing.
THEOREM Uniqueness == Spec => []KeysUnique
<1>1. IInv => KeysUnique
  BY DEF IInv
<1> QED
  BY <1>1, Invariance, PTL

\* One event per sequence number of a session, whoever appends at the same time.
THEOREM SeqUniqueness == Spec => []SeqsUnique
<1>1. IInv => SeqsUnique
  BY DEF IInv
<1> QED
  BY <1>1, Invariance, PTL

\* A thread that BEGIN IMMEDIATE turns away was turned away by another process.
THEOREM OneTransactionPerConnection == Spec => []BusyOnlyAcrossProcesses
<1>1. IInv => BusyOnlyAcrossProcesses
  <2> SUFFICES ASSUME IInv, NEW w \in Writers, pc[w] = "begin", dbLock # None,
                      ProcOf[dbLock] = ProcOf[w]
               PROVE  FALSE
    BY DEF BusyOnlyAcrossProcesses
  <2>1. dbLock \in Writers /\ InTransaction(dbLock)
    BY DEF IInv, TypeOK, LocksInv
  <2>2. pyLock[ProcOf[dbLock]] = dbLock /\ pyLock[ProcOf[w]] = w
    BY <2>1 DEF IInv, LocksInv
  <2> QED
    BY <2>1, <2>2 DEF InTransaction
<1> QED
  BY <1>1, Invariance, PTL

\* The table is append-only and grows only at the end of each session.
THEOREM AppendOnly == Spec => GrowsAtEnd
<1>1. IInv /\ [Next]_vars =>
        [rows \subseteq rows' /\ \A e \in rows' \ rows : After(e, rows)]_rows
  BY RowsGrow DEF IInv
<1> QED
  BY <1>1, Invariance, PTL DEF Spec, GrowsAtEnd

-----------------------------------------------------------------------------
(***************************************************************************)
(* The refinement: each statement of append maps to a stutter, or, when it *)
(* commits or refuses, to the instant the contract's append takes effect.  *)
(***************************************************************************)
USE DEF Envelope, Refusals, Stored, After

\* The empty table is the contract's empty log.
LEMMA InitRefines == Init => Contract!Init
  BY DEF Init, Contract!Init

\* A thread about to run a statement of append has called and has no answer.
LEMMA Pending ==
  ASSUME TypeOK, LocksInv, NEW w \in Writers,
         pc[w] = "begin" \/ InTransaction(w)
  PROVE  env[w] # None /\ reply[w] = None
  BY DEF TypeOK, LocksInv, InTransaction

\* Leaving append with a result is the contract's effect, given the reason.
LEMMA LeaveRefines ==
  ASSUME TypeOK, LocksInv, NEW w \in Writers, NEW result,
         pc[w] = "begin" \/ InTransaction(w), Leave(w, result), UNCHANGED env,
         \/ result = RuntimeError /\ UNCHANGED rows
         \/ /\ result = ValueError
            /\ Contract!Stored(env[w], rows) = {}
            /\ ~ Contract!After(env[w], rows)
            /\ UNCHANGED rows
         \/ result \in Contract!Stored(env[w], rows) /\ UNCHANGED rows
         \/ /\ result = env[w]
            /\ Contract!Stored(env[w], rows) = {}
            /\ Contract!After(env[w], rows)
            /\ rows' = rows \cup {env[w]}
  PROVE  Contract!Next
<1>1. env[w] # None /\ reply[w] = None
  BY Pending
<1>2. Contract!Effect(w)
  BY <1>1 DEF Leave, Contract!Effect, Contract!ReturnStored, Contract!Store,
              Contract!Refuse, Contract!Answer
<1> QED
  BY <1>2 DEF Contract!Next

\* Every statement of append is a step of the contract or invisible to it.
LEMMA StepRefines == IInv /\ [Next]_vars => [Contract!Next]_(Contract!vars)
<1> SUFFICES ASSUME IInv, [Next]_vars PROVE [Contract!Next]_(Contract!vars)
  OBVIOUS
<1> USE DEF IInv
<1>1. ASSUME NEW w \in Writers, NEW e \in Envelope, Append(w, e)
      PROVE  Contract!Next
  <2>1. Contract!Invoke(w, e)
    BY <1>1 DEF Append, LocksInv, Contract!Invoke
  <2> QED
    BY <2>1 DEF Contract!Next
<1>2. ASSUME NEW w \in Writers, AcquireLock(w) PROVE UNCHANGED Contract!vars
  BY <1>2 DEF AcquireLock, Contract!vars
<1>3. ASSUME NEW w \in Writers, BeginImmediate(w) PROVE UNCHANGED Contract!vars
  BY <1>3 DEF BeginImmediate, Contract!vars
<1>4. ASSUME NEW w \in Writers, BeginBusy(w) PROVE Contract!Next
  BY <1>4, LeaveRefines DEF BeginBusy
<1>5. ASSUME NEW w \in Writers, LookupKey(w)
      PROVE  [Contract!Next]_(Contract!vars)
  <2>1. InTransaction(w)
    BY <1>5 DEF LookupKey, InTransaction
  <2>2. CASE \E x \in Stored(env[w], rows) : Leave(w, x) /\ dbLock' = None
    BY <1>5, <2>1, <2>2, LeaveRefines DEF LookupKey
  <2>3. CASE UNCHANGED reply
    BY <1>5, <2>3 DEF LookupKey, Contract!vars
  <2> QED
    BY <1>5, <2>2, <2>3 DEF LookupKey
<1>6. ASSUME NEW w \in Writers, CheckSeq(w)
      PROVE  [Contract!Next]_(Contract!vars)
  <2>1. InTransaction(w) /\ Contract!Stored(env[w], rows) = {}
    BY <1>6 DEF CheckSeq, InTransaction, CheckedStillTrue
  <2>2. CASE ~ After(env[w], rows) /\ Leave(w, ValueError)
    BY <1>6, <2>1, <2>2, LeaveRefines DEF CheckSeq
  <2>3. CASE UNCHANGED reply
    BY <1>6, <2>3 DEF CheckSeq, Contract!vars
  <2> QED
    BY <1>6, <2>2, <2>3 DEF CheckSeq
<1>7. ASSUME NEW w \in Writers, Insert(w) PROVE UNCHANGED Contract!vars
  <2>1. Contract!Stored(env[w], rows) = {} /\ Contract!After(env[w], rows)
    BY <1>7 DEF Insert, CheckedStillTrue
  <2>2. env[w] \in Contract!Envelope /\ rows \subseteq Contract!Envelope
    BY <1>7 DEF Insert, LocksInv, TypeOK
  <2>3. \A x \in rows : x.sess = env[w].sess => x.seq # env[w].seq
    <3> SUFFICES ASSUME NEW x \in rows, x.sess = env[w].sess,
                        x.seq = env[w].seq
                 PROVE  FALSE
      OBVIOUS
    <3>1. x.seq < env[w].seq
      BY <2>1 DEF Contract!After
    <3>2. env[w].seq \in Nat
      BY <2>2 DEF Contract!Envelope
    <3> QED
      BY <3>1, <3>2
  <2>4. Integrity(env[w])
    BY <2>1, <2>3 DEF Integrity
  <2> QED
    BY <1>7, <2>4 DEF Insert, Contract!vars
<1>8. ASSUME NEW w \in Writers, Commit(w) PROVE Contract!Next
  <2>1. /\ InTransaction(w)
        /\ Contract!Stored(env[w], rows) = {}
        /\ Contract!After(env[w], rows)
    BY <1>8 DEF Commit, InTransaction, CheckedStillTrue
  <2> QED
    BY <1>8, <2>1, LeaveRefines DEF Commit
<1>9. ASSUME NEW w \in Writers, Return(w) PROVE Contract!Next
  <2>1. env[w] # None /\ reply[w] # None
    BY <1>9 DEF Return, LocksInv, TypeOK
  <2>2. Contract!Return(w)
    BY <1>9, <2>1 DEF Return, Contract!Return
  <2> QED
    BY <2>2 DEF Contract!Next
<1>10. ASSUME NEW p \in Procs, Crash(p) PROVE Contract!Next
  <2> DEFINE W == {w \in Writers : ProcOf[w] = p}
  <2>1. Contract!Crash(W)
    BY <1>10 DEF Crash, Contract!Crash
  <2>2. W \in SUBSET Writers
    OBVIOUS
  <2> HIDE DEF W
  <2> QED
    BY <2>1, <2>2 DEF Contract!Next
<1>11. ASSUME UNCHANGED vars PROVE UNCHANGED Contract!vars
  BY <1>11 DEF vars, Contract!vars
<1> QED
  BY <1>1, <1>2, <1>3, <1>4, <1>5, <1>6, <1>7, <1>8, <1>9, <1>10, <1>11
  DEF Next, Step

\* The statements of append, interleaved in any number of processes and
\* threads and cut short by crashes, implement the atomic append of the
\* EventLog contract.
THEOREM Refinement == Spec => Linearizable
  BY InitRefines, StepRefines, Invariance, PTL
  DEF Spec, Linearizable, Contract!Spec
=============================================================================
