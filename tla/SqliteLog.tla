------------------------------ MODULE SqliteLog -----------------------------
(***************************************************************************)
(* adapters/eventlog/sqlite_log.py: append as the statements it runs.      *)
(* Every process opens one SqliteEventLog (one connection, one             *)
(* threading.Lock) on the same database file; the request threads and the  *)
(* background scoring thread of a process share it.                        *)
(*                                                                         *)
(* SQLite itself is modelled by what the code relies on: BEGIN IMMEDIATE   *)
(* admits one writing transaction per file or raises after its busy        *)
(* timeout, a transaction's insert is invisible until COMMIT, and the      *)
(* death of a process rolls its transaction back.                          *)
(***************************************************************************)
EXTENDS Naturals

CONSTANTS Sessions, Writers, Seqs, Keys, NoKey, None, ValueError, RuntimeError,
          Procs,   \* the processes that opened the database
          ProcOf   \* ProcOf[w]: the process thread w runs in

VARIABLES rows,    \* the committed rows of table events
          pyLock,  \* pyLock[p]: the thread holding SqliteEventLog._lock
          dbLock,  \* the thread whose transaction holds the write lock
          pc,      \* pc[w]: the statement of append w executes next
          env,     \* env[w]: the envelope w passed to append, or None
          reply    \* reply[w]: what append returned or raised, or None

vars == <<rows, pyLock, dbLock, pc, env, reply>>

Contract == INSTANCE EventLog
              WITH log <- rows, call <- env

Envelope     == Contract!Envelope
Refusals     == Contract!Refusals
\* Mutant of Stored: the key is looked up together with the sequence number.
StoredAtSeq(e, L) == {x \in Contract!Stored(e, L) : x.seq = e.seq}
Stored(e, L) == Contract!Stored(e, L)
After(e, L)  == Contract!After(e, L)

ASSUME ProcOfAssumption == ProcOf \in [Writers -> Procs]
ASSUME NoWriterAssumption == None \notin Writers
ASSUME SeqsAreNumbers == Seqs \subseteq Nat \ {0}
ASSUME NoKeyIsNoKey == NoKey \notin Keys
ASSUME NoneIsNoAnswer == None \notin Envelope \cup Refusals
ASSUME RefusalsAreNotEnvelopes == Refusals \cap Envelope = {}

PCs == {"idle", "lock", "begin", "lookup", "check", "insert", "commit", "done"}

Init ==
  /\ rows = {}
  /\ pyLock = [p \in Procs |-> None]
  /\ dbLock = None
  /\ pc = [w \in Writers |-> "idle"]
  /\ env = [w \in Writers |-> None]
  /\ reply = [w \in Writers |-> None]

GoTo(w, label) == pc' = [pc EXCEPT ![w] = label]

\* Leaving the `with self._lock` block, with a result or an exception.
Leave(w, result) ==
  /\ pyLock' = [pyLock EXCEPT ![ProcOf[w]] = None]
  /\ reply' = [reply EXCEPT ![w] = result]
  /\ GoTo(w, "done")

Append(w, e) ==
  /\ pc[w] = "idle"
  /\ env' = [env EXCEPT ![w] = e]
  /\ GoTo(w, "lock")
  /\ UNCHANGED <<rows, pyLock, dbLock, reply>>

\* Mutant of AcquireLock: append does not take the connection's lock.
AcquireNothing(w) ==
  /\ pc[w] = "lock"
  /\ GoTo(w, "begin")
  /\ UNCHANGED <<rows, pyLock, dbLock, env, reply>>

AcquireLock(w) ==
  /\ pc[w] = "lock"
  /\ pyLock[ProcOf[w]] = None
  /\ pyLock' = [pyLock EXCEPT ![ProcOf[w]] = w]
  /\ GoTo(w, "begin")
  /\ UNCHANGED <<rows, dbLock, env, reply>>

\* Mutant of BeginImmediate: a deferred BEGIN takes no write lock.
BeginDeferred(w) ==
  /\ pc[w] = "begin"
  /\ dbLock' = w
  /\ GoTo(w, "lookup")
  /\ UNCHANGED <<rows, pyLock, env, reply>>

BeginImmediate(w) ==
  /\ pc[w] = "begin"
  /\ dbLock = None
  /\ dbLock' = w
  /\ GoTo(w, "lookup")
  /\ UNCHANGED <<rows, pyLock, env, reply>>

\* Another transaction outlives the busy timeout: OperationalError, re-raised
\* as RuntimeError before the inner try block.
BeginBusy(w) ==
  /\ pc[w] = "begin"
  /\ dbLock # None
  /\ Leave(w, RuntimeError)
  /\ UNCHANGED <<rows, dbLock, env>>

\* Mutant of LookupKey: the key found is returned in place of its envelope.
LookupOnlyKey(w) ==
  /\ pc[w] = "lookup"
  /\ \/ \E x \in Stored(env[w], rows) : Leave(w, x.key) /\ dbLock' = None
     \/ /\ Stored(env[w], rows) = {}
        /\ GoTo(w, "check")
        /\ UNCHANGED <<pyLock, dbLock, reply>>
  /\ UNCHANGED <<rows, env>>

\* SELECT ... WHERE session_id = ? AND idem_key = ?
LookupKey(w) ==
  /\ pc[w] = "lookup"
  /\ \/ \E x \in Stored(env[w], rows) : Leave(w, x) /\ dbLock' = None
     \/ /\ Stored(env[w], rows) = {}
        /\ GoTo(w, "check")
        /\ UNCHANGED <<pyLock, dbLock, reply>>
  /\ UNCHANGED <<rows, env>>

\* Mutants of CheckSeq: the primary key alone guards the order, and the refusal
\* is raised without the ROLLBACK.
CheckNothing(w) ==
  /\ pc[w] = "check"
  /\ GoTo(w, "insert")
  /\ UNCHANGED <<rows, pyLock, dbLock, env, reply>>

CheckSeqNoRollback(w) ==
  /\ pc[w] = "check"
  /\ \/ After(env[w], rows) /\ GoTo(w, "insert") /\ UNCHANGED <<pyLock, reply>>
     \/ ~ After(env[w], rows) /\ Leave(w, ValueError)
  /\ UNCHANGED <<rows, dbLock, env>>

\* SELECT MAX(seq), and ROLLBACK when the envelope does not come after it.
CheckSeq(w) ==
  /\ pc[w] = "check"
  /\ \/ /\ After(env[w], rows)
        /\ GoTo(w, "insert")
        /\ UNCHANGED <<pyLock, dbLock, reply>>
     \/ /\ ~ After(env[w], rows)
        /\ Leave(w, ValueError)
        /\ dbLock' = None
  /\ UNCHANGED <<rows, env>>

\* The primary key (session_id, seq) and the unique index on idem_key.
Integrity(e) ==
  /\ Stored(e, rows) = {}
  /\ \A x \in rows : ~ (x.sess = e.sess /\ x.seq = e.seq)

Insert(w) ==
  /\ pc[w] = "insert"
  /\ \/ /\ Integrity(env[w])
        /\ GoTo(w, "commit")
        /\ UNCHANGED <<pyLock, dbLock, reply>>
     \/ /\ ~ Integrity(env[w])
        /\ Leave(w, ValueError)
        /\ dbLock' = None
  /\ UNCHANGED <<rows, env>>

\* Mutant of Commit: append raises after its COMMIT.
CommitThenRaise(w) ==
  /\ pc[w] = "commit"
  /\ rows' = rows \cup {env[w]}
  /\ dbLock' = None
  /\ Leave(w, RuntimeError)
  /\ UNCHANGED env

Commit(w) ==
  /\ pc[w] = "commit"
  /\ rows' = rows \cup {env[w]}
  /\ dbLock' = None
  /\ Leave(w, env[w])
  /\ UNCHANGED env

Return(w) ==
  /\ pc[w] = "done"
  /\ GoTo(w, "idle")
  /\ env' = [env EXCEPT ![w] = None]
  /\ reply' = [reply EXCEPT ![w] = None]
  /\ UNCHANGED <<rows, pyLock, dbLock>>

\* Process p dies: its threads stop where they are, its transaction rolls back.
Crash(p) ==
  /\ pc' = [w \in Writers |-> IF ProcOf[w] = p THEN "idle" ELSE pc[w]]
  /\ env' = [w \in Writers |-> IF ProcOf[w] = p THEN None ELSE env[w]]
  /\ reply' = [w \in Writers |-> IF ProcOf[w] = p THEN None ELSE reply[w]]
  /\ pyLock' = [pyLock EXCEPT ![p] = None]
  /\ dbLock' = IF dbLock # None /\ ProcOf[dbLock] = p THEN None ELSE dbLock
  /\ UNCHANGED rows

Step(w) ==
  \/ BeginImmediate(w) \/ BeginBusy(w) \/ LookupKey(w) \/ CheckSeq(w)
  \/ Insert(w) \/ Commit(w)

Next ==
  \/ \E w \in Writers : \/ \E e \in Envelope : Append(w, e)
                        \/ AcquireLock(w)
                        \/ Step(w)
                        \/ Return(w)
  \/ \E p \in Procs : Crash(p)

Spec == Init /\ [][Next]_vars

\* A thread inside the transaction is scheduled again: nothing it waits for
\* (the write lock, with its timeout) can block it for ever.
FairSpec == Spec /\ \A w \in Writers : WF_vars(Step(w))

-----------------------------------------------------------------------------
TypeOK ==
  /\ rows \subseteq Envelope
  /\ pyLock \in [Procs -> Writers \cup {None}]
  /\ dbLock \in Writers \cup {None}
  /\ pc \in [Writers -> PCs]
  /\ env \in [Writers -> Envelope \cup {None}]
  /\ reply \in [Writers -> Envelope \cup Refusals \cup {None}]

\* The statements of append that run inside the transaction.
InTransaction(w) == pc[w] \in {"lookup", "check", "insert", "commit"}

\* Threads sharing a connection take turns: BEGIN is reached only by the
\* thread holding _lock, so it never meets a transaction of its own
\* connection, and only another process can make it raise.
BusyOnlyAcrossProcesses ==
  \A w \in Writers :
    pc[w] = "begin" /\ dbLock # None => ProcOf[dbLock] # ProcOf[w]

\* What the key lookup and the sequence check established still holds when
\* the row is inserted, so the constraint violation (IntegrityError) that
\* append translates to ValueError cannot occur.
CheckedStillTrue ==
  \A w \in Writers :
    /\ pc[w] \in {"check", "insert", "commit"} => Stored(env[w], rows) = {}
    /\ pc[w] \in {"insert", "commit"} => After(env[w], rows)

\* At most one event is stored per idempotency key of a session and per
\* sequence number of a session.
KeysUnique ==
  \A x, y \in rows :
    x.sess = y.sess /\ x.key = y.key /\ x.key # NoKey => x = y

SeqsUnique ==
  \A x, y \in rows : x.sess = y.sess /\ x.seq = y.seq => x = y

\* Events are only ever added behind every event their session already has,
\* and never removed: a reader that replayed a session has missed nothing
\* below the last sequence number it saw.
GrowsAtEnd ==
  [][rows \subseteq rows' /\ \A e \in rows' \ rows : After(e, rows)]_rows

\* Every path out of append, the refusals included, gives back the
\* connection's lock and the database's.
LocksReleased ==
  \A w \in Writers :
    pyLock[ProcOf[w]] = w ~> pyLock[ProcOf[w]] # w /\ dbLock # w

\* The transactional append implements the contract: it takes effect at one
\* instant, its COMMIT or the statement that refuses or finds the key.
Linearizable == Contract!Spec
=============================================================================
