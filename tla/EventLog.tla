------------------------------ MODULE EventLog ------------------------------
(***************************************************************************)
(* What core/contracts.py promises of an event log, stated once for every  *)
(* implementation: `append` takes effect at one instant between its call   *)
(* and its return, an idempotency key already stored for the session gets  *)
(* the stored envelope back without a write, and any other envelope is     *)
(* stored only after every envelope of its session, or refused.            *)
(*                                                                         *)
(* An envelope is its session, its sequence number and its idempotency     *)
(* key; the payload never decides anything in the log.  The log is the set *)
(* of stored envelopes: the readers order it by `seq`.                     *)
(***************************************************************************)
EXTENDS Naturals

CONSTANTS Sessions,  \* the sessions whose events the log holds
          Writers,   \* the threads that call append
          Seqs,      \* the sequence numbers they may present
          Keys,      \* the idempotency keys
          NoKey,     \* idem_key=None
          None,      \* no call in progress, no answer yet
          ValueError, RuntimeError  \* what append raises instead of returning

Envelope == [sess : Sessions, seq : Seqs, key : Keys \cup {NoKey}]

Refusals == {ValueError, RuntimeError}

\* The stored envelopes that carry the idempotency key of e in its session.
Stored(e, L) == {x \in L : x.sess = e.sess /\ x.key = e.key /\ e.key # NoKey}

\* e comes after every envelope of its session.
After(e, L) == \A x \in L : x.sess = e.sess => x.seq < e.seq

VARIABLES log,    \* the stored envelopes
          call,   \* call[w]: the envelope w is appending, or None
          reply   \* reply[w]: what append returned or raised to w, or None

vars == <<log, call, reply>>

Init == /\ log = {}
        /\ call = [w \in Writers |-> None]
        /\ reply = [w \in Writers |-> None]

Invoke(w, e) ==
  /\ call[w] = None
  /\ call' = [call EXCEPT ![w] = e]
  /\ UNCHANGED <<log, reply>>

Answer(w, a) == reply' = [reply EXCEPT ![w] = a]

\* The instant an append takes effect.
ReturnStored(w) ==
  \E x \in Stored(call[w], log) : Answer(w, x) /\ UNCHANGED log

Store(w) ==
  /\ Stored(call[w], log) = {}
  /\ After(call[w], log)
  /\ log' = log \cup {call[w]}
  /\ Answer(w, call[w])

Refuse(w) ==
  \/ /\ Stored(call[w], log) = {}
     /\ ~ After(call[w], log)
     /\ Answer(w, ValueError)
     /\ UNCHANGED log
  \/ /\ Answer(w, RuntimeError)
     /\ UNCHANGED log

Effect(w) ==
  /\ call[w] # None
  /\ reply[w] = None
  /\ ReturnStored(w) \/ Store(w) \/ Refuse(w)
  /\ UNCHANGED call

Return(w) ==
  /\ call[w] # None
  /\ reply[w] # None
  /\ call' = [call EXCEPT ![w] = None]
  /\ reply' = [reply EXCEPT ![w] = None]
  /\ UNCHANGED log

\* The threads in W die: what was stored stays, calls without effect never
\* take effect, answers are lost.
Crash(W) ==
  /\ call' = [w \in Writers |-> IF w \in W THEN None ELSE call[w]]
  /\ reply' = [w \in Writers |-> IF w \in W THEN None ELSE reply[w]]
  /\ UNCHANGED log

Next ==
  \/ \E w \in Writers : \/ \E e \in Envelope : Invoke(w, e)
                        \/ Effect(w)
                        \/ Return(w)
  \/ \E W \in SUBSET Writers : Crash(W)

Spec == Init /\ [][Next]_vars

=============================================================================
