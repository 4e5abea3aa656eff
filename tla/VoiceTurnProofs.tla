--------------------------- MODULE VoiceTurnProofs ---------------------------
(***************************************************************************)
(* Proofs about VoiceTurn for any sockets, stages, turns and bounds: what  *)
(* the log holds of a reply agrees with what was sent of it.  A step       *)
(* appends events of one turn only, so the invariant speaks of each socket *)
(* by itself, over the events its current turn has in the log.  The second *)
(* half (Told) relates how far a turn has come to what the browser has     *)
(* been sent, up to the closing of the socket.                             *)
(***************************************************************************)
EXTENDS VoiceTurn, FiniteSetTheorems, TLAPS

Event == [type : EventTypes, id : Sockets \X Nat]

State == [at : Steps, n : Nat, stage : 0 .. Stages - 1, shown : BOOLEAN,
          audio : 0 .. MaxChunks, lost : BOOLEAN, cancelled : BOOLEAN,
          bye : {"none", "normal", "error"}]

\* The places in L of the events of one type and one turn.
In(L, type, id) == {i \in DOMAIN L : L[i].type = type /\ L[i].id = id}

\* The candidate's turn and its transcript are there, in this order, before i.
Heeds(L, id, i) == \E a \in In(L, "Candidate", id), b \in In(L, "Transcript", id) : a < b /\ b < i

\* RepliesInOrder, turn by turn.
Ordered(L) == \A id \in Sockets \X Nat : \A i, j \in In(L, "Examiner", id) : i = j /\ Heeds(L, id, i)

\* A turn that stands at t agrees with what L holds of it.
Stands(t, L, id) ==
  /\ t.at \in {"listening", "reply"} => ~ t.shown
  /\ t.at \in Speaking \cup Recording => t.shown
  /\ t.at \in {"listening", "reply"} \cup Speaking \cup Recording => In(L, "Examiner", id) = {}
  /\ t.at \in {"reply"} \cup Speaking \cup Recording => Heeds(L, id, Len(L) + 1)
  /\ t.at \in {"goodbye", "failing", "closed"} /\ t.shown /\ ~ t.lost => In(L, "Examiner", id) # {}
  /\ In(L, "Examiner", id) # {} => t.shown

\* Nothing is in the log of a turn not yet begun.
Begun == \A type \in EventTypes, id \in Sockets \X Nat :
           In(log, type, id) # {} => id[2] <= turn[id[1]].n

IInv ==
  /\ TypeOK
  /\ Begun
  /\ Ordered(log)
  /\ \A c \in Sockets : Stands(turn[c], log, Id(c))

-----------------------------------------------------------------------------
(* Appending events of one turn. *)

\* M is L with events of turn id behind it, of these types.
Extends(L, M, id, types) ==
  /\ L \in Seq(Event) /\ M \in Seq(Event) /\ types \in Seq(EventTypes)
  /\ Len(M) = Len(L) + Len(types)
  /\ \A i \in 1 .. Len(L) : M[i] = L[i]
  /\ \A i \in 1 .. Len(types) : M[Len(L) + i] = [type |-> types[i], id |-> id]

\* AppendFirst extends the log by the first k events.
LEMMA AppendExtends ==
  ASSUME NEW L \in Seq(Event), NEW types \in Seq(EventTypes), NEW k \in 0 .. Len(types),
         NEW id \in Sockets \X Nat, NEW M, M = L \o Events(SubSeq(types, 1, k), id)
  PROVE  Extends(L, M, id, SubSeq(types, 1, k))
<1> DEFINE s == SubSeq(types, 1, k)
<1>1. s \in Seq(EventTypes) /\ Len(s) = k /\ DOMAIN s = 1 .. k
  OBVIOUS
<1> HIDE DEF s
<1> DEFINE e == Events(s, id)
<1>2. /\ e \in Seq(Event) /\ Len(e) = k
      /\ \A i \in 1 .. k : e[i] = [type |-> s[i], id |-> id]
  <2>1. e = [i \in 1 .. k |-> [type |-> s[i], id |-> id]]
    BY <1>1 DEF Events
  <2>2. \A i \in 1 .. k : [type |-> s[i], id |-> id] \in Event
    BY <1>1 DEF Event
  <2> QED
    BY <2>1, <2>2
<1>3. M = L \o e
  BY DEF s
<1> HIDE DEF e
<1>4. M \in Seq(Event) /\ Len(M) = Len(L) + k
  <2>1. \A a, b \in Seq(Event) : a \o b \in Seq(Event) /\ Len(a \o b) = Len(a) + Len(b)
    OBVIOUS
  <2> QED
    BY <1>2, <1>3, <2>1
<1>5. \A i \in 1 .. Len(L) : M[i] = L[i]
  BY <1>2, <1>3
<1>6. \A i \in 1 .. k : M[Len(L) + i] = [type |-> s[i], id |-> id]
  BY <1>2, <1>3
<1>7. Extends(L, M, id, s)
  BY <1>1, <1>4, <1>5, <1>6 DEF Extends
<1> QED
  BY <1>7 DEF s

\* What an extension holds of any turn.
LEMMA InExtension ==
  ASSUME NEW L, NEW M, NEW id, NEW types, Extends(L, M, id, types)
  PROVE  /\ \A type, d : In(L, type, d) \subseteq In(M, type, d)
         /\ \A type, d : d # id => In(M, type, d) = In(L, type, d)
         /\ \A type : \A i \in In(M, type, id) :
              i \in In(L, type, id) \/ \E k \in 1 .. Len(types) : types[k] = type /\ i = Len(L) + k
         /\ \A k \in 1 .. Len(types) : Len(L) + k \in In(M, types[k], id)
<1>1. /\ L \in Seq(Event) /\ M \in Seq(Event) /\ types \in Seq(EventTypes)
      /\ Len(L) \in Nat /\ Len(types) \in Nat
      /\ DOMAIN L = 1 .. Len(L) /\ DOMAIN M = 1 .. Len(L) + Len(types)
  BY DEF Extends
<1>2. \A i \in DOMAIN M : i \notin DOMAIN L =>
        \E k \in 1 .. Len(types) : i = Len(L) + k /\ M[i] = [type |-> types[k], id |-> id]
  <2> SUFFICES ASSUME NEW i \in DOMAIN M, i \notin DOMAIN L
               PROVE  \E k \in 1 .. Len(types) :
                        i = Len(L) + k /\ M[i] = [type |-> types[k], id |-> id]
    OBVIOUS
  <2>1. i - Len(L) \in 1 .. Len(types) /\ i = Len(L) + (i - Len(L))
    BY <1>1
  <2> QED
    BY <2>1 DEF Extends
<1>3. \A i \in DOMAIN L : i \in DOMAIN M /\ M[i] = L[i]
  BY <1>1 DEF Extends
<1>4. \A type, d : In(L, type, d) \subseteq In(M, type, d)
  BY <1>3 DEF In
<1>5. \A type, d : d # id => In(M, type, d) = In(L, type, d)
  BY <1>2, <1>3 DEF In
<1>6. \A type : \A i \in In(M, type, id) :
        i \in In(L, type, id) \/ \E k \in 1 .. Len(types) : types[k] = type /\ i = Len(L) + k
  BY <1>2, <1>3 DEF In
<1>7. \A k \in 1 .. Len(types) : Len(L) + k \in In(M, types[k], id)
  <2> SUFFICES ASSUME NEW k \in 1 .. Len(types) PROVE Len(L) + k \in In(M, types[k], id)
    OBVIOUS
  <2>1. Len(L) + k \in DOMAIN M
    BY <1>1
  <2>2. M[Len(L) + k] = [type |-> types[k], id |-> id]
    BY DEF Extends
  <2> QED
    BY <2>1, <2>2 DEF In
<1> QED
  BY <1>4, <1>5, <1>6, <1>7

\* The same, one fact at a time.
LEMMA InKept ==
  ASSUME NEW L, NEW M, NEW id, NEW types, Extends(L, M, id, types),
         NEW type, NEW d
  PROVE  In(L, type, d) \subseteq In(M, type, d)
BY InExtension

\* The events of one turn are no events of another,
LEMMA InOthers ==
  ASSUME NEW L, NEW M, NEW id, NEW types, Extends(L, M, id, types),
         NEW type, NEW d, d # id
  PROVE  In(M, type, d) = In(L, type, d)
BY InExtension

\* those that are new are among the ones appended,
LEMMA InNew ==
  ASSUME NEW L, NEW M, NEW id, NEW types, Extends(L, M, id, types),
         NEW type, NEW i \in In(M, type, id), i \notin In(L, type, id)
  PROVE  \E k \in 1 .. Len(types) : types[k] = type /\ i = Len(L) + k
BY InExtension

\* and each one appended is there.
LEMMA InAdded ==
  ASSUME NEW L, NEW M, NEW id, NEW types, Extends(L, M, id, types),
         NEW k \in 1 .. Len(types)
  PROVE  Len(L) + k \in In(M, types[k], id)
BY InExtension

\* What a turn has heeded it still has, and before any later place.
LEMMA HeedsKept ==
  ASSUME NEW L, NEW M, NEW id, NEW types, Extends(L, M, id, types),
         NEW d, NEW i \in Nat, NEW j \in Nat, Heeds(L, d, i), i <= j
  PROVE  Heeds(M, d, j)
<1>1. In(L, "Candidate", d) \subseteq In(M, "Candidate", d)
      /\ In(L, "Transcript", d) \subseteq In(M, "Transcript", d)
  BY InKept
<1>2. DOMAIN L \subseteq Nat
  BY DEF Extends
<1> QED
  BY <1>1, <1>2 DEF Heeds, In

\* Without an examiner's turn among the new events the replies stay in order.
LEMMA StillOrdered ==
  ASSUME NEW L, NEW M, NEW id, NEW types, Extends(L, M, id, types),
         \A k \in 1 .. Len(types) : types[k] # "Examiner", Ordered(L)
  PROVE  /\ Ordered(M)
         /\ \A d : In(M, "Examiner", d) = In(L, "Examiner", d)
<1>1. ASSUME NEW d PROVE In(M, "Examiner", d) = In(L, "Examiner", d)
  <2>1. CASE d # id
    BY <2>1, InOthers
  <2>2. CASE d = id
    <3>1. In(L, "Examiner", id) \subseteq In(M, "Examiner", id)
      BY InKept
    <3>2. \A i \in In(M, "Examiner", id) : i \in In(L, "Examiner", id)
      BY InNew
    <3>3. In(M, "Examiner", id) = In(L, "Examiner", id)
      BY <3>1, <3>2
    <3> QED
      BY <2>2, <3>3
  <2> QED
    BY <2>1, <2>2
<1>2. ASSUME NEW d \in Sockets \X Nat, NEW i \in In(M, "Examiner", d), NEW j \in In(M, "Examiner", d)
      PROVE  i = j /\ Heeds(M, d, i)
  <2>1. i = j /\ Heeds(L, d, i) /\ i \in DOMAIN L
    <3>1. i \in In(L, "Examiner", d) /\ j \in In(L, "Examiner", d)
      BY <1>1, <1>2
    <3> QED
      BY <3>1 DEF Ordered, In
  <2>2. i \in Nat
    BY <2>1 DEF Extends
  <2> QED
    BY <2>1, <2>2, HeedsKept
<1> QED
  BY <1>1, <1>2 DEF Ordered

-----------------------------------------------------------------------------
(* One step of a socket. *)

ClientStates == [Sockets -> {"open", "switched", "gone"}]

\* A step that moves one turn to t and appends events of it keeps the invariant if
\* the turn agrees with the log again.
LEMMA StepOfTurn ==
  ASSUME IInv, NEW c \in Sockets, NEW t \in State, NEW types,
         turn[c].n <= t.n, turn' = [turn EXCEPT ![c] = t],
         Extends(log, log', <<c, t.n>>, types), Ordered(log'),
         client' \in ClientStates, pending' \in Nat,
         Stands(t, log', <<c, t.n>>)
  PROVE  IInv'
<1> DEFINE id == <<c, t.n>>
<1>1. id \in Sockets \X Nat /\ turn \in [Sockets -> State]
  BY DEF IInv, TypeOK, State
<1> HIDE DEF id
<1>2. /\ turn' \in [Sockets -> State] /\ turn'[c] = t
      /\ \A d \in Sockets \ {c} : turn'[d] = turn[d]
      /\ \A d \in Sockets : turn[d].n <= turn'[d].n /\ turn[d].n \in Nat /\ turn'[d].n \in Nat
  BY <1>1 DEF State
<1>3. Extends(log, log', id, types)
  BY DEF id
<1>4. TypeOK'
  BY <1>2, <1>3 DEF TypeOK, Extends, State, Event, ClientStates
<1>5. Begun'
  <2> SUFFICES ASSUME NEW type \in EventTypes, NEW d \in Sockets \X Nat, In(log', type, d) # {}
               PROVE  d[2] <= turn'[d[1]].n
    BY DEF Begun
  <2>1. CASE d = id
    BY <2>1, <1>2 DEF id
  <2>2. CASE d # id
    <3>1. In(log, type, d) # {}
      BY <2>2, <1>1, <1>3, InOthers
    <3> QED
      BY <3>1, <1>2 DEF IInv, Begun
  <2> QED
    BY <2>1, <2>2
<1>6. ASSUME NEW d \in Sockets PROVE Stands(turn'[d], log', <<d, turn'[d].n>>)
  <2>1. CASE d = c
    BY <2>1, <1>2
  <2>2. CASE d # c
    <3>1. /\ turn'[d] = turn[d] /\ Id(d) = <<d, turn'[d].n>> /\ Id(d) # id
          /\ Stands(turn[d], log, Id(d))
      BY <2>2, <1>2 DEF Id, id, IInv
    <3>2. In(log', "Examiner", Id(d)) = In(log, "Examiner", Id(d))
      BY <3>1, <1>1, <1>3, InOthers
    <3>3. Len(log) \in Nat /\ Len(log') \in Nat /\ Len(log) <= Len(log')
      BY <1>3 DEF Extends
    <3>4. Heeds(log, Id(d), Len(log) + 1) => Heeds(log', Id(d), Len(log') + 1)
      BY <3>3, <1>1, <1>3, HeedsKept
    <3> QED
      BY <3>1, <3>2, <3>4 DEF Stands
  <2> QED
    BY <2>1, <2>2
<1> QED
  BY <1>4, <1>5, <1>6 DEF IInv, Id

\* A step that appends nothing.
LEMMA SilentStep ==
  ASSUME IInv, NEW c \in Sockets, NEW t \in State,
         t.n = turn[c].n, turn' = [turn EXCEPT ![c] = t], log' = log,
         client' \in ClientStates, pending' \in Nat,
         Stands(t, log, Id(c))
  PROVE  IInv'
<1>1. log \in Seq(Event) /\ turn[c].n \in Nat
  BY DEF IInv, TypeOK, Event
<1>2. Extends(log, log', <<c, t.n>>, <<>>)
  BY <1>1 DEF Extends
<1>3. Stands(t, log', <<c, t.n>>) /\ Ordered(log')
  BY DEF IInv, Id
<1>4. turn[c].n <= t.n
  BY <1>1
<1> QED
  BY <1>2, <1>3, <1>4, StepOfTurn

\* What each turn is, and where its events are.
LEMMA Known ==
  ASSUME IInv, NEW c \in Sockets
  PROVE  /\ turn[c] \in State /\ turn \in [Sockets -> State]
         /\ Id(c) \in Sockets \X Nat /\ Id(c) = <<c, turn[c].n>>
         /\ log \in Seq(Event) /\ client \in ClientStates /\ pending \in Nat
         /\ Stands(turn[c], log, Id(c)) /\ Ordered(log)
BY DEF IInv, TypeOK, State, Event, ClientStates, Id

\* The stage is one of the case's.
LEMMA StageInCase ==
  ASSUME IInv PROVE CurrentStage \in 0 .. Stages - 1
<1>1. log \in Seq(Event)
  BY DEF IInv, TypeOK, Event
<1>2. IsFiniteSet(1 .. Len(log))
  BY <1>1, FS_Interval
<1>3. Positions("Examiner") \subseteq 1 .. Len(log)
  BY <1>1 DEF Positions
<1>4. Cardinality(Positions("Examiner")) \in Nat
  BY <1>2, <1>3, FS_Subset, FS_CardinalityType
<1> QED
  BY <1>4, StagesAssumption DEF CurrentStage

-----------------------------------------------------------------------------
(* What is appended. *)

\* A sequence with one examiner's turn, at place x, has it there with others behind.
LEMMA ExaminerStays ==
  ASSUME NEW a \in Seq(EventTypes), NEW b \in Seq(EventTypes), NEW x \in 1 .. Len(a),
         \A i \in 1 .. Len(a) : a[i] = "Examiner" <=> i = x,
         \A i \in 1 .. Len(b) : b[i] # "Examiner"
  PROVE  /\ a \o b \in Seq(EventTypes)
         /\ x \in 1 .. Len(a \o b)
         /\ \A i \in 1 .. Len(a \o b) : (a \o b)[i] = "Examiner" <=> i = x
<1>1. /\ a \o b \in Seq(EventTypes) /\ Len(a \o b) = Len(a) + Len(b)
      /\ Len(a) \in Nat /\ Len(b) \in Nat
      /\ \A i \in 1 .. Len(a) + Len(b) :
           (a \o b)[i] = IF i <= Len(a) THEN a[i] ELSE b[i - Len(a)]
  OBVIOUS
<1>2. \A i \in 1 .. Len(a) + Len(b) : i > Len(a) => i - Len(a) \in 1 .. Len(b)
  BY <1>1
<1> QED
  BY <1>1, <1>2

\* The finally of the generator appends one examiner's turn.
LEMMA RecordedShape ==
  ASSUME NEW c, pending \in Nat
  PROVE  /\ Recorded(c) \in Seq(EventTypes)
         /\ pending + 1 \in 1 .. Len(Recorded(c))
         /\ \A i \in 1 .. Len(Recorded(c)) : Recorded(c)[i] = "Examiner" <=> i = pending + 1
<1> DEFINE f == [i \in 1 .. pending |-> "TierFallback"]
           e == <<"Examiner", "Text">>
           a == IF turn[c].audio > 0 THEN <<"Audio">> ELSE <<>>
           s == <<"Latency", "Authenticity">>
           Good(q) == /\ q \in Seq(EventTypes) /\ pending + 1 \in 1 .. Len(q)
                      /\ \A i \in 1 .. Len(q) : q[i] = "Examiner" <=> i = pending + 1
<1>1. /\ f \in Seq(EventTypes) /\ Len(f) = pending
      /\ \A i \in 1 .. pending : f[i] = "TierFallback"
  BY DEF EventTypes
<1>2. e \in Seq(EventTypes) /\ Len(e) = 2 /\ e[1] = "Examiner" /\ e[2] = "Text"
  BY DEF EventTypes
<1>3. a \in Seq(EventTypes) /\ \A i \in 1 .. Len(a) : a[i] # "Examiner"
  <2>1. /\ <<"Audio">> \in Seq(EventTypes) /\ Len(<<"Audio">>) = 1 /\ <<"Audio">>[1] = "Audio"
        /\ <<>> \in Seq(EventTypes) /\ Len(<<>>) = 0
    BY DEF EventTypes
  <2>2. a = <<"Audio">> \/ a = <<>>
    OBVIOUS
  <2> QED
    BY <2>1, <2>2
<1>4. s \in Seq(EventTypes) /\ \A i \in 1 .. Len(s) : s[i] # "Examiner"
  BY DEF EventTypes
<1>5. Recorded(c) = ((f \o e) \o a) \o s
  BY DEF Recorded
<1> HIDE DEF f, e, a, s
<1>6. Good(f \o e)
  <2>1. /\ f \o e \in Seq(EventTypes) /\ Len(f \o e) = pending + 2
        /\ \A i \in 1 .. pending + 2 : (f \o e)[i] = IF i <= pending THEN f[i] ELSE e[i - pending]
    <3>1. \A p, q \in Seq(EventTypes) :
            /\ p \o q \in Seq(EventTypes) /\ Len(p \o q) = Len(p) + Len(q)
            /\ \A i \in 1 .. Len(p) + Len(q) :
                 (p \o q)[i] = IF i <= Len(p) THEN p[i] ELSE q[i - Len(p)]
      OBVIOUS
    <3>2. /\ f \o e \in Seq(EventTypes) /\ Len(f \o e) = Len(f) + Len(e)
          /\ \A i \in 1 .. Len(f) + Len(e) :
               (f \o e)[i] = IF i <= Len(f) THEN f[i] ELSE e[i - Len(f)]
      BY <1>1, <1>2, <3>1
    <3> QED
      BY <1>1, <1>2, <3>2
  <2>2. \A i \in 1 .. pending + 2 : i <= pending \/ i = pending + 1 \/ i = pending + 2
    OBVIOUS
  <2> QED
    BY <1>1, <1>2, <2>1, <2>2
<1>7. Good((f \o e) \o a)
  BY <1>3, <1>6, ExaminerStays
<1>8. Good(((f \o e) \o a) \o s)
  BY <1>4, <1>7, ExaminerStays
<1> QED
  BY <1>5, <1>8

\* What was heard: the candidate's turn before its transcript, and no examiner.
LEMMA HeardShape ==
  ASSUME NEW words
  PROVE  /\ Heard(words) \in Seq(EventTypes)
         /\ Len(Heard(words)) >= 3
         /\ Heard(words)[2] = "Candidate" /\ Heard(words)[3] = "Transcript"
         /\ \A i \in 1 .. Len(Heard(words)) : Heard(words)[i] # "Examiner"
<1>1. CASE words
  BY <1>1 DEF Heard, EventTypes
<1>2. CASE ~ words
  BY <1>2 DEF Heard, EventTypes
<1> QED
  BY <1>1, <1>2

-----------------------------------------------------------------------------
(* Each step of a socket. *)

\* A turn with one part changed.
LEMMA Changed ==
  ASSUME NEW u \in State, NEW x \in Steps, NEW b \in BOOLEAN, NEW s \in 0 .. Stages - 1,
         NEW m \in 0 .. MaxChunks, NEW code \in {"none", "normal", "error"}
  PROVE  /\ [u EXCEPT !.at = x] \in State /\ [u EXCEPT !.shown = b] \in State
         /\ [u EXCEPT !.lost = b] \in State /\ [u EXCEPT !.cancelled = b] \in State
         /\ [u EXCEPT !.stage = s] \in State /\ [u EXCEPT !.audio = m] \in State
         /\ [u EXCEPT !.bye = code] \in State
BY DEF State

\* What a turn keeps of itself when it goes on to x, and when it loses an event.
LEMMA GoesOn ==
  ASSUME NEW u \in State, NEW x \in Steps
  PROVE  LET v == [u EXCEPT !.at = x]
         IN v \in State /\ v.n = u.n /\ v.at = x /\ v.shown = u.shown /\ v.lost = u.lost
BY DEF State

\* A turn that loses its append shows what it has shown before.
LEMMA Loses ==
  ASSUME NEW u \in State, NEW x \in Steps
  PROVE  LET v == [u EXCEPT !.at = x, !.lost = TRUE]
         IN v \in State /\ v.n = u.n /\ v.at = x /\ v.shown = u.shown /\ v.lost
<1> DEFINE v == [u EXCEPT !.at = x, !.lost = TRUE]
<1>1. v.n = u.n /\ v.at = x /\ v.shown = u.shown /\ v.lost
  BY DEF State
<1>2. v = [[u EXCEPT !.at = x] EXCEPT !.lost = TRUE]
  BY DEF State
<1>3. v \in State
  <2> DEFINE w == [u EXCEPT !.at = x]
  <2>1. w \in State
    BY DEF State
  <2> HIDE DEF w
  <2>2. \A b \in BOOLEAN : [w EXCEPT !.lost = b] \in State
    BY <2>1 DEF State
  <2> QED
    BY <1>2, <2>2 DEF w
<1> QED
  BY <1>1, <1>3

\* The turn a socket begins with.
LEMMA Begins ==
  ASSUME NEW n \in Nat, NEW s \in 0 .. Stages - 1
  PROVE  LET v == [Idle(n) EXCEPT !.stage = s]
         IN v \in State /\ v.n = n /\ ~ v.shown
<1>1. Idle(n) \in State /\ Idle(n).n = n /\ ~ Idle(n).shown
  BY StagesAssumption, BoundsAssumption DEF Idle, State, Steps
<1> QED
  BY <1>1 DEF State

\* The socket is accepted: nothing of the new turn is in the log yet.
LEMMA ConnectStep ==
  ASSUME IInv, NEW c \in Sockets, Connect(c) PROVE IInv'
<1> DEFINE n == turn[c].n + 1
           speech == <<"SpeechStarted">>
           u == [Idle(n) EXCEPT !.stage = CurrentStage]
<1>1. n \in Nat /\ turn[c].n <= n /\ log \in Seq(Event) /\ <<c, n>> \in Sockets \X Nat
  BY Known DEF State
<1>2. u \in State /\ u.n = n /\ ~ u.shown
  BY <1>1, StageInCase, Begins
<1>3. {"listening", "failing"} \subseteq Steps
  BY DEF Steps
<1> DEFINE Spoken(k, t) ==
             /\ log' = log \o Events(SubSeq(speech, 1, k), <<c, n>>)
             /\ turn' = [turn EXCEPT ![c] = t]
             /\ t.n = n /\ ~ t.shown /\ t.at \in {"listening", "failing"}
           heard == [u EXCEPT !.at = "listening"]
           refused == [u EXCEPT !.at = "failing", !.lost = TRUE]
<1>4. PICK k \in 0 .. 1, t \in State : Spoken(k, t)
  <2>1. \/ AppendFirst(speech, 1, <<c, u.n>>) /\ turn' = [turn EXCEPT ![c] = heard]
        \/ AppendFirst(speech, 0, <<c, u.n>>) /\ turn' = [turn EXCEPT ![c] = refused]
    BY DEF Connect
  <2> HIDE DEF u
  <2>2. /\ heard \in State /\ heard.n = n /\ ~ heard.shown /\ heard.at = "listening"
        /\ refused \in State /\ refused.n = n /\ ~ refused.shown /\ refused.at = "failing"
    <3>1. heard \in State /\ heard.n = u.n /\ heard.shown = u.shown /\ heard.at = "listening"
      BY <1>2, <1>3, GoesOn
    <3>2. /\ refused \in State /\ refused.n = u.n /\ refused.shown = u.shown
          /\ refused.at = "failing"
      BY <1>2, <1>3, Loses
    <3> HIDE DEF heard, refused
    <3> QED
      BY <1>2, <3>1, <3>2
  <2> HIDE DEF heard, refused
  <2>3. CASE AppendFirst(speech, 1, <<c, u.n>>) /\ turn' = [turn EXCEPT ![c] = heard]
    <3>1. Spoken(1, heard)
      BY <1>2, <2>2, <2>3 DEF AppendFirst
    <3> HIDE DEF Spoken
    <3> QED
      BY <2>2, <3>1
  <2>4. CASE AppendFirst(speech, 0, <<c, u.n>>) /\ turn' = [turn EXCEPT ![c] = refused]
    <3>1. Spoken(0, refused)
      BY <1>2, <2>2, <2>4 DEF AppendFirst
    <3> HIDE DEF Spoken
    <3> QED
      BY <2>2, <3>1
  <2> QED
    BY <2>1, <2>3, <2>4
<1>5. client' \in ClientStates /\ pending' \in Nat
  BY Known DEF Connect, ClientStates
<1> DEFINE types == SubSeq(speech, 1, k)
<1>6. /\ speech \in Seq(EventTypes) /\ Len(speech) = 1 /\ Len(types) = k
      /\ \A i \in 1 .. k : types[i] = "SpeechStarted"
  BY DEF EventTypes
<1>7. Extends(log, log', <<c, n>>, types)
  BY <1>1, <1>4, <1>6, AppendExtends
<1>8. In(log, "Examiner", <<c, n>>) = {}
  <2>1. "Examiner" \in EventTypes /\ ~ (n <= turn[c].n)
    BY <1>1, Known DEF EventTypes, State
  <2> QED
    BY <1>1, <2>1 DEF IInv, Begun
<1>9. Ordered(log') /\ In(log', "Examiner", <<c, n>>) = {}
  <2>1. Ordered(log)
    BY DEF IInv
  <2>2. \A i \in 1 .. Len(types) : types[i] # "Examiner"
    BY <1>6
  <2> HIDE DEF types, n
  <2> QED
    BY <1>7, <1>8, <2>1, <2>2, StillOrdered
<1> HIDE DEF types, n
<1>10. Stands(t, log', <<c, n>>)
  BY <1>4, <1>9 DEF Stands, Speaking, Recording
<1> QED
  BY <1>1, <1>4, <1>5, <1>7, <1>9, <1>10, StepOfTurn

\* The client does something: no turn goes on.
LEMMA ClientStep ==
  ASSUME IInv, NEW c \in Sockets, SwitchToText(c) \/ Disconnect(c) PROVE IInv'
<1>0. /\ turn[c] \in State /\ turn \in [Sockets -> State] /\ pending \in Nat
      /\ Stands(turn[c], log, Id(c))
  BY Known
<1>1. log' = log /\ pending' \in Nat /\ client' \in ClientStates
  BY Known DEF SwitchToText, Disconnect, Client, ClientStates
<1>2. CASE Disconnect(c)
  <2>1. turn' = [turn EXCEPT ![c] = turn[c]]
    BY <1>0, <1>2 DEF Disconnect
  <2> QED
    BY <1>0, <1>1, <2>1, SilentStep
<1>3. CASE SwitchToText(c)
  <2> DEFINE t == [turn[c] EXCEPT !.cancelled = (turn[c].at = "listening")]
  <2>1. turn' = [turn EXCEPT ![c] = t]
    BY <1>3 DEF SwitchToText
  <2>2. /\ t \in State
        /\ t.n = turn[c].n /\ t.at = turn[c].at /\ t.shown = turn[c].shown /\ t.lost = turn[c].lost
    <3>1. \A b \in BOOLEAN : LET v == [turn[c] EXCEPT !.cancelled = b] IN
            v \in State /\ v.n = turn[c].n /\ v.at = turn[c].at /\ v.shown = turn[c].shown
              /\ v.lost = turn[c].lost
      BY <1>0 DEF State
    <3>2. (turn[c].at = "listening") \in BOOLEAN
      OBVIOUS
    <3> QED
      BY <3>1, <3>2
  <2>3. Stands(t, log, Id(c))
    BY <1>0, <2>2 DEF Stands
  <2> QED
    BY <1>1, <2>1, <2>2, <2>3, SilentStep
<1> QED
  BY <1>2, <1>3

\* How a turn may go on without an append and without being shown.
Moves(from, to) ==
  \/ from = to
  \/ from \in Speaking /\ to \in Speaking \cup Recording
  \/ from \in {"listening", "reply"} /\ to = "failing"
  \/ from \in {"goodbye", "failing"} /\ to \in {"failing", "closed"}

\* A turn that goes on without showing anything new agrees with the log as before.
LEMMA StandsAgain ==
  ASSUME NEW u, NEW v, NEW L, NEW id, Stands(u, L, id), Moves(u.at, v.at),
         v.shown = u.shown, v.lost = u.lost
  PROVE  Stands(v, L, id)
<1>1. CASE u.at = v.at
  BY <1>1 DEF Stands
<1>2. CASE u.at \in Speaking /\ v.at \in Speaking \cup Recording
  BY <1>2 DEF Stands, Speaking, Recording
<1>3. CASE u.at \in {"listening", "reply"} /\ v.at = "failing"
  BY <1>3 DEF Stands, Speaking, Recording
<1>4. CASE u.at \in {"goodbye", "failing"} /\ v.at \in {"failing", "closed"}
  BY <1>4 DEF Stands, Speaking, Recording
<1> QED
  BY <1>1, <1>2, <1>3, <1>4 DEF Moves

\* The steps at a turn's places that append nothing.
LEMMA SilentSteps ==
  ASSUME IInv, NEW c \in Sockets,
         \/ RecognitionFails(c) \/ SendReply(c) \/ SpeakChunk(c) \/ FallBack(c)
         \/ SynthesisFails(c) \/ SpeechEnds(c) \/ SayGoodbye(c) \/ Fail(c)
  PROVE  IInv'
<1> DEFINE u == turn[c]
<1>1. /\ u \in State /\ turn \in [Sockets -> State] /\ client \in ClientStates
      /\ pending \in Nat /\ Stands(u, log, Id(c))
  BY Known
<1>2. /\ {"failing", "speaking", "speaking again", "abandoned", "record", "record, then fail",
          "closed"} \subseteq Steps
      /\ Speaking = {"speaking", "speaking again"}
      /\ Recording = {"record", "record, then fail", "abandoned"}
  BY DEF Steps, Speaking, Recording
<1> HIDE DEF u
\* What is to be shown of the turn v that c goes on with.
<1> DEFINE Fits(v) == /\ turn' = [turn EXCEPT ![c] = v] /\ log' = log
                      /\ client' \in ClientStates /\ pending' \in Nat
                      /\ v \in State /\ v.n = u.n /\ Stands(v, log, Id(c))
<1>3. ASSUME NEW v, Fits(v) PROVE IInv'
  BY <1>3, SilentStep DEF u
<1>4. ASSUME NEW x \in Steps, Goto(c, x), log' = log, client' \in ClientStates, pending' \in Nat,
             Moves(u.at, x)
      PROVE  IInv'
  <2> DEFINE v == [u EXCEPT !.at = x]
  <2>1. v \in State /\ v.n = u.n /\ v.at = x /\ v.shown = u.shown /\ v.lost = u.lost
    BY <1>1, GoesOn
  <2>2. turn' = [turn EXCEPT ![c] = v]
    BY <1>4 DEF Goto, u
  <2> HIDE DEF v
  <2>3. Stands(v, log, Id(c))
    BY <1>1, <1>4, <2>1, StandsAgain
  <2>4. Fits(v)
    BY <1>4, <2>1, <2>2, <2>3
  <2> QED
    BY <2>4, <1>3
<1>5. CASE RecognitionFails(c)
  <2>1. Goto(c, "failing") /\ u.at = "listening" /\ UNCHANGED <<log, client, pending>>
    BY <1>5 DEF RecognitionFails, u
  <2> QED
    BY <1>1, <1>2, <1>4, <2>1 DEF Moves
<1>6. CASE FallBack(c)
  <2>1. Goto(c, "speaking again") /\ u.at = "speaking" /\ pending' = pending + 1
        /\ UNCHANGED <<log, client>>
    BY <1>6 DEF FallBack, PrimaryGivesUp, u
  <2>2. Moves(u.at, "speaking again")
    BY <1>2, <2>1 DEF Moves
  <2>3. pending' \in Nat
    <3>1. pending' = pending + 1 /\ pending \in Nat
      BY <1>1, <2>1
    <3> QED
      BY <3>1
  <2> QED
    BY <1>1, <1>2, <1>4, <2>1, <2>2, <2>3
<1>7. CASE SynthesisFails(c)
  <2>1. Goto(c, "record, then fail") /\ u.at \in Speaking /\ UNCHANGED <<log, client, pending>>
    BY <1>7 DEF SynthesisFails, u
  <2> QED
    BY <1>1, <1>2, <1>4, <2>1 DEF Moves
<1>8. CASE SpeechEnds(c)
  <2>1. Goto(c, "record") /\ u.at \in Speaking /\ UNCHANGED <<log, client, pending>>
    BY <1>8 DEF SpeechEnds, u
  <2> QED
    BY <1>1, <1>2, <1>4, <2>1 DEF Moves
<1>9. CASE SendReply(c)
  <2>1. CASE Goto(c, "failing")
    <3>1. u.at = "reply" /\ UNCHANGED <<log, client, pending>>
      BY <1>9 DEF SendReply, u
    <3> QED
      BY <1>1, <1>2, <1>4, <2>1, <3>1 DEF Moves
  <2>2. CASE turn' = [turn EXCEPT ![c].at = "speaking", ![c].shown = TRUE]
    <3> DEFINE v == [u EXCEPT !.at = "speaking", !.shown = TRUE]
    <3>1. v.n = u.n /\ v.at = "speaking" /\ v.shown /\ v.lost = u.lost
      BY <1>1 DEF State
    <3>2. v \in State
      <4>1. v = [[u EXCEPT !.at = "speaking"] EXCEPT !.shown = TRUE]
        BY <1>1 DEF State
      <4> DEFINE w == [u EXCEPT !.at = "speaking"]
      <4>2. w \in State
        BY <1>1, <1>2, GoesOn
      <4> HIDE DEF w
      <4>3. \A b \in BOOLEAN : [w EXCEPT !.shown = b] \in State
        BY <4>2 DEF State
      <4> QED
        BY <4>1, <4>3 DEF w
    <3>3. u.at = "reply"
      BY <1>9 DEF SendReply, u
    <3>4. turn' = [turn EXCEPT ![c] = v]
      BY <2>2 DEF u
    <3> HIDE DEF v
    <3>5. Stands(v, log, Id(c))
      BY <1>1, <1>2, <3>1, <3>3 DEF Stands
    <3>6. Fits(v)
      BY <1>1, <1>9, <3>1, <3>2, <3>4, <3>5 DEF SendReply
    <3> QED
      BY <3>6, <1>3
  <2> QED
    BY <1>9, <2>1, <2>2 DEF SendReply
<1>10. CASE SpeakChunk(c)
  <2> DEFINE m == u.audio + 1
  <2>1. m \in 0 .. MaxChunks
    BY <1>1, <1>10, BoundsAssumption DEF SpeakChunk, State, u
  <2>2. u.at \in Speaking
    BY <1>10 DEF SpeakChunk, u
  <2>3. client' \in ClientStates /\ pending' \in Nat /\ log' = log
    BY <1>1, <1>10 DEF SpeakChunk, ClientStates
  <2> DEFINE w == [u EXCEPT !.audio = m]
             v == [w EXCEPT !.at = "abandoned"]
  <2>4. w \in State /\ w.n = u.n /\ w.at = u.at /\ w.shown = u.shown /\ w.lost = u.lost
    BY <1>1, <2>1 DEF State
  <2>5. /\ v = [u EXCEPT !.audio = m, !.at = "abandoned"]
        /\ v \in State /\ v.n = u.n /\ v.at = "abandoned" /\ v.shown = u.shown
    <3>1. v = [u EXCEPT !.audio = m, !.at = "abandoned"]
      BY <1>1 DEF State
    <3> HIDE DEF w
    <3>2. v \in State /\ v.n = u.n /\ v.at = "abandoned" /\ v.shown = u.shown
      BY <1>2, <2>4, GoesOn
    <3> QED
      BY <3>1, <3>2
  <2>6. turn' = [turn EXCEPT ![c] = w] \/ turn' = [turn EXCEPT ![c] = v]
    BY <1>10, <2>5 DEF SpeakChunk, u
  <2> HIDE DEF w, v
  <2>7. Stands(w, log, Id(c)) /\ Stands(v, log, Id(c))
    BY <1>1, <1>2, <2>2, <2>4, <2>5 DEF Stands
  <2>8. Fits(w) \/ Fits(v)
    BY <2>3, <2>4, <2>5, <2>6, <2>7
  <2> QED
    BY <2>8, <1>3
\* The socket is closed with a code.
<1>11. ASSUME NEW code \in {"normal", "error"}, Close(c, code), u.at \in {"goodbye", "failing"}
       PROVE  IInv'
  <2> DEFINE w == [u EXCEPT !.at = "closed"]
             v == [w EXCEPT !.bye = code]
  <2>1. w \in State /\ w.n = u.n /\ w.at = "closed" /\ w.shown = u.shown /\ w.lost = u.lost
    <3>1. "closed" \in Steps
      BY DEF Steps
    <3> QED
      BY <1>1, <3>1, GoesOn
  <2>2. v = [u EXCEPT !.at = "closed", !.bye = code]
    BY <1>1 DEF State
  <2>3. turn' = [turn EXCEPT ![c] = v]
    <3>1. turn' = [turn EXCEPT ![c] = [u EXCEPT !.at = "closed", !.bye = code]]
      BY <1>11 DEF Close, u
    <3> HIDE DEF v
    <3> QED
      BY <2>2, <3>1
  <2>4. log' = log /\ client' \in ClientStates /\ pending' \in Nat
    BY <1>1, <1>11 DEF Close, ClientStates
  <2> HIDE DEF w
  <2>5. v \in State /\ v.n = u.n /\ v.at = "closed" /\ v.shown = u.shown /\ v.lost = u.lost
    BY <2>1 DEF State
  <2> HIDE DEF v
  <2>6. Stands(v, log, Id(c))
    BY <1>1, <1>11, <2>5, StandsAgain DEF Moves
  <2>7. Fits(v)
    BY <2>3, <2>4, <2>5, <2>6
  <2> QED
    BY <2>7, <1>3
<1>12. CASE Fail(c)
  BY <1>11, <1>12 DEF Fail, u
<1>13. CASE SayGoodbye(c)
  <2>1. CASE Close(c, "normal")
    BY <1>11, <1>13, <2>1 DEF SayGoodbye, u
  <2>2. CASE Goto(c, "failing") /\ UNCHANGED <<log, client, pending>>
    <3>1. u.at = "goodbye"
      BY <1>13 DEF SayGoodbye, u
    <3> QED
      BY <1>1, <1>2, <1>4, <2>2, <3>1 DEF Moves
  <2> QED
    BY <1>13, <2>1, <2>2 DEF SayGoodbye
<1> QED
  BY <1>5, <1>6, <1>7, <1>8, <1>9, <1>10, <1>12, <1>13

\* What was heard is recorded: the reply that may follow has what it replies to.
LEMMA ListenStep ==
  ASSUME IInv, NEW c \in Sockets, Listen(c) PROVE IInv'
<1> DEFINE u == turn[c]
           id == Id(c)
<1>1. /\ u \in State /\ log \in Seq(Event) /\ client' \in ClientStates /\ pending' \in Nat
      /\ id \in Sockets \X Nat /\ id = <<c, u.n>> /\ Stands(u, log, id) /\ Ordered(log)
      /\ u.n \in Nat
  BY Known DEF Listen, ClientStates, State
<1>w. PICK words \in Words : \E k \in 0 .. Len(Heard(words)) :
        /\ AppendFirst(Heard(words), k, id)
        /\ \/ k = Len(Heard(words)) /\ Goto(c, "reply")
           \/ k = Len(Heard(words)) /\ Goto(c, "failing")
           \/ k < Len(Heard(words)) /\ turn' = [turn EXCEPT ![c].at = "failing", ![c].lost = TRUE]
  BY DEF Listen
<1>2. PICK k \in 0 .. Len(Heard(words)) :
        /\ AppendFirst(Heard(words), k, id)
        /\ \/ k = Len(Heard(words)) /\ Goto(c, "reply")
           \/ k = Len(Heard(words)) /\ Goto(c, "failing")
           \/ k < Len(Heard(words)) /\ turn' = [turn EXCEPT ![c].at = "failing", ![c].lost = TRUE]
  BY <1>w
<1> DEFINE all == Heard(words)
           types == SubSeq(all, 1, k)
<1>3. u.at = "listening" /\ {"reply", "failing"} \subseteq Steps
  BY DEF Listen, Steps
<1>4. /\ all \in Seq(EventTypes) /\ Len(all) >= 3 /\ Len(all) \in Nat
      /\ all[2] = "Candidate" /\ all[3] = "Transcript"
      /\ \A i \in 1 .. Len(all) : all[i] # "Examiner"
  BY HeardShape
<1>5. Extends(log, log', id, types)
  <2>1. log' = log \o Events(SubSeq(all, 1, k), id) /\ k \in 0 .. Len(all)
    BY <1>2 DEF AppendFirst
  <2>2. log \in Seq(Event) /\ id \in Sockets \X Nat /\ all \in Seq(EventTypes)
    BY <1>1, <1>4
  <2> HIDE DEF all, id
  <2> QED
    BY <2>1, <2>2, AppendExtends
<1> HIDE DEF u, id, all
<1>6. Len(types) = k /\ \A i \in 1 .. k : types[i] = all[i]
  BY <1>2, <1>4 DEF all
<1> HIDE DEF types
<1>7. Ordered(log') /\ In(log', "Examiner", id) = {}
  <2>1. \A i \in 1 .. Len(types) : types[i] # "Examiner"
    BY <1>2, <1>4, <1>6 DEF all
  <2>2. In(log, "Examiner", id) = {}
    BY <1>1, <1>3 DEF Stands
  <2>3. Ordered(log)
    BY <1>1
  <2>4. Ordered(log') /\ In(log', "Examiner", id) = In(log, "Examiner", id)
    BY <1>5, <2>1, <2>3, StillOrdered
  <2> QED
    BY <2>2, <2>4
<1>8. ASSUME NEW v \in State, turn' = [turn EXCEPT ![c] = v], v.n = u.n, Stands(v, log', id)
      PROVE  IInv'
  <2>1. id = <<c, v.n>> /\ turn[c].n <= v.n
    BY <1>1, <1>8 DEF u
  <2>2. Extends(log, log', <<c, v.n>>, types) /\ Stands(v, log', <<c, v.n>>)
    BY <1>5, <1>8, <2>1
  <2> QED
    BY <1>1, <1>7, <1>8, <2>1, <2>2, StepOfTurn
<1>9. ~ u.shown
  BY <1>1, <1>3 DEF Stands
<1>10. CASE k = Len(all) /\ Goto(c, "reply")
  <2> DEFINE v == [u EXCEPT !.at = "reply"]
  <2>1. v \in State /\ v.n = u.n /\ v.at = "reply" /\ v.shown = u.shown
    BY <1>1, <1>3, GoesOn
  <2>2. turn' = [turn EXCEPT ![c] = v]
    BY <1>10 DEF Goto, u
  <2> HIDE DEF v
  <2>3. Heeds(log', id, Len(log') + 1)
    <3>1. 2 \in 1 .. Len(types) /\ 3 \in 1 .. Len(types) /\ Len(log) \in Nat
      BY <1>1, <1>4, <1>6, <1>10 DEF all
    <3>2. Len(log) + 2 \in In(log', "Candidate", id) /\ Len(log) + 3 \in In(log', "Transcript", id)
      BY <1>4, <1>5, <1>6, <3>1, InAdded
    <3>3. Len(log) + 2 < Len(log) + 3 /\ Len(log) + 3 < Len(log') + 1
      BY <1>5, <3>1 DEF Extends
    <3> QED
      BY <3>2, <3>3 DEF Heeds
  <2>4. Stands(v, log', id)
    BY <1>7, <1>9, <2>1, <2>3 DEF Stands, Speaking, Recording
  <2> QED
    BY <1>8, <2>1, <2>2, <2>4
<1>11. ASSUME NEW v \in State, turn' = [turn EXCEPT ![c] = v], v.n = u.n,
              v.at = "failing", v.shown = u.shown
       PROVE  IInv'
  <2>1. Stands(v, log', id)
    BY <1>7, <1>9, <1>11 DEF Stands, Speaking, Recording
  <2> QED
    BY <1>8, <1>11, <2>1
<1>12. CASE Goto(c, "failing")
  <2> DEFINE v == [u EXCEPT !.at = "failing"]
  <2>1. v \in State /\ v.n = u.n /\ v.at = "failing" /\ v.shown = u.shown
    BY <1>1, <1>3, GoesOn
  <2>2. turn' = [turn EXCEPT ![c] = v]
    BY <1>12 DEF Goto, u
  <2> HIDE DEF v
  <2> QED
    BY <1>11, <2>1, <2>2
<1>13. CASE turn' = [turn EXCEPT ![c].at = "failing", ![c].lost = TRUE]
  <2> DEFINE v == [u EXCEPT !.at = "failing", !.lost = TRUE]
  <2>1. v \in State /\ v.n = u.n /\ v.at = "failing" /\ v.shown = u.shown
    BY <1>1, <1>3, Loses
  <2>2. turn' = [turn EXCEPT ![c] = v]
    BY <1>13 DEF u
  <2> HIDE DEF v
  <2> QED
    BY <1>11, <2>1, <2>2
<1> QED
  BY <1>2, <1>10, <1>12, <1>13 DEF all

\* The finally of the generator: the reply that was shown is recorded, or lost.
LEMMA RecordStep ==
  ASSUME IInv, NEW c \in Sockets, Record(c) PROVE IInv'
<1> DEFINE u == turn[c]
           id == Id(c)
           all == Recorded(c)
           e == pending + 1
           lost(x) == [u EXCEPT !.at = x, !.lost = TRUE]
           kept(x) == [u EXCEPT !.at = x]
           over == IF u.at = "abandoned" THEN "closed" ELSE "failing"
<1>1. /\ u \in State /\ log \in Seq(Event) /\ client' \in ClientStates /\ pending' \in Nat
      /\ id \in Sockets \X Nat /\ id = <<c, u.n>> /\ Stands(u, log, id) /\ Ordered(log)
      /\ u.n \in Nat /\ e \in Nat \ {0} /\ Len(log) \in Nat
  BY Known DEF Record, ClientStates, State
<1>2. PICK k \in 0 .. Len(all) :
        /\ log' = log \o Events(SubSeq(all, 1, k), id)
        /\ \/ k = Len(all) /\ turn' = [turn EXCEPT ![c] = kept(AfterRecord(u.at))]
           \/ k < Len(all) /\ turn' = [turn EXCEPT ![c] = lost(over)]
  BY DEF Record, AppendFirst, Goto
<1>3. u.at \in Recording
  BY DEF Record
<1>4. /\ all \in Seq(EventTypes) /\ e \in 1 .. Len(all)
      /\ \A i \in 1 .. Len(all) : all[i] = "Examiner" <=> i = e
  BY Known, RecordedShape
<1>5. /\ AfterRecord(u.at) \in {"goodbye", "failing", "closed"} /\ over \in {"failing", "closed"}
      /\ {"goodbye", "failing", "closed"} \subseteq Steps
  BY <1>3 DEF AfterRecord, Recording, Steps
<1> HIDE DEF u, id, all, e, over
<1> DEFINE types == SubSeq(all, 1, k)
<1>7. Extends(log, log', id, types)
  BY <1>1, <1>2, <1>4, AppendExtends
<1>8. Len(types) = k /\ (\A i \in 1 .. k : types[i] = all[i]) /\ k \in Nat
  BY <1>2, <1>4
<1> HIDE DEF types
<1>9. /\ u.shown /\ In(log, "Examiner", id) = {} /\ Heeds(log, id, Len(log) + 1)
  BY <1>1, <1>3 DEF Stands
\* Where the log has the examiner's turn now.
<1>10. ASSUME NEW i \in In(log', "Examiner", id) PROVE i = Len(log) + e
  <2>1. PICK j \in 1 .. k : types[j] = "Examiner" /\ i = Len(log) + j
    BY <1>7, <1>8, <1>9, InNew
  <2>2. j \in 1 .. Len(all) /\ all[j] = "Examiner"
    BY <1>2, <1>4, <1>8, <2>1
  <2> QED
    BY <1>4, <2>1, <2>2
<1>11. k = Len(all) => Len(log) + e \in In(log', "Examiner", id)
  <2> SUFFICES ASSUME k = Len(all) PROVE Len(log) + e \in In(log', "Examiner", id)
    OBVIOUS
  <2>1. e \in 1 .. Len(types) /\ types[e] = "Examiner"
    BY <1>4, <1>8
  <2> QED
    BY <1>7, <2>1, InAdded
<1>12. Ordered(log')
  <2> SUFFICES ASSUME NEW d \in Sockets \X Nat, NEW i \in In(log', "Examiner", d),
                      NEW j \in In(log', "Examiner", d)
               PROVE  i = j /\ Heeds(log', d, i)
    BY DEF Ordered
  <2>1. CASE d = id
    <3>1. i = Len(log) + e /\ j = Len(log) + e
      BY <1>10, <2>1
    <3>2. Len(log) + 1 \in Nat /\ Len(log) + e \in Nat /\ Len(log) + 1 <= Len(log) + e
      BY <1>1
    <3>3. Heeds(log', id, Len(log) + e)
      BY <1>7, <1>9, <3>2, HeedsKept
    <3> QED
      BY <2>1, <3>1, <3>3
  <2>2. CASE d # id
    <3>1. i \in In(log, "Examiner", d) /\ j \in In(log, "Examiner", d)
      BY <1>7, <2>2, InOthers
    <3>2. i = j /\ Heeds(log, d, i) /\ i \in Nat
      BY <1>1, <3>1 DEF Ordered, In
    <3> QED
      BY <1>7, <3>2, HeedsKept
  <2> QED
    BY <2>1, <2>2
<1>13. ASSUME NEW v \in State, turn' = [turn EXCEPT ![c] = v], v.n = u.n, v.shown = u.shown,
              v.at \in {"goodbye", "failing", "closed"}, v.lost \/ k = Len(all)
       PROVE  IInv'
  <2>1. v.lost \/ In(log', "Examiner", id) # {}
    BY <1>11, <1>13
  <2>2. Stands(v, log', id)
    BY <1>9, <1>13, <2>1 DEF Stands, Speaking, Recording
  <2>3. id = <<c, v.n>> /\ turn[c].n <= v.n
    BY <1>1, <1>13 DEF u
  <2>4. Extends(log, log', <<c, v.n>>, types) /\ Stands(v, log', <<c, v.n>>)
    BY <1>7, <2>2, <2>3
  <2> QED
    BY <1>1, <1>12, <1>13, <2>3, <2>4, StepOfTurn
<1>14. CASE k = Len(all) /\ turn' = [turn EXCEPT ![c] = kept(AfterRecord(u.at))]
  <2> DEFINE v == kept(AfterRecord(u.at))
  <2>1. v \in State /\ v.n = u.n /\ v.shown = u.shown /\ v.at = AfterRecord(u.at)
    BY <1>1, <1>5, GoesOn
  <2>2. turn' = [turn EXCEPT ![c] = v]
    BY <1>14
  <2>3. k = Len(all)
    BY <1>14
  <2> HIDE DEF v
  <2>4. v.at \in {"goodbye", "failing", "closed"}
    BY <1>5, <2>1
  <2> HIDE DEF all, u
  <2> QED
    BY <1>13, <2>1, <2>2, <2>3, <2>4
<1>15. CASE k < Len(all) /\ turn' = [turn EXCEPT ![c] = lost(over)]
  <2> DEFINE v == lost(over)
  <2>1. v \in State /\ v.n = u.n /\ v.shown = u.shown /\ v.at = over /\ v.lost
    <3>1. u \in State /\ over \in Steps
      BY <1>1, <1>5
    <3> HIDE DEF u, over
    <3> QED
      BY <3>1, Loses
  <2>2. turn' = [turn EXCEPT ![c] = v]
    BY <1>15
  <2> HIDE DEF v
  <2> QED
    BY <1>5, <1>13, <2>1, <2>2
<1> QED
  BY <1>2, <1>14, <1>15

-----------------------------------------------------------------------------
(* The theorems. *)

\* Every reachable state agrees with the log: the inductive invariant of the others.
THEOREM Agreement == Spec => []IInv
<1>1. Init => IInv
  <2> SUFFICES ASSUME Init PROVE IInv
    OBVIOUS
  <2>1. Idle(0) \in State /\ Idle(0).at = "closed" /\ ~ Idle(0).shown
    BY StagesAssumption, BoundsAssumption DEF Idle, State, Steps
  <2>2. log = <<>> /\ log \in Seq(Event) /\ pending \in Nat /\ client \in ClientStates
    BY DEF Init, ClientStates
  <2>3. \A type, id : In(log, type, id) = {}
    BY <2>2 DEF In
  <2>4. turn \in [Sockets -> State] /\ \A c \in Sockets : turn[c] = Idle(0)
    BY <2>1 DEF Init
  <2>5. TypeOK
    BY <2>2, <2>4 DEF TypeOK, Event, State, ClientStates
  <2>6. \A c \in Sockets : Stands(turn[c], log, Id(c))
    BY <2>1, <2>3, <2>4 DEF Stands, Speaking, Recording
  <2> QED
    BY <2>3, <2>5, <2>6 DEF IInv, Begun, Ordered
<1>2. IInv /\ [Next]_vars => IInv'
  <2> SUFFICES ASSUME IInv, [Next]_vars PROVE IInv'
    OBVIOUS
  <2>1. CASE UNCHANGED vars
    <3>1. log' = log /\ turn' = turn /\ client' = client /\ pending' = pending
      BY <2>1 DEF vars
    <3>2. TypeOK' /\ Begun' /\ Ordered(log')
      BY <3>1 DEF IInv, TypeOK, Begun
    <3>3. \A c \in Sockets : Stands(turn'[c], log', Id(c)')
      BY <3>1 DEF IInv, Id
    <3> QED
      BY <3>2, <3>3 DEF IInv
  <2>2. ASSUME NEW c \in Sockets, Connect(c) PROVE IInv'
    BY <2>2, ConnectStep
  <2>3. ASSUME NEW c \in Sockets, SwitchToText(c) \/ Disconnect(c) PROVE IInv'
    BY <2>3, ClientStep
  <2>4. ASSUME NEW c \in Sockets, Listen(c) PROVE IInv'
    BY <2>4, ListenStep
  <2>5. ASSUME NEW c \in Sockets, Record(c) PROVE IInv'
    BY <2>5, RecordStep
  <2>6. ASSUME NEW c \in Sockets,
               \/ RecognitionFails(c) \/ SendReply(c) \/ SpeakChunk(c) \/ FallBack(c)
               \/ SynthesisFails(c) \/ SpeechEnds(c) \/ SayGoodbye(c) \/ Fail(c)
        PROVE  IInv'
    BY <2>6, SilentSteps
  <2> QED
    BY <2>1, <2>2, <2>3, <2>4, <2>5, <2>6 DEF Next, Handle
<1> QED
  BY <1>1, <1>2, PTL DEF Spec

\* The log, the turns and what the clients did keep their types.
THEOREM TypesHold == Spec => []TypeOK
<1>1. IInv => TypeOK
  BY DEF IInv
<1> QED
  BY <1>1, Agreement, PTL

\* An examiner's turn is recorded once, behind the candidate's turn it replies to and
\* its transcript, whatever the clients, the recognition, the synthesis and the log do.
THEOREM OneReplyPerTurn == Spec => []RepliesInOrder
<1>1. IInv => RepliesInOrder
  <2> SUFFICES ASSUME IInv, NEW i \in Positions("Examiner")
               PROVE  /\ Of("Examiner", log[i].id) = {i}
                      /\ \E a \in Of("Candidate", log[i].id), b \in Of("Transcript", log[i].id) :
                           a < b /\ b < i
    BY DEF RepliesInOrder
  <2> DEFINE id == log[i].id
  <2>1. \A type : Of(type, id) = In(log, type, id)
    BY DEF Of, Positions, In
  <2>2. i \in In(log, "Examiner", id)
    BY DEF In, Positions
  <2>3. id \in Sockets \X Nat
    <3>1. log \in Seq(Event) /\ i \in DOMAIN log
      BY DEF IInv, TypeOK, Event, Positions
    <3>2. log[i] \in Event
      BY <3>1
    <3> QED
      BY <3>2 DEF Event
  <2> HIDE DEF id
  <2>4. Heeds(log, id, i) /\ \A j \in In(log, "Examiner", id) : j = i
    BY <2>2, <2>3 DEF IInv, Ordered
  <2> QED
    BY <2>1, <2>2, <2>4 DEF Heeds, id
<1> QED
  BY <1>1, Agreement, PTL

\* What the log says was asked was sent to the client, and what was sent is in the
\* log when its turn is over, unless the log refused an event of the turn.
THEOREM LogMatchesScreen == Spec => []ShownIsRecorded
<1>1. IInv => ShownIsRecorded
  <2> SUFFICES ASSUME IInv, NEW c \in Sockets
               PROVE  /\ Of("Examiner", Id(c)) # {} => turn[c].shown
                      /\ Over(c) /\ turn[c].shown /\ ~ turn[c].lost => Of("Examiner", Id(c)) # {}
    BY DEF ShownIsRecorded
  <2>1. Of("Examiner", Id(c)) = In(log, "Examiner", Id(c))
    BY DEF Of, Positions, In
  <2>2. Stands(turn[c], log, Id(c))
    BY DEF IInv
  <2> QED
    BY <2>1, <2>2 DEF Stands, Over
<1> QED
  BY <1>1, Agreement, PTL

-----------------------------------------------------------------------------
(***************************************************************************)
(* What a turn leaves in the log, and the stage it was asked for.  Here    *)
(* the events of a turn are followed type by type from its beginning, on   *)
(* top of the invariant above.                                             *)
(***************************************************************************)

\* The events by type that a turn has once the candidate was heard, and once its
\* end is recorded.
HeardTypes == {"SpeechFinalized", "Candidate", "Transcript"}
EndTypes == {"Examiner", "Text", "Latency", "Authenticity"}

Once(L, types, id) == \A type \in types : \E i : In(L, type, id) = {i}
Never(L, types, id) == \A type \in types : In(L, type, id) = {}

Replying == {"reply"} \cup Speaking \cup Recording

\* What L holds of a turn that stands at t, event by event: GoodbyeMeansComplete
\* from the beginning of the turn.
Says(t, L, id) ==
  /\ t.at # "closed" => t.bye = "none"
  /\ t.at = "listening" => Never(L, HeardTypes \cup EndTypes \cup {"Audio"}, id)
  /\ t.at \in Replying => Once(L, HeardTypes, id) /\ Never(L, EndTypes \cup {"Audio"}, id)
  /\ t.at = "goodbye" \/ t.bye = "normal" =>
       /\ Once(L, HeardTypes \cup EndTypes, id)
       /\ In(L, "Audio", id) # {} <=> t.audio > 0

\* The stage after a number of examiner's turns.
StageAfter(asked) == IF asked < Stages THEN asked ELSE Stages - 1

\* The examiner's turns in L before a place.
AskedBefore(L, j) == {k \in DOMAIN L : L[k].type = "Examiner" /\ k < j}

\* A turn keeps the stage its beginning has in the log, and replies after it.
Timed(t, L, id) ==
  \A j \in In(L, "SpeechStarted", id) :
    /\ t.stage = StageAfter(Cardinality(AskedBefore(L, j)))
    /\ \A i \in In(L, "Examiner", id) : j < i

Told == \A c \in Sockets : Says(turn[c], log, Id(c)) /\ Timed(turn[c], log, Id(c))

\* An extension with one event of a type that was not there has it once.
LEMMA OnceAdded ==
  ASSUME NEW L, NEW M, NEW id, NEW types, Extends(L, M, id, types),
         NEW type, In(L, type, id) = {},
         NEW x \in 1 .. Len(types), \A k \in 1 .. Len(types) : types[k] = type <=> k = x
  PROVE  In(M, type, id) = {Len(L) + x}
<1>1. types[x] = type
  OBVIOUS
<1>2. Len(L) + x \in In(M, type, id)
  BY <1>1, InAdded
<1>3. ASSUME NEW i \in In(M, type, id) PROVE i = Len(L) + x
  <2>1. \E k \in 1 .. Len(types) : types[k] = type /\ i = Len(L) + k
    BY InNew
  <2> QED
    BY <2>1
<1> QED
  BY <1>2, <1>3

\* An extension without a type has of it what there was.
LEMMA NoneAdded ==
  ASSUME NEW L, NEW M, NEW id, NEW types, Extends(L, M, id, types),
         NEW type, \A k \in 1 .. Len(types) : types[k] # type, NEW d
  PROVE  In(M, type, d) = In(L, type, d)
<1>1. CASE d # id
  BY <1>1, InOthers
<1>2. CASE d = id
  <2>1. In(L, type, id) \subseteq In(M, type, id)
    BY InKept
  <2>2. \A i \in In(M, type, id) : i \in In(L, type, id)
    BY InNew
  <2>3. In(M, type, id) = In(L, type, id)
    BY <2>1, <2>2
  <2> QED
    BY <1>2, <2>3
<1> QED
  BY <1>1, <1>2

\* What was asked before a place of the log stays so.
LEMMA AskedKept ==
  ASSUME NEW L, NEW M, NEW id, NEW types, Extends(L, M, id, types), NEW j \in DOMAIN L
  PROVE  AskedBefore(M, j) = AskedBefore(L, j)
<1>1. /\ DOMAIN L = 1 .. Len(L) /\ DOMAIN M = 1 .. Len(M) /\ Len(L) \in Nat /\ Len(M) \in Nat
      /\ Len(L) <= Len(M) /\ \A i \in 1 .. Len(L) : M[i] = L[i]
  BY DEF Extends
<1>2. \A k \in DOMAIN M : k < j => k \in DOMAIN L
  BY <1>1
<1>3. \A k \in DOMAIN L : k \in DOMAIN M /\ M[k] = L[k]
  BY <1>1
<1> QED
  BY <1>2, <1>3 DEF AskedBefore

\* The time of a turn, when events are appended to it but not its beginning.
LEMMA TimedKept ==
  ASSUME NEW L, NEW M, NEW id, NEW types, Extends(L, M, id, types),
         \A k \in 1 .. Len(types) : types[k] # "SpeechStarted",
         NEW u, NEW v, Timed(u, L, id), v.stage = u.stage
  PROVE  Timed(v, M, id)
<1>1. In(M, "SpeechStarted", id) = In(L, "SpeechStarted", id)
  BY NoneAdded
<1>2. ASSUME NEW j \in In(L, "SpeechStarted", id), NEW i \in In(M, "Examiner", id)
      PROVE  j < i
  <2>1. CASE i \in In(L, "Examiner", id)
    BY <2>1 DEF Timed
  <2>2. CASE i \notin In(L, "Examiner", id)
    <3>1. PICK k \in 1 .. Len(types) : i = Len(L) + k
      BY <2>2, InNew
    <3>2. j \in 1 .. Len(L) /\ Len(L) \in Nat /\ Len(types) \in Nat
      BY DEF In, Extends
    <3> QED
      BY <3>1, <3>2
  <2> QED
    BY <2>1, <2>2
<1>3. ASSUME NEW j \in In(L, "SpeechStarted", id)
      PROVE  v.stage = StageAfter(Cardinality(AskedBefore(M, j)))
  <2>1. j \in DOMAIN L
    BY DEF In
  <2>2. AskedBefore(M, j) = AskedBefore(L, j)
    BY <2>1, AskedKept
  <2> QED
    BY <2>2 DEF Timed
<1> QED
  BY <1>1, <1>2, <1>3 DEF Timed

\* Nothing changes for a turn when events of another one are appended.
LEMMA OthersKept ==
  ASSUME NEW L, NEW M, NEW id, NEW types, Extends(L, M, id, types),
         NEW t, NEW d, d # id, Says(t, L, d), Timed(t, L, d)
  PROVE  Says(t, M, d) /\ Timed(t, M, d)
<1>1. \A type : In(M, type, d) = In(L, type, d)
  BY InOthers
<1>2. Says(t, M, d)
  <2>1. \A S : Once(M, S, d) <=> Once(L, S, d)
    BY <1>1 DEF Once
  <2>2. \A S : Never(M, S, d) <=> Never(L, S, d)
    BY <1>1 DEF Never
  <2>3. In(M, "Audio", d) = In(L, "Audio", d)
    BY <1>1
  <2> QED
    BY <2>1, <2>2, <2>3 DEF Says
<1>3. ASSUME NEW j \in In(L, "SpeechStarted", d)
      PROVE  t.stage = StageAfter(Cardinality(AskedBefore(M, j)))
  <2>1. j \in DOMAIN L
    BY DEF In
  <2>2. AskedBefore(M, j) = AskedBefore(L, j)
    BY <2>1, AskedKept
  <2> QED
    BY <2>2 DEF Timed
<1>4. Timed(t, M, d)
  BY <1>1, <1>3 DEF Timed
<1> QED
  BY <1>2, <1>4

\* A step that moves one turn to v and appends events of it.
LEMMA ToldStep ==
  ASSUME IInv, Told, NEW c \in Sockets, NEW v, NEW types,
         turn' = [turn EXCEPT ![c] = v],
         Extends(log, log', <<c, v.n>>, types),
         Says(v, log', <<c, v.n>>), Timed(v, log', <<c, v.n>>)
  PROVE  Told'
<1>1. turn \in [Sockets -> State]
  BY Known
<1>2. turn'[c] = v /\ \A d \in Sockets \ {c} : turn'[d] = turn[d]
  BY <1>1
<1>3. ASSUME NEW d \in Sockets
      PROVE  Says(turn'[d], log', <<d, turn'[d].n>>) /\ Timed(turn'[d], log', <<d, turn'[d].n>>)
  <2>1. CASE d = c
    BY <1>2, <2>1
  <2>2. CASE d # c
    <3>1. turn'[d] = turn[d] /\ <<d, turn'[d].n>> = Id(d) /\ Id(d) # <<c, v.n>>
      BY <1>2, <2>2 DEF Id
    <3>2. Says(turn[d], log, Id(d)) /\ Timed(turn[d], log, Id(d))
      BY DEF Told
    <3> QED
      BY <3>1, <3>2, OthersKept
  <2> QED
    BY <2>1, <2>2
<1> QED
  BY <1>3 DEF Told, Id

\* How a turn may go on without an append, as far as its events are concerned.
Passes(u, v) ==
  \/ v.at = u.at /\ v.audio = u.audio /\ v.bye = u.bye
  \/ u.at \in Replying /\ v.at \in Replying /\ v.bye = u.bye
  \/ u.at # "closed" /\ v.at = "failing" /\ v.bye = u.bye
  \/ u.at = "goodbye" /\ v.at = "closed" /\ v.audio = u.audio
  \/ v.at = "closed" /\ v.bye = "error"

\* The same for what it has said.
LEMMA SaysAgain ==
  ASSUME NEW u, NEW v, NEW L, NEW id, Says(u, L, id), Passes(u, v)
  PROVE  Says(v, L, id)
<1>0. /\ "listening" \notin Replying /\ "goodbye" \notin Replying
      /\ "failing" \notin Replying /\ "closed" \notin Replying
  BY DEF Replying, Speaking, Recording
<1>1. CASE v.at = u.at /\ v.audio = u.audio /\ v.bye = u.bye
  BY <1>1 DEF Says
<1>2. CASE u.at \in Replying /\ v.at \in Replying /\ v.bye = u.bye
  BY <1>0, <1>2 DEF Says
<1>3. CASE u.at # "closed" /\ v.at = "failing" /\ v.bye = u.bye
  BY <1>0, <1>3 DEF Says
<1>4. CASE u.at = "goodbye" /\ v.at = "closed" /\ v.audio = u.audio
  BY <1>0, <1>4 DEF Says
<1>5. CASE v.at = "closed" /\ v.bye = "error"
  BY <1>0, <1>5 DEF Says
<1> QED
  BY <1>1, <1>2, <1>3, <1>4, <1>5 DEF Passes

\* A step of a turn that appends nothing.
LEMMA ToldSilently ==
  ASSUME IInv, Told, NEW c \in Sockets, NEW v, log' = log,
         turn' = [turn EXCEPT ![c] = v], v.n = turn[c].n, v.stage = turn[c].stage,
         Passes(turn[c], v)
  PROVE  Told'
<1>1. Says(turn[c], log, Id(c)) /\ Timed(turn[c], log, Id(c)) /\ Id(c) = <<c, v.n>>
  BY DEF Told, Id
<1>2. Says(v, log', <<c, v.n>>)
  BY <1>1, SaysAgain
<1>3. Timed(v, log', <<c, v.n>>)
  BY <1>1 DEF Timed
<1>4. Extends(log, log', <<c, v.n>>, <<>>)
  <2>1. log \in Seq(Event)
    BY Known
  <2> QED
    BY <2>1 DEF Extends
<1> QED
  BY <1>2, <1>3, <1>4, ToldStep

\* The parts of a turn that the step does not change, when it goes on to x.
LEMMA Rest ==
  ASSUME NEW u \in State, NEW x
  PROVE  LET v == [u EXCEPT !.at = x]
         IN v.at = x /\ v.n = u.n /\ v.stage = u.stage /\ v.audio = u.audio /\ v.bye = u.bye
BY DEF State

\* A turn that loses its append, shows its reply, sounds, is cancelled or closes keeps
\* the rest of its state.
LEMMA RestLost ==
  ASSUME NEW u \in State, NEW x
  PROVE  LET v == [u EXCEPT !.at = x, !.lost = TRUE]
         IN v.at = x /\ v.n = u.n /\ v.stage = u.stage /\ v.audio = u.audio /\ v.bye = u.bye
BY DEF State

LEMMA RestShown ==
  ASSUME NEW u \in State, NEW x
  PROVE  LET v == [u EXCEPT !.at = x, !.shown = TRUE]
         IN v.at = x /\ v.n = u.n /\ v.stage = u.stage /\ v.audio = u.audio /\ v.bye = u.bye
BY DEF State

LEMMA RestSounding ==
  ASSUME NEW u \in State, NEW x
  PROVE  LET v == [u EXCEPT !.audio = @ + 1]
             w == [u EXCEPT !.audio = @ + 1, !.at = x]
         IN /\ v.at = u.at /\ v.n = u.n /\ v.stage = u.stage /\ v.bye = u.bye
            /\ w.at = x /\ w.n = u.n /\ w.stage = u.stage /\ w.bye = u.bye
BY DEF State

LEMMA RestCancelled ==
  ASSUME NEW u \in State, NEW b
  PROVE  LET v == [u EXCEPT !.cancelled = b]
         IN v.at = u.at /\ v.n = u.n /\ v.stage = u.stage /\ v.audio = u.audio /\ v.bye = u.bye
BY DEF State

LEMMA RestClosed ==
  ASSUME NEW u \in State, NEW code
  PROVE  LET v == [u EXCEPT !.at = "closed", !.bye = code]
         IN /\ v.at = "closed" /\ v.n = u.n /\ v.stage = u.stage /\ v.audio = u.audio
            /\ v.bye = code
BY DEF State

\* The steps that append nothing tell the log nothing, and take nothing back.
LEMMA ToldSilentSteps ==
  ASSUME IInv, Told, NEW c \in Sockets,
         \/ SwitchToText(c) \/ Disconnect(c)
         \/ RecognitionFails(c) \/ SendReply(c) \/ SpeakChunk(c) \/ FallBack(c)
         \/ SynthesisFails(c) \/ SpeechEnds(c) \/ SayGoodbye(c) \/ Fail(c)
  PROVE  Told'
<1> DEFINE u == turn[c]
           Fits(v) == /\ turn' = [turn EXCEPT ![c] = v] /\ log' = log
                      /\ v.n = u.n /\ v.stage = u.stage /\ Passes(u, v)
<1>1. u \in State /\ turn \in [Sockets -> State]
  BY Known
<1>2. ASSUME NEW v, Fits(v) PROVE Told'
  BY <1>2, ToldSilently
<1>3. /\ "reply" \in Replying /\ "speaking" \in Replying /\ "speaking again" \in Replying
      /\ "record" \in Replying /\ "record, then fail" \in Replying /\ "abandoned" \in Replying
      /\ Speaking \subseteq Replying
  BY DEF Replying, Speaking, Recording
<1> HIDE DEF u
\* The turn goes on to x.
<1>4. ASSUME NEW x, Goto(c, x), log' = log,
             (u.at \in Replying /\ x \in Replying) \/ (u.at # "closed" /\ x = "failing")
      PROVE  Told'
  <2> DEFINE v == [u EXCEPT !.at = x]
  <2>1. v.at = x /\ v.n = u.n /\ v.stage = u.stage /\ v.bye = u.bye
    BY <1>1, Rest
  <2>2. turn' = [turn EXCEPT ![c] = v]
    BY <1>4 DEF Goto, u
  <2> HIDE DEF v
  <2>3. Fits(v)
    BY <1>4, <2>1, <2>2 DEF Passes
  <2> QED
    BY <1>2, <2>3
\* The socket is closed with a code.
<1>5. ASSUME NEW code, Close(c, code), u.at = "goodbye" \/ code = "error"
      PROVE  Told'
  <2> DEFINE v == [u EXCEPT !.at = "closed", !.bye = code]
  <2>1. /\ v.at = "closed" /\ v.n = u.n /\ v.stage = u.stage /\ v.audio = u.audio
        /\ v.bye = code
    BY <1>1, RestClosed
  <2>2. turn' = [turn EXCEPT ![c] = v] /\ log' = log
    BY <1>5 DEF Close, u
  <2> HIDE DEF v
  <2>3. Fits(v)
    BY <1>5, <2>1, <2>2 DEF Passes
  <2> QED
    BY <1>2, <2>3
<1>6. CASE Disconnect(c)
  <2>1. Fits(u)
    BY <1>1, <1>6 DEF Disconnect, Client, Passes, u
  <2> QED
    BY <1>2, <2>1
<1>7. CASE SwitchToText(c)
  <2> DEFINE v == [u EXCEPT !.cancelled = (u.at = "listening")]
  <2>1. v.at = u.at /\ v.n = u.n /\ v.stage = u.stage /\ v.audio = u.audio /\ v.bye = u.bye
    BY <1>1, RestCancelled
  <2>2. turn' = [turn EXCEPT ![c] = v] /\ log' = log
    BY <1>7 DEF SwitchToText, Client, u
  <2> HIDE DEF v
  <2>3. Fits(v)
    BY <2>1, <2>2 DEF Passes
  <2> QED
    BY <1>2, <2>3
<1>8. CASE RecognitionFails(c)
  <2>1. Goto(c, "failing") /\ u.at = "listening" /\ log' = log
    BY <1>8 DEF RecognitionFails, u
  <2> QED
    BY <1>4, <2>1
<1>9. CASE FallBack(c) \/ SynthesisFails(c) \/ SpeechEnds(c)
  <2>1. \E x \in Replying : Goto(c, x)
    BY <1>3, <1>9 DEF FallBack, SynthesisFails, SpeechEnds
  <2>2. u.at \in Replying /\ log' = log
    BY <1>3, <1>9 DEF FallBack, PrimaryGivesUp, SynthesisFails, SpeechEnds, u
  <2>3. PICK x \in Replying : Goto(c, x)
    BY <2>1
  <2> QED
    BY <1>4, <2>2, <2>3
<1>10. CASE SendReply(c)
  <2>1. u.at = "reply" /\ log' = log
    BY <1>10 DEF SendReply, u
  <2>2. CASE Goto(c, "failing")
    BY <1>4, <2>1, <2>2
  <2>3. CASE turn' = [turn EXCEPT ![c].at = "speaking", ![c].shown = TRUE]
    <3> DEFINE v == [u EXCEPT !.at = "speaking", !.shown = TRUE]
    <3>1. v.at = "speaking" /\ v.n = u.n /\ v.stage = u.stage /\ v.bye = u.bye
      BY <1>1, RestShown
    <3>2. turn' = [turn EXCEPT ![c] = v]
      BY <2>3 DEF u
    <3> HIDE DEF v
    <3>3. Fits(v)
      BY <1>3, <2>1, <3>1, <3>2 DEF Passes
    <3> QED
      BY <1>2, <3>3
  <2> QED
    BY <1>10, <2>2, <2>3 DEF SendReply
<1>11. CASE SpeakChunk(c)
  <2> DEFINE v == [u EXCEPT !.audio = @ + 1]
             w == [u EXCEPT !.audio = @ + 1, !.at = "abandoned"]
  <2>1. /\ v.at = u.at /\ v.n = u.n /\ v.stage = u.stage /\ v.bye = u.bye
        /\ w.at = "abandoned" /\ w.n = u.n /\ w.stage = u.stage /\ w.bye = u.bye
    BY <1>1, RestSounding
  <2>2. turn' = [turn EXCEPT ![c] = v] \/ turn' = [turn EXCEPT ![c] = w]
    BY <1>11 DEF SpeakChunk, u
  <2>3. u.at \in Replying /\ log' = log
    BY <1>3, <1>11 DEF SpeakChunk, u
  <2> HIDE DEF v, w
  <2>4. v.at \in Replying /\ w.at \in Replying /\ u.at \in Replying
    BY <1>3, <2>1, <2>3
  <2>5. Passes(u, v)
    BY <2>1, <2>4 DEF Passes
  <2>6. Passes(u, w)
    BY <2>1, <2>4 DEF Passes
  <2>7. Fits(v) \/ Fits(w)
    BY <2>1, <2>2, <2>3, <2>5, <2>6
  <2> QED
    BY <1>2, <2>7
<1>12. CASE SayGoodbye(c)
  <2>1. u.at = "goodbye"
    BY <1>12 DEF SayGoodbye, u
  <2>2. CASE Close(c, "normal")
    BY <1>5, <2>1, <2>2
  <2>3. CASE Goto(c, "failing") /\ UNCHANGED <<log, client, pending>>
    BY <1>4, <2>1, <2>3
  <2> QED
    BY <1>12, <2>2, <2>3 DEF SayGoodbye
<1>13. CASE Fail(c)
  BY <1>5, <1>13 DEF Fail
<1> QED
  BY <1>6, <1>7, <1>8, <1>9, <1>10, <1>11, <1>12, <1>13

\* The socket is accepted: the stage is what the log has asked so far.
LEMMA ToldConnect ==
  ASSUME IInv, Told, NEW c \in Sockets, Connect(c) PROVE Told'
<1> DEFINE n == turn[c].n + 1
           speech == <<"SpeechStarted">>
           u == [Idle(n) EXCEPT !.stage = CurrentStage]
           id == <<c, n>>
           Starts(k, v) ==
             /\ log' = log \o Events(SubSeq(speech, 1, k), id)
             /\ turn' = [turn EXCEPT ![c] = v]
             /\ v.n = n /\ v.stage = CurrentStage /\ v.bye = "none"
             /\ (k = 1 /\ v.at = "listening") \/ (k = 0 /\ v.at = "failing")
<1>1. n \in Nat /\ log \in Seq(Event) /\ id \in Sockets \X Nat /\ ~ (n <= turn[c].n)
  BY Known DEF State
<1>2. u \in State /\ u.n = n /\ u.stage = CurrentStage /\ u.bye = "none"
  <2>1. u \in State /\ u.n = n
    BY <1>1, StageInCase, Begins
  <2>2. u.stage = CurrentStage /\ u.bye = "none"
    BY DEF Idle
  <2> QED
    BY <2>1, <2>2
<1>3. \E k \in 0 .. 1 : \E v : Starts(k, v)
  <2> DEFINE heard == [u EXCEPT !.at = "listening"]
             refused == [u EXCEPT !.at = "failing", !.lost = TRUE]
  <2>1. \/ AppendFirst(speech, 1, <<c, u.n>>) /\ turn' = [turn EXCEPT ![c] = heard]
        \/ AppendFirst(speech, 0, <<c, u.n>>) /\ turn' = [turn EXCEPT ![c] = refused]
    BY DEF Connect
  <2> HIDE DEF u
  <2>2. /\ heard.at = "listening" /\ heard.n = u.n /\ heard.stage = u.stage /\ heard.bye = u.bye
        /\ refused.at = "failing" /\ refused.n = u.n /\ refused.stage = u.stage
        /\ refused.bye = u.bye
    BY <1>2, Rest, RestLost
  <2> HIDE DEF heard, refused
  <2>3. CASE AppendFirst(speech, 1, <<c, u.n>>) /\ turn' = [turn EXCEPT ![c] = heard]
    <3>0. log' = log \o Events(SubSeq(speech, 1, 1), <<c, u.n>>)
      BY <2>3 DEF AppendFirst
    <3>1. /\ heard.n = n /\ heard.stage = CurrentStage /\ heard.bye = "none"
          /\ heard.at = "listening"
      BY <1>2, <2>2
    <3>2. log' = log \o Events(SubSeq(speech, 1, 1), id)
      BY <1>2, <3>0
    <3> HIDE DEF speech, id, n
    <3>3. Starts(1, heard)
      BY <2>3, <3>1, <3>2
    <3> HIDE DEF Starts
    <3> QED
      BY <3>3
  <2>4. CASE AppendFirst(speech, 0, <<c, u.n>>) /\ turn' = [turn EXCEPT ![c] = refused]
    <3>1. Starts(0, refused)
      BY <1>2, <2>2, <2>4 DEF AppendFirst
    <3> HIDE DEF Starts
    <3> QED
      BY <3>1
  <2> QED
    BY <2>1, <2>3, <2>4
<1> HIDE DEF u
<1>4. PICK k \in 0 .. 1 : \E v : Starts(k, v)
  BY <1>3
<1>5. PICK v : Starts(k, v)
  BY <1>4
<1> DEFINE types == SubSeq(speech, 1, k)
<1>6. /\ speech \in Seq(EventTypes) /\ Len(speech) = 1 /\ Len(types) = k
      /\ \A i \in 1 .. k : types[i] = "SpeechStarted"
  BY DEF EventTypes
<1>7. Extends(log, log', id, types)
  BY <1>1, <1>5, <1>6, AppendExtends
<1>8. \A type \in EventTypes : In(log, type, id) = {}
  BY <1>1 DEF IInv, Begun
<1>9. \A type \in EventTypes \ {"SpeechStarted"} : In(log', type, id) = {}
  <2> SUFFICES ASSUME NEW type \in EventTypes, type # "SpeechStarted"
               PROVE  In(log', type, id) = {}
    OBVIOUS
  <2>1. \A i \in 1 .. Len(types) : types[i] # type
    BY <1>6
  <2> HIDE DEF types, id
  <2>2. In(log', type, id) = In(log, type, id)
    BY <1>7, <2>1, NoneAdded
  <2> QED
    BY <1>8, <2>2
<1>10. Says(v, log', id)
  <2>1. HeardTypes \cup EndTypes \cup {"Audio"} \subseteq EventTypes \ {"SpeechStarted"}
    BY DEF HeardTypes, EndTypes, EventTypes
  <2>2. Never(log', HeardTypes \cup EndTypes \cup {"Audio"}, id)
    BY <1>9, <2>1 DEF Never
  <2>3. /\ "listening" \notin Replying /\ "failing" \notin Replying
        /\ v.bye = "none" /\ v.bye # "normal" /\ (v.at = "listening" \/ v.at = "failing")
    BY <1>5 DEF Replying, Speaking, Recording
  <2> HIDE DEF id, Starts
  <2> QED
    BY <2>2, <2>3 DEF Says
<1>11. Timed(v, log', id)
  <2>1. ASSUME NEW j \in In(log', "SpeechStarted", id)
        PROVE  v.stage = StageAfter(Cardinality(AskedBefore(log', j)))
    <3>1. "SpeechStarted" \in EventTypes
      BY DEF EventTypes
    <3>2. j \notin In(log, "SpeechStarted", id)
      BY <1>8, <3>1
    <3> HIDE DEF types, id
    <3>3. PICK x \in 1 .. Len(types) : j = Len(log) + x
      BY <1>7, <2>1, <3>2, InNew
    <3>4. j = Len(log) + 1 /\ Len(log) \in Nat
      BY <1>1, <1>6, <3>3
    <3>5. AskedBefore(log', j) = Positions("Examiner")
      <4>1. /\ DOMAIN log' = 1 .. Len(log') /\ Len(log') \in Nat /\ Len(log) <= Len(log')
            /\ DOMAIN log = 1 .. Len(log) /\ \A i \in 1 .. Len(log) : log'[i] = log[i]
        BY <1>7 DEF Extends
      <4>2. \A i \in DOMAIN log' : i < j <=> i \in DOMAIN log
        BY <3>4, <4>1
      <4>3. \A i \in DOMAIN log : i \in DOMAIN log' /\ log'[i] = log[i]
        BY <4>1
      <4> QED
        BY <4>2, <4>3 DEF AskedBefore, Positions
    <3> QED
      BY <1>5, <3>5 DEF CurrentStage, StageAfter
  <2>2. In(log', "Examiner", id) = {}
    <3>1. "Examiner" \in EventTypes \ {"SpeechStarted"}
      BY DEF EventTypes
    <3> QED
      BY <1>9, <3>1
  <2> HIDE DEF id
  <2> QED
    BY <2>1, <2>2 DEF Timed
<1> HIDE DEF types
<1>12. turn' = [turn EXCEPT ![c] = v] /\ id = <<c, v.n>>
  BY <1>5
<1> HIDE DEF id, Starts
<1> QED
  BY <1>7, <1>10, <1>11, <1>12, ToldStep

\* What is appended when a turn was heard has each of its types once.
LEMMA HeardOnce ==
  ASSUME NEW words
  PROVE  /\ \A type \in HeardTypes : \E x \in 1 .. Len(Heard(words)) :
              \A k \in 1 .. Len(Heard(words)) : Heard(words)[k] = type <=> k = x
         /\ \A k \in 1 .. Len(Heard(words)) :
              Heard(words)[k] \notin EndTypes \cup {"Audio", "SpeechStarted"}
<1> DEFINE h == Heard(words)
<1>1. /\ Len(h) \in 3 .. 4
      /\ h[1] = "SpeechFinalized" /\ h[2] = "Candidate" /\ h[3] = "Transcript"
      /\ Len(h) = 4 => h[4] = "Communication"
  <2>1. CASE words
    BY <2>1 DEF Heard
  <2>2. CASE ~ words
    BY <2>2 DEF Heard
  <2> QED
    BY <2>1, <2>2
<1> HIDE DEF h
<1>2. \A k \in 1 .. Len(h) : k = 1 \/ k = 2 \/ k = 3 \/ (k = 4 /\ Len(h) = 4)
  <2>1. \A m \in 3 .. 4 : \A k \in 1 .. m : k = 1 \/ k = 2 \/ k = 3 \/ (k = 4 /\ m = 4)
    OBVIOUS
  <2> QED
    BY <1>1, <2>1
<1>3. 1 \in 1 .. Len(h) /\ 2 \in 1 .. Len(h) /\ 3 \in 1 .. Len(h)
  BY <1>1
<1>4. \A k \in 1 .. Len(h) : h[k] = "SpeechFinalized" <=> k = 1
  BY <1>1, <1>2
<1>5. \A k \in 1 .. Len(h) : h[k] = "Candidate" <=> k = 2
  BY <1>1, <1>2
<1>6. \A k \in 1 .. Len(h) : h[k] = "Transcript" <=> k = 3
  BY <1>1, <1>2
<1>7. \A k \in 1 .. Len(h) : h[k] \notin EndTypes \cup {"Audio", "SpeechStarted"}
  BY <1>1, <1>2 DEF EndTypes
<1>8. \A type \in HeardTypes :
        type = "SpeechFinalized" \/ type = "Candidate" \/ type = "Transcript"
  BY DEF HeardTypes
<1> DEFINE HeldOnce(type) ==
             \E x \in 1 .. Len(h) : \A k \in 1 .. Len(h) : h[k] = type <=> k = x
<1>9. HeldOnce("SpeechFinalized")
  BY <1>3, <1>4
<1>10. HeldOnce("Candidate")
  BY <1>3, <1>5
<1>11. HeldOnce("Transcript")
  BY <1>3, <1>6
<1>12. \A type \in HeardTypes : HeldOnce(type)
  <2> HIDE DEF HeldOnce
  <2> QED
    BY <1>8, <1>9, <1>10, <1>11
<1> QED
  BY <1>7, <1>12 DEF h

\* What is appended at the end of a turn has each of its types once, and its audio
\* if there was any.
LEMMA RecordedOnce ==
  ASSUME NEW c, pending \in Nat
  PROVE  /\ \A type \in EndTypes : \E x \in 1 .. Len(Recorded(c)) :
              \A k \in 1 .. Len(Recorded(c)) : Recorded(c)[k] = type <=> k = x
         /\ \A k \in 1 .. Len(Recorded(c)) :
              Recorded(c)[k] \notin HeardTypes \cup {"SpeechStarted"}
         /\ (\E k \in 1 .. Len(Recorded(c)) : Recorded(c)[k] = "Audio") <=> turn[c].audio > 0
<1> DEFINE f == [i \in 1 .. pending |-> "TierFallback"]
           e == <<"Examiner", "Text">>
           a == IF turn[c].audio > 0 THEN <<"Audio">> ELSE <<>>
           s == <<"Latency", "Authenticity">>
           sounding == turn[c].audio > 0
           tail == (e \o a) \o s
           ea == e \o a
           all == Recorded(c)
           m == Len(tail)
<1>1. f \in Seq(EventTypes) /\ Len(f) = pending /\ \A i \in 1 .. pending : f[i] = "TierFallback"
  BY DEF EventTypes
<1>a. \A p, q \in Seq(EventTypes) :
        /\ p \o q \in Seq(EventTypes) /\ Len(p \o q) = Len(p) + Len(q)
        /\ \A i \in 1 .. Len(p) + Len(q) :
             (p \o q)[i] = IF i <= Len(p) THEN p[i] ELSE q[i - Len(p)]
  OBVIOUS
<1>b. /\ e \in Seq(EventTypes) /\ Len(e) = 2 /\ e[1] = "Examiner" /\ e[2] = "Text"
      /\ s \in Seq(EventTypes) /\ Len(s) = 2 /\ s[1] = "Latency" /\ s[2] = "Authenticity"
  BY DEF EventTypes
<1>c. /\ a \in Seq(EventTypes)
      /\ sounding => Len(a) = 1 /\ a[1] = "Audio"
      /\ ~ sounding => Len(a) = 0
  <2>1. /\ <<"Audio">> \in Seq(EventTypes) /\ Len(<<"Audio">>) = 1 /\ <<"Audio">>[1] = "Audio"
        /\ <<>> \in Seq(EventTypes) /\ Len(<<>>) = 0
    BY DEF EventTypes
  <2>2. (sounding => a = <<"Audio">>) /\ (~ sounding => a = <<>>)
    OBVIOUS
  <2> HIDE DEF a, sounding
  <2> QED
    BY <2>1, <2>2
<1>2. all = f \o tail
  <2>1. all = ((f \o e) \o a) \o s
    BY DEF Recorded
  <2>2. \A p, q, r \in Seq(EventTypes) : (p \o q) \o r = p \o (q \o r)
    OBVIOUS
  <2> HIDE DEF f, e, a, s, all
  <2>3. (f \o e) \o a = f \o (e \o a) /\ e \o a \in Seq(EventTypes)
    BY <1>1, <1>a, <1>b, <1>c, <2>2
  <2>4. (f \o (e \o a)) \o s = f \o ((e \o a) \o s)
    BY <1>1, <1>b, <2>2, <2>3
  <2> QED
    BY <2>1, <2>3, <2>4
<1> HIDE DEF e, a, s, f, all, sounding
<1>3. /\ tail \in Seq(EventTypes) /\ m \in Nat
      /\ sounding => m = 5
      /\ ~ sounding => m = 4
      /\ \A i \in 1 .. m : tail[i] = IF i <= 2 + Len(a) THEN ea[i] ELSE s[i - (2 + Len(a))]
      /\ \A i \in 1 .. 2 + Len(a) : ea[i] = IF i <= 2 THEN e[i] ELSE a[i - 2]
  <2>1. /\ e \o a \in Seq(EventTypes) /\ Len(e \o a) = 2 + Len(a)
        /\ \A i \in 1 .. 2 + Len(a) : ea[i] = IF i <= 2 THEN e[i] ELSE a[i - 2]
    <3>1. /\ e \o a \in Seq(EventTypes) /\ Len(e \o a) = Len(e) + Len(a)
          /\ \A i \in 1 .. Len(e) + Len(a) :
               (e \o a)[i] = IF i <= Len(e) THEN e[i] ELSE a[i - Len(e)]
      BY <1>a, <1>b, <1>c
    <3> QED
      BY <1>b, <3>1 DEF ea
  <2> HIDE DEF ea
  <2>2. /\ ea \o s \in Seq(EventTypes) /\ Len(ea \o s) = (2 + Len(a)) + 2
        /\ \A i \in 1 .. (2 + Len(a)) + 2 :
             (ea \o s)[i] = IF i <= 2 + Len(a) THEN ea[i] ELSE s[i - (2 + Len(a))]
    BY <1>a, <1>b, <2>1 DEF ea
  <2> QED
    BY <1>c, <2>1, <2>2 DEF ea
<1> HIDE DEF tail, m, ea
<1>4. /\ tail[1] = "Examiner" /\ tail[2] = "Text"
      /\ sounding => tail[3] = "Audio" /\ tail[4] = "Latency" /\ tail[5] = "Authenticity"
      /\ ~ sounding => tail[3] = "Latency" /\ tail[4] = "Authenticity"
  <2>1. CASE sounding
    <3>1. Len(a) = 1 /\ m = 5
      BY <1>c, <1>3, <2>1
    <3>2. /\ \A i \in 1 .. 3 : ea[i] = IF i <= 2 THEN e[i] ELSE a[i - 2]
          /\ \A i \in 1 .. 5 : tail[i] = IF i <= 3 THEN ea[i] ELSE s[i - 3]
      <4>1. 2 + Len(a) = 3
        BY <3>1
      <4> QED
        BY <1>3, <2>1, <3>1, <4>1
    <3>3. ea[1] = e[1] /\ ea[2] = e[2] /\ ea[3] = a[1]
      BY <3>2
    <3>4. /\ tail[1] = ea[1] /\ tail[2] = ea[2] /\ tail[3] = ea[3]
          /\ tail[4] = s[1] /\ tail[5] = s[2]
      BY <3>2
    <3> QED
      BY <1>b, <1>c, <2>1, <3>3, <3>4
  <2>2. CASE ~ sounding
    <3>1. Len(a) = 0 /\ m = 4
      BY <1>c, <1>3, <2>2
    <3>2. /\ \A i \in 1 .. 2 : ea[i] = IF i <= 2 THEN e[i] ELSE a[i - 2]
          /\ \A i \in 1 .. 4 : tail[i] = IF i <= 2 THEN ea[i] ELSE s[i - 2]
      <4>1. 2 + Len(a) = 2
        BY <3>1
      <4> QED
        BY <1>3, <2>2, <3>1, <4>1
    <3>3. ea[1] = e[1] /\ ea[2] = e[2]
      BY <3>2
    <3>4. /\ tail[1] = ea[1] /\ tail[2] = ea[2]
          /\ tail[3] = s[1] /\ tail[4] = s[2]
      BY <3>2
    <3> QED
      BY <1>b, <2>2, <3>3, <3>4
  <2> QED
    BY <2>1, <2>2
<1>5. /\ Len(all) = pending + m
      /\ \A i \in 1 .. pending + m : all[i] = IF i <= pending THEN f[i] ELSE tail[i - pending]
  BY <1>1, <1>a, <1>2, <1>3 DEF m
<1>6. \A i \in 1 .. pending + m :
        \/ i <= pending /\ all[i] = "TierFallback"
        \/ \E j \in 1 .. m : i = pending + j /\ all[i] = tail[j]
  <2> SUFFICES ASSUME NEW i \in 1 .. pending + m, ~ (i <= pending)
               PROVE  \E j \in 1 .. m : i = pending + j /\ all[i] = tail[j]
    BY <1>1, <1>5
  <2>1. i - pending \in 1 .. m /\ i = pending + (i - pending)
    BY <1>3
  <2> QED
    BY <1>5, <2>1
<1>7. \A j \in 1 .. m : pending + j \in 1 .. pending + m /\ all[pending + j] = tail[j]
  <2> SUFFICES ASSUME NEW j \in 1 .. m
               PROVE  pending + j \in 1 .. pending + m /\ all[pending + j] = tail[j]
    OBVIOUS
  <2>1. /\ pending + j \in 1 .. pending + m /\ ~ (pending + j <= pending)
        /\ (pending + j) - pending = j
    BY <1>3
  <2> QED
    BY <1>5, <2>1
\* A type that the tail has once is there once.
<1>8. ASSUME NEW type, type # "TierFallback", NEW y \in 1 .. m,
             \A j \in 1 .. m : tail[j] = type <=> j = y
      PROVE  \E x \in 1 .. Len(all) : \A k \in 1 .. Len(all) : all[k] = type <=> k = x
  <2>1. \A k \in 1 .. pending + m : all[k] = type <=> k = pending + y
    BY <1>6, <1>7, <1>8
  <2> QED
    BY <1>5, <1>7, <2>1
<1>9. ASSUME NEW type \in EndTypes
      PROVE  /\ type # "TierFallback"
             /\ \E y \in 1 .. m : \A j \in 1 .. m : tail[j] = type <=> j = y
  <2>1. type = "Examiner" \/ type = "Text" \/ type = "Latency" \/ type = "Authenticity"
    BY DEF EndTypes
  <2>2. CASE sounding
    <3>1. \A j \in 1 .. m : j = 1 \/ j = 2 \/ j = 3 \/ j = 4 \/ j = 5
      BY <1>3, <2>2
    <3>2. 1 \in 1 .. m /\ 2 \in 1 .. m /\ 4 \in 1 .. m /\ 5 \in 1 .. m
      BY <1>3, <2>2
    <3> QED
      BY <1>4, <2>1, <2>2, <3>1, <3>2
  <2>3. CASE ~ sounding
    <3>1. \A j \in 1 .. m : j = 1 \/ j = 2 \/ j = 3 \/ j = 4
      BY <1>3, <2>3
    <3>2. 1 \in 1 .. m /\ 2 \in 1 .. m /\ 3 \in 1 .. m /\ 4 \in 1 .. m
      BY <1>3, <2>3
    <3> QED
      BY <1>4, <2>1, <2>3, <3>1, <3>2
  <2> QED
    BY <2>2, <2>3
<1>10. \A j \in 1 .. m : /\ tail[j] \notin HeardTypes \cup {"SpeechStarted"}
                         /\ tail[j] = "Audio" => sounding
  <2>1. CASE sounding
    <3>1. \A j \in 1 .. m : j = 1 \/ j = 2 \/ j = 3 \/ j = 4 \/ j = 5
      BY <1>3, <2>1
    <3> QED
      BY <1>4, <2>1, <3>1 DEF HeardTypes
  <2>2. CASE ~ sounding
    <3>1. \A j \in 1 .. m : j = 1 \/ j = 2 \/ j = 3 \/ j = 4
      BY <1>3, <2>2
    <3> QED
      BY <1>4, <2>2, <3>1 DEF HeardTypes
  <2> QED
    BY <2>1, <2>2
<1>11. \A type \in EndTypes : \E x \in 1 .. Len(all) :
         \A k \in 1 .. Len(all) : all[k] = type <=> k = x
  BY <1>8, <1>9
<1>12. \A k \in 1 .. Len(all) : all[k] \notin HeardTypes \cup {"SpeechStarted"}
  <2>1. "TierFallback" \notin HeardTypes \cup {"SpeechStarted"}
    BY DEF HeardTypes
  <2> QED
    BY <1>5, <1>6, <1>10, <2>1
<1>13. (\E k \in 1 .. Len(all) : all[k] = "Audio") <=> sounding
  <2>1. ASSUME NEW k \in 1 .. Len(all), all[k] = "Audio" PROVE sounding
    BY <1>5, <1>6, <1>10, <2>1
  <2>2. ASSUME sounding PROVE \E k \in 1 .. Len(all) : all[k] = "Audio"
    <3>1. 3 \in 1 .. m
      BY <1>3, <2>2
    <3>2. pending + 3 \in 1 .. Len(all) /\ all[pending + 3] = "Audio"
      BY <1>4, <1>5, <1>7, <2>2, <3>1
    <3> QED
      BY <3>2
  <2> QED
    BY <2>1, <2>2
<1> QED
  BY <1>11, <1>12, <1>13 DEF all, sounding

\* What a turn says of the log behind an extension that has each of these types once.
LEMMA OnceKept ==
  ASSUME NEW L, NEW M, NEW id, NEW types, Extends(L, M, id, types), NEW S, NEW d,
         \A type \in S : \A k \in 1 .. Len(types) : types[k] # type
  PROVE  /\ Never(L, S, d) => Never(M, S, d)
         /\ Once(L, S, d) => Once(M, S, d)
<1>1. \A type \in S : In(M, type, d) = In(L, type, d)
  BY NoneAdded
<1> QED
  BY <1>1 DEF Once, Never

\* Events of as many types, appended once each, are there once each.
LEMMA AllAdded ==
  ASSUME NEW L, NEW M, NEW id, NEW types, Extends(L, M, id, types), NEW S,
         Never(L, S, id),
         \A type \in S : \E x \in 1 .. Len(types) : \A k \in 1 .. Len(types) : types[k] = type <=> k = x
  PROVE  Once(M, S, id)
<1> SUFFICES ASSUME NEW type \in S PROVE \E i : In(M, type, id) = {i}
  BY DEF Once
<1>1. PICK x \in 1 .. Len(types) : \A k \in 1 .. Len(types) : types[k] = type <=> k = x
  OBVIOUS
<1>2. In(L, type, id) = {}
  BY DEF Never
<1>3. In(M, type, id) = {Len(L) + x}
  BY <1>1, <1>2, OnceAdded
<1> QED
  BY <1>3

\* What was heard is recorded: the turn has it, and nothing of its end.
LEMMA ToldListen ==
  ASSUME IInv, Told, NEW c \in Sockets, Listen(c) PROVE Told'
<1> DEFINE u == turn[c]
           id == Id(c)
           reply == [u EXCEPT !.at = "reply"]
           failing == [u EXCEPT !.at = "failing"]
           lost == [u EXCEPT !.at = "failing", !.lost = TRUE]
<1>1. /\ u \in State /\ log \in Seq(Event) /\ id \in Sockets \X Nat /\ id = <<c, u.n>>
      /\ Says(u, log, id) /\ Timed(u, log, id) /\ u.at = "listening"
  BY Known DEF Told, Listen
<1>2. PICK words \in Words : \E k \in 0 .. Len(Heard(words)) :
        /\ AppendFirst(Heard(words), k, id)
        /\ \/ k = Len(Heard(words)) /\ turn' = [turn EXCEPT ![c] = reply]
           \/ turn' = [turn EXCEPT ![c] = failing]
           \/ turn' = [turn EXCEPT ![c] = lost]
  BY DEF Listen, Goto
<1> DEFINE all == Heard(words)
<1>3. PICK k \in 0 .. Len(all) :
        /\ AppendFirst(all, k, id)
        /\ \/ k = Len(all) /\ turn' = [turn EXCEPT ![c] = reply]
           \/ turn' = [turn EXCEPT ![c] = failing]
           \/ turn' = [turn EXCEPT ![c] = lost]
  BY <1>2
<1> DEFINE types == SubSeq(all, 1, k)
<1>4. /\ all \in Seq(EventTypes)
      /\ \A type \in HeardTypes : \E x \in 1 .. Len(all) :
           \A i \in 1 .. Len(all) : all[i] = type <=> i = x
      /\ \A i \in 1 .. Len(all) : all[i] \notin EndTypes \cup {"Audio", "SpeechStarted"}
  BY HeardShape, HeardOnce
<1>5. log' = log \o Events(SubSeq(all, 1, k), id)
  BY <1>3 DEF AppendFirst
<1> HIDE DEF all, u, id
<1>6. Extends(log, log', id, types)
  BY <1>1, <1>4, <1>5, AppendExtends
<1>7. Len(types) = k /\ k \in Nat /\ k <= Len(all) /\ \A i \in 1 .. k : types[i] = all[i]
  BY <1>3, <1>4
<1>8. reply.at = "reply" /\ reply.n = u.n /\ reply.stage = u.stage /\ reply.bye = u.bye
  BY <1>1, Rest
<1>9. /\ failing.at = "failing" /\ failing.n = u.n /\ failing.stage = u.stage
      /\ failing.bye = u.bye
  BY <1>1, Rest
<1>10. lost.at = "failing" /\ lost.n = u.n /\ lost.stage = u.stage /\ lost.bye = u.bye
  BY <1>1, RestLost
<1> HIDE DEF types, reply, failing, lost
<1>11. \A i \in 1 .. Len(types) : types[i] \notin EndTypes \cup {"Audio", "SpeechStarted"}
  BY <1>4, <1>7
<1>12. Never(log', EndTypes \cup {"Audio"}, id)
  <2>1. Never(log, EndTypes \cup {"Audio"}, id)
    BY <1>1 DEF Says, Never
  <2>2. \A type \in EndTypes \cup {"Audio"} : \A i \in 1 .. Len(types) : types[i] # type
    BY <1>11
  <2> QED
    BY <1>6, <2>1, <2>2, OnceKept
<1>13. k = Len(all) => Once(log', HeardTypes, id)
  <2> SUFFICES ASSUME k = Len(all) PROVE Once(log', HeardTypes, id)
    OBVIOUS
  <2>1. \A type \in HeardTypes : \E x \in 1 .. Len(types) :
          \A i \in 1 .. Len(types) : types[i] = type <=> i = x
    BY <1>4, <1>7
  <2>2. Never(log, HeardTypes, id)
    BY <1>1 DEF Says, Never
  <2> QED
    BY <1>6, <2>1, <2>2, AllAdded
<1>14. ASSUME NEW v, turn' = [turn EXCEPT ![c] = v], v.n = u.n, v.stage = u.stage,
              Says(v, log', id)
       PROVE  Told'
  <2>1. \A i \in 1 .. Len(types) : types[i] # "SpeechStarted"
    BY <1>11
  <2>2. Timed(v, log', id)
    BY <1>1, <1>6, <1>14, <2>1, TimedKept
  <2>3. id = <<c, v.n>>
    BY <1>1, <1>14
  <2>4. /\ Extends(log, log', <<c, v.n>>, types)
        /\ Says(v, log', <<c, v.n>>) /\ Timed(v, log', <<c, v.n>>)
    BY <1>6, <1>14, <2>2, <2>3
  <2> QED
    BY <1>14, <2>4, ToldStep
<1>15. u.bye = "none" /\ u.bye # "normal"
  BY <1>1 DEF Says
<1>16. "reply" \in Replying /\ "failing" \notin Replying
  BY DEF Replying, Speaking, Recording
<1>17. CASE k = Len(all) /\ turn' = [turn EXCEPT ![c] = reply]
  <2>1. Says(reply, log', id)
    BY <1>8, <1>12, <1>13, <1>15, <1>16, <1>17 DEF Says
  <2> QED
    BY <1>8, <1>14, <1>17, <2>1
<1>18. CASE turn' = [turn EXCEPT ![c] = failing]
  <2>1. Says(failing, log', id)
    BY <1>9, <1>15, <1>16 DEF Says
  <2> QED
    BY <1>9, <1>14, <1>18, <2>1
<1>19. CASE turn' = [turn EXCEPT ![c] = lost]
  <2>1. Says(lost, log', id)
    BY <1>10, <1>15, <1>16 DEF Says
  <2> QED
    BY <1>10, <1>14, <1>19, <2>1
<1> QED
  BY <1>3, <1>17, <1>18, <1>19

\* The end of the turn is recorded, all of it or as far as the log takes it.
LEMMA ToldRecord ==
  ASSUME IInv, Told, NEW c \in Sockets, Record(c) PROVE Told'
<1> DEFINE u == turn[c]
           id == Id(c)
           all == Recorded(c)
           over == IF u.at = "abandoned" THEN "closed" ELSE "failing"
           kept == [u EXCEPT !.at = AfterRecord(u.at)]
           lost == [u EXCEPT !.at = over, !.lost = TRUE]
<1>1. /\ u \in State /\ log \in Seq(Event) /\ id \in Sockets \X Nat /\ id = <<c, u.n>>
      /\ Says(u, log, id) /\ Timed(u, log, id) /\ u.at \in Recording /\ pending \in Nat
  BY Known DEF Told, Record
<1>2. PICK k \in 0 .. Len(all) :
        /\ log' = log \o Events(SubSeq(all, 1, k), id)
        /\ \/ k = Len(all) /\ turn' = [turn EXCEPT ![c] = kept]
           \/ turn' = [turn EXCEPT ![c] = lost]
  BY DEF Record, AppendFirst, Goto
<1>3. /\ all \in Seq(EventTypes)
      /\ \A type \in EndTypes : \E x \in 1 .. Len(all) :
           \A i \in 1 .. Len(all) : all[i] = type <=> i = x
      /\ \A i \in 1 .. Len(all) : all[i] \notin HeardTypes \cup {"SpeechStarted"}
      /\ (\E i \in 1 .. Len(all) : all[i] = "Audio") <=> u.audio > 0
  BY <1>1, RecordedShape, RecordedOnce
<1>4. /\ AfterRecord(u.at) \in {"goodbye", "failing", "closed"} /\ over \in {"failing", "closed"}
  BY <1>1 DEF AfterRecord, Recording
<1>5. /\ kept.at = AfterRecord(u.at) /\ kept.n = u.n /\ kept.stage = u.stage
      /\ kept.bye = u.bye /\ kept.audio = u.audio
  BY <1>1, Rest
<1>6. lost.at = over /\ lost.n = u.n /\ lost.stage = u.stage /\ lost.bye = u.bye
  BY <1>1, RestLost
<1> DEFINE types == SubSeq(all, 1, k)
<1> HIDE DEF all, u, id, over, kept, lost
<1>7. Extends(log, log', id, types)
  BY <1>1, <1>2, <1>3, AppendExtends
<1>8. Len(types) = k /\ k \in Nat /\ k <= Len(all) /\ \A i \in 1 .. k : types[i] = all[i]
  BY <1>2, <1>3
<1> HIDE DEF types
<1>9. \A i \in 1 .. Len(types) : types[i] \notin HeardTypes \cup {"SpeechStarted"}
  BY <1>3, <1>8
<1>10. /\ u.at \in Replying /\ u.at # "closed"
       /\ "goodbye" \notin Replying /\ "failing" \notin Replying /\ "closed" \notin Replying
  BY <1>1 DEF Replying, Speaking, Recording
<1>11. /\ Once(log, HeardTypes, id) /\ Never(log, EndTypes \cup {"Audio"}, id)
       /\ u.bye = "none" /\ u.bye # "normal"
  BY <1>1, <1>10 DEF Says
<1>12. Once(log', HeardTypes, id)
  <2>1. \A type \in HeardTypes : \A i \in 1 .. Len(types) : types[i] # type
    BY <1>9
  <2> QED
    BY <1>7, <1>11, <2>1, OnceKept
<1>13. k = Len(all) => Once(log', HeardTypes \cup EndTypes, id)
  <2> SUFFICES ASSUME k = Len(all) PROVE Once(log', HeardTypes \cup EndTypes, id)
    OBVIOUS
  <2>1. \A type \in EndTypes : \E x \in 1 .. Len(types) :
          \A i \in 1 .. Len(types) : types[i] = type <=> i = x
    BY <1>3, <1>8
  <2>2. Never(log, EndTypes, id)
    BY <1>11 DEF Never
  <2>3. Once(log', EndTypes, id)
    BY <1>7, <2>1, <2>2, AllAdded
  <2> QED
    BY <1>12, <2>3 DEF Once
<1>14. k = Len(all) => (In(log', "Audio", id) # {} <=> u.audio > 0)
  <2> SUFFICES ASSUME k = Len(all) PROVE In(log', "Audio", id) # {} <=> u.audio > 0
    OBVIOUS
  <2>1. In(log, "Audio", id) = {}
    BY <1>11 DEF Never
  <2>2. (\E i \in 1 .. Len(types) : types[i] = "Audio") <=> u.audio > 0
    BY <1>3, <1>8
  <2>3. ASSUME NEW i \in 1 .. Len(types), types[i] = "Audio" PROVE In(log', "Audio", id) # {}
    <3>1. Len(log) + i \in In(log', types[i], id)
      BY <1>7, InAdded
    <3> QED
      BY <2>3, <3>1
  <2>4. ASSUME NEW j \in In(log', "Audio", id) PROVE \E i \in 1 .. Len(types) : types[i] = "Audio"
    BY <1>7, <2>1, InNew
  <2> QED
    BY <2>2, <2>3, <2>4
<1>15. ASSUME NEW v, turn' = [turn EXCEPT ![c] = v], v.n = u.n, v.stage = u.stage,
              Says(v, log', id)
       PROVE  Told'
  <2>1. \A i \in 1 .. Len(types) : types[i] # "SpeechStarted"
    BY <1>9
  <2>2. Timed(v, log', id)
    BY <1>1, <1>7, <1>15, <2>1, TimedKept
  <2>3. id = <<c, v.n>>
    BY <1>1, <1>15
  <2>4. /\ Extends(log, log', <<c, v.n>>, types)
        /\ Says(v, log', <<c, v.n>>) /\ Timed(v, log', <<c, v.n>>)
    BY <1>7, <1>15, <2>2, <2>3
  <2> QED
    BY <1>15, <2>4, ToldStep
<1>16. CASE k = Len(all) /\ turn' = [turn EXCEPT ![c] = kept]
  <2>1. Says(kept, log', id)
    BY <1>4, <1>5, <1>10, <1>11, <1>13, <1>14, <1>16 DEF Says
  <2> QED
    BY <1>5, <1>15, <1>16, <2>1
<1>17. CASE turn' = [turn EXCEPT ![c] = lost]
  <2>1. Says(lost, log', id)
    BY <1>4, <1>6, <1>10, <1>11 DEF Says
  <2> QED
    BY <1>6, <1>15, <1>17, <2>1
<1> QED
  BY <1>2, <1>16, <1>17

\* What the log holds of every turn, and when.
THEOREM Accounts == Spec => []Told
<1>1. Init => Told
  <2> SUFFICES ASSUME Init, NEW c \in Sockets
               PROVE  Says(turn[c], log, Id(c)) /\ Timed(turn[c], log, Id(c))
    BY DEF Told
  <2>1. turn[c].at = "closed" /\ turn[c].bye = "none" /\ turn[c].bye # "normal"
    BY DEF Init, Idle
  <2>2. "closed" \notin Replying
    BY DEF Replying, Speaking, Recording
  <2>3. Says(turn[c], log, Id(c))
    BY <2>1, <2>2 DEF Says
  <2>4. Timed(turn[c], log, Id(c))
    BY DEF Timed, In, Init
  <2> QED
    BY <2>3, <2>4
<1>2. IInv /\ Told /\ [Next]_vars => Told'
  <2> SUFFICES ASSUME IInv, Told, [Next]_vars PROVE Told'
    OBVIOUS
  <2>1. CASE UNCHANGED vars
    <3>1. log' = log /\ turn' = turn
      BY <2>1 DEF vars
    <3>2. \A c \in Sockets : Says(turn'[c], log', Id(c)') /\ Timed(turn'[c], log', Id(c)')
      BY <3>1 DEF Told, Id
    <3> QED
      BY <3>2 DEF Told
  <2>2. ASSUME NEW c \in Sockets, Connect(c) PROVE Told'
    BY <2>2, ToldConnect
  <2>3. ASSUME NEW c \in Sockets, Listen(c) PROVE Told'
    BY <2>3, ToldListen
  <2>4. ASSUME NEW c \in Sockets, Record(c) PROVE Told'
    BY <2>4, ToldRecord
  <2>5. ASSUME NEW c \in Sockets,
               \/ SwitchToText(c) \/ Disconnect(c)
               \/ RecognitionFails(c) \/ SendReply(c) \/ SpeakChunk(c) \/ FallBack(c)
               \/ SynthesisFails(c) \/ SpeechEnds(c) \/ SayGoodbye(c) \/ Fail(c)
        PROVE  Told'
    BY <2>5, ToldSilentSteps
  <2> QED
    BY <2>1, <2>2, <2>3, <2>4, <2>5 DEF Next, Handle
<1> QED
  BY <1>1, <1>2, Agreement, PTL DEF Spec

\* A socket closed with code 1000 leaves a complete turn in the log, with its audio
\* if and only if some was handed to the client (voice_websocket, next_turn).
THEOREM CompleteTurns == Spec => []GoodbyeMeansComplete
<1>1. Told => GoodbyeMeansComplete
  <2> SUFFICES ASSUME Told, NEW c \in Sockets, turn[c].bye = "normal"
               PROVE  /\ \A type \in {"SpeechFinalized", "Candidate", "Transcript", "Examiner",
                                      "Text", "Latency", "Authenticity"} :
                           Cardinality(Of(type, Id(c))) = 1
                      /\ Of("Audio", Id(c)) # {} <=> turn[c].audio > 0
    BY DEF GoodbyeMeansComplete
  <2>1. \A type : Of(type, Id(c)) = In(log, type, Id(c))
    BY DEF Of, Positions, In
  <2>2. /\ Once(log, HeardTypes \cup EndTypes, Id(c))
        /\ In(log, "Audio", Id(c)) # {} <=> turn[c].audio > 0
    <3>1. Says(turn[c], log, Id(c))
      BY DEF Told
    <3> QED
      BY <3>1 DEF Says
  <2>3. ASSUME NEW type \in HeardTypes \cup EndTypes PROVE Cardinality(Of(type, Id(c))) = 1
    <3>1. PICK i : In(log, type, Id(c)) = {i}
      BY <2>2 DEF Once
    <3> QED
      BY <2>1, <3>1, FS_Singleton
  <2>4. {"SpeechFinalized", "Candidate", "Transcript", "Examiner", "Text", "Latency",
         "Authenticity"} = HeardTypes \cup EndTypes
    BY DEF HeardTypes, EndTypes
  <2> QED
    BY <2>1, <2>2, <2>3, <2>4
<1> QED
  BY <1>1, Accounts, PTL

\* A reply is asked for the stage its place in the log has, unless another socket's
\* reply was recorded since its turn began (_current_stage, read once per socket).
THEOREM StagesFollow == Spec => []StageIsCurrent
<1>1. IInv /\ Told => StageIsCurrent
  <2> SUFFICES ASSUME IInv, Told, NEW c \in Sockets,
                      NEW i \in Of("Examiner", Id(c)), NEW j \in Of("SpeechStarted", Id(c)),
                      {k \in Positions("Examiner") : j < k /\ k < i} = {}
               PROVE  LET before == Cardinality({k \in Positions("Examiner") : k < i})
                      IN turn[c].stage = IF before < Stages THEN before ELSE Stages - 1
    BY DEF StageIsCurrent
  <2>1. i \in In(log, "Examiner", Id(c)) /\ j \in In(log, "SpeechStarted", Id(c))
    BY DEF Of, Positions, In
  <2>2. turn[c].stage = StageAfter(Cardinality(AskedBefore(log, j))) /\ j < i
    BY <2>1 DEF Told, Timed
  <2>3. {k \in Positions("Examiner") : k < i} = AskedBefore(log, j)
    <3>0. DOMAIN log \subseteq Nat
      <4>1. log \in Seq(Event)
        BY Known
      <4> QED
        BY <4>1
    <3>1. log[j].type = "SpeechStarted" /\ j \in DOMAIN log /\ i \in DOMAIN log
      BY <2>1 DEF In
    <3>2. ASSUME NEW k \in Positions("Examiner") PROVE k < i <=> k < j
      <4>1. log[k].type = "Examiner" /\ k \in DOMAIN log
        BY DEF Positions
      <4>2. k # j
        BY <3>1, <4>1
      <4>3. ~ (j < k /\ k < i)
        OBVIOUS
      <4> QED
        BY <2>2, <3>0, <3>1, <4>1, <4>2, <4>3
    <3> QED
      BY <3>2 DEF AskedBefore, Positions
  <2> QED
    BY <2>2, <2>3 DEF StageAfter
<1> QED
  BY <1>1, Agreement, Accounts, PTL
=============================================================================
