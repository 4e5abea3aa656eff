--------------------------- MODULE SessionLogProofs ---------------------------
(***************************************************************************)
(* What the readers of SessionLog and the two decision functions of        *)
(* Orchestrator see of a log when one event is added to it, for any log    *)
(* and any event: the lemmas proofs about a session are made of.           *)
(***************************************************************************)
EXTENDS Orchestrator, FiniteSetTheorems, SequenceTheorems, WellFoundedInduction, TLAPS

\* M is L with e behind it.
Adds(L, M, e) ==
  /\ Len(L) \in Nat
  /\ DOMAIN L = 1 .. Len(L)
  /\ Len(M) = Len(L) + 1
  /\ DOMAIN M = 1 .. Len(L) + 1
  /\ \A i \in 1 .. Len(L) : M[i] = L[i]
  /\ M[Len(L) + 1] = e

\* What Append does.
LEMMA AppendAdds ==
  ASSUME NEW S, NEW L \in Seq(S), NEW e \in S
  PROVE  Adds(L, Append(L, e), e) /\ Append(L, e) \in Seq(S)
BY DEF Adds

\* The idempotent append adds the event or finds its key.
LEMMA IdemAppendAdds ==
  ASSUME NEW S, NEW L \in Seq(S), NEW e \in S
  PROVE  /\ IdemAppend(L, e) \in Seq(S)
         /\ \/ IdemAppend(L, e) = L /\ ~ Keyless(e) /\ \E i \in DOMAIN L : SameKey(L[i], e)
            \/ /\ Adds(L, IdemAppend(L, e), e)
               /\ Keyless(e) \/ \A i \in DOMAIN L : ~ SameKey(L[i], e)
BY AppendAdds DEF IdemAppend

-----------------------------------------------------------------------------
(* Least and greatest positions. *)

\* Every set of natural numbers that has a member has a least one.
LEMMA Least ==
  ASSUME NEW T \in SUBSET Nat, T # {}
  PROVE  \E m \in T : \A k \in T : m <= k
<1> DEFINE R == {ss \in Nat \X Nat : ss[1] < ss[2]}
<1>1. IsWellFoundedOn(R, Nat)
  BY NatLessThanWellFounded DEF OpToRel
<1>2. PICK m \in T : \A k \in T : ~ (<<k, m>> \in R)
  <2> HIDE DEF R
  <2> QED
    BY <1>1, WFMin
<1>3. \A k \in T : m <= k
  <2> SUFFICES ASSUME NEW k \in T, ~ (m <= k) PROVE FALSE
    OBVIOUS
  <2>1. <<k, m>> \in Nat \X Nat /\ k < m
    OBVIOUS
  <2>2. <<k, m>> \in R
    BY <2>1
  <2> QED
    BY <1>2, <2>2
<1> QED
  BY <1>3

\* A bounded one has a greatest.
LEMMA Greatest ==
  ASSUME NEW n \in Nat, NEW T \in SUBSET (1 .. n), T # {}
  PROVE  \E m \in T : \A k \in T : k <= m
<1> DEFINE above == {b \in Nat : \A k \in T : k <= b}
<1>1. n \in above
  OBVIOUS
<1>2. PICK b \in above : \A c \in above : b <= c
  BY <1>1, Least
<1>3. b \in T
  <2> SUFFICES ASSUME b \notin T PROVE FALSE
    OBVIOUS
  <2>1. \A k \in T : k < b /\ k \in Nat \ {0}
    BY <1>2
  <2>2. b - 1 \in above
    <3>1. b \in Nat \ {0}
      <4>1. PICK k \in T : TRUE
        OBVIOUS
      <4>2. b \in Nat /\ k \in Nat /\ k < b
        BY <1>2, <2>1
      <4> QED
        BY <4>2
    <3>2. ASSUME NEW k \in T PROVE k <= b - 1
      <4>1. k \in Nat /\ b \in Nat /\ k < b
        BY <2>1, <3>1
      <4> QED
        BY <4>1
    <3> QED
      BY <3>1, <3>2
  <2>3. ~ (b <= b - 1)
    BY <1>2
  <2> QED
    BY <1>2, <2>2, <2>3
<1> QED
  BY <1>2, <1>3

\* LastOf is the greatest position there is, or 0.
LEMMA LastOfSet ==
  ASSUME NEW n \in Nat, NEW T \in SUBSET (1 .. n)
  PROVE  /\ T = {} => LastOf(T) = 0
         /\ T # {} => LastOf(T) \in T /\ \A k \in T : k <= LastOf(T)
<1>1. CASE T = {}
  BY <1>1 DEF LastOf
<1>2. CASE T # {}
  <2>1. \E m \in T : \A k \in T : k <= m
    BY <1>2, Greatest
  <2> QED
    BY <1>2, <2>1 DEF LastOf
<1> QED
  BY <1>1, <1>2

\* The numbers of a set of positions, in order, are a sequence over it.
LEMMA InOrderIsSeq ==
  ASSUME NEW n \in Nat, NEW I \in SUBSET (1 .. n), NEW s \in InOrder(I)
  PROVE  s \in Seq(I)
<1>1. IsFiniteSet(1 .. n)
  BY FS_Interval
<1>2. Cardinality(I) \in Nat
  BY <1>1, FS_Subset, FS_CardinalityType
<1> QED
  BY <1>2 DEF InOrder

-----------------------------------------------------------------------------
(* Positions and what is logged. *)

\* An event added is one more place for its type and no place for another.
LEMMA AddsPositions ==
  ASSUME NEW L, NEW M, NEW e, Adds(L, M, e), NEW types
  PROVE  /\ Positions(L, types) \subseteq 1 .. Len(L)
         /\ Positions(M, types) = Positions(L, types)
                                    \cup (IF e.type \in types THEN {Len(L) + 1} ELSE {})
BY DEF Adds, Positions

\* A type that is not added.
LEMMA AddsOther ==
  ASSUME NEW L, NEW M, NEW e, Adds(L, M, e), NEW types, e.type \notin types
  PROVE  Positions(M, types) = Positions(L, types)
BY DEF Adds, Positions

\* What is logged was logged before or has been added.
LEMMA AddsLogged ==
  ASSUME NEW L, NEW M, NEW e, Adds(L, M, e), NEW type, NEW id
  PROVE  Logged(M, type, id) <=> (Logged(L, type, id) \/ (e.type = type /\ e.id = id))
BY DEF Adds, Logged

\* A turn of an actor is added, or none.
LEMMA AddsTurns ==
  ASSUME NEW L, NEW M, NEW e, Adds(L, M, e), NEW actor
  PROVE  TurnsOf(M, actor) =
           TurnsOf(L, actor) \cup (IF e.type = "TurnPosted" /\ e.actor = actor
                                   THEN {Len(L) + 1} ELSE {})
<1>1. Positions(M, {"TurnPosted"}) =
        Positions(L, {"TurnPosted"}) \cup (IF e.type \in {"TurnPosted"} THEN {Len(L) + 1} ELSE {})
  BY AddsPositions
<1>2. Positions(L, {"TurnPosted"}) \subseteq 1 .. Len(L)
  BY AddsPositions
<1>3. M[Len(L) + 1] = e /\ \A i \in 1 .. Len(L) : M[i] = L[i]
  BY DEF Adds
<1>4. CASE e.type = "TurnPosted"
  <2>1. \A i : i \in TurnsOf(M, actor) <=>
          i \in TurnsOf(L, actor) \/ (i = Len(L) + 1 /\ e.actor = actor)
    BY <1>1, <1>2, <1>3, <1>4 DEF TurnsOf
  <2> QED
    BY <1>4, <2>1
<1>5. CASE e.type # "TurnPosted"
  BY <1>1, <1>2, <1>3, <1>5 DEF TurnsOf
<1> QED
  BY <1>4, <1>5

-----------------------------------------------------------------------------
(* Which problem is active. *)

\* OneProblemAtATime, of any log.
Alone(L) ==
  \A i, j \in Positions(L, {"ProblemIntroduced"}) :
    i < j => \E k \in i .. j : L[k].type = "ProblemClosed" /\ L[k].id = L[i].id

AnyActive(L) == \E p : Active(L, p)

\* An introduction activates its problem, a closing ends it, nothing else counts.
LEMMA AddsActive ==
  ASSUME NEW L, NEW M, NEW e, Adds(L, M, e), NEW p
  PROVE  /\ e.type = "ProblemIntroduced" /\ e.id = p => Active(M, p)
         /\ e.type = "ProblemClosed" /\ e.id = p => ~ Active(M, p)
         /\ ~ (e.type \in {"ProblemIntroduced", "ProblemClosed"} /\ e.id = p)
              => (Active(M, p) <=> Active(L, p))
<1> DEFINE n == Len(L)
<1>1. /\ n \in Nat /\ DOMAIN L = 1 .. n /\ DOMAIN M = 1 .. n + 1 /\ Len(M) = n + 1
      /\ \A i \in 1 .. n : M[i] = L[i]
      /\ M[n + 1] = e
  BY DEF Adds
<1> HIDE DEF n
<1>2. \A i \in 1 .. n : \A j \in i .. n + 1 : j \in i .. n \/ j = n + 1
  BY <1>1
<1>3. CASE e.type = "ProblemIntroduced" /\ e.id = p
  <2>1. n + 1 \in DOMAIN M /\ \A j \in n + 1 .. Len(M) : j = n + 1
    BY <1>1
  <2> QED
    BY <1>1, <1>3, <2>1 DEF Active
<1>4. CASE e.type = "ProblemClosed" /\ e.id = p
  <2>1. \A i \in DOMAIN M : n + 1 \in i .. Len(M)
    BY <1>1
  <2> QED
    BY <1>1, <1>4, <2>1 DEF Active
<1>5. CASE ~ (e.type \in {"ProblemIntroduced", "ProblemClosed"} /\ e.id = p)
  <2>1. ASSUME NEW i \in 1 .. n
        PROVE  (\E j \in i .. Len(M) : M[j].type = "ProblemClosed" /\ M[j].id = p)
                 <=> (\E j \in i .. Len(L) : L[j].type = "ProblemClosed" /\ L[j].id = p)
    <3>1. \A j \in i .. n : j \in 1 .. n /\ j \in i .. n + 1
      BY <1>1
    <3> QED
      BY <1>1, <1>2, <1>5, <3>1 DEF n
  <2>2. \A i \in DOMAIN M : i \in 1 .. n \/ i = n + 1
    BY <1>1
  <2> QED
    BY <1>1, <1>5, <2>1, <2>2 DEF Active
<1> QED
  BY <1>3, <1>4, <1>5, <1>1

\* Of two problems active in one log, neither was introduced before the other.
LEMMA OneActive ==
  ASSUME NEW S, NEW L \in Seq(S), Alone(L), NEW p, NEW q, Active(L, p), Active(L, q)
  PROVE  p = q
<1>1. PICK i \in DOMAIN L : /\ L[i].type = "ProblemIntroduced" /\ L[i].id = p
                            /\ ~ \E k \in i .. Len(L) : L[k].type = "ProblemClosed" /\ L[k].id = p
  BY DEF Active
<1>2. PICK j \in DOMAIN L : /\ L[j].type = "ProblemIntroduced" /\ L[j].id = q
                            /\ ~ \E k \in j .. Len(L) : L[k].type = "ProblemClosed" /\ L[k].id = q
  BY DEF Active
<1>3. DOMAIN L = 1 .. Len(L) /\ Len(L) \in Nat
  OBVIOUS
<1>4. i \in Positions(L, {"ProblemIntroduced"}) /\ j \in Positions(L, {"ProblemIntroduced"})
  BY <1>1, <1>2 DEF Positions
<1>5. ~ (i < j)
  <2>1. \A k \in i .. j : k \in i .. Len(L)
    BY <1>3
  <2> QED
    BY <1>1, <1>4, <2>1 DEF Alone
<1>6. ~ (j < i)
  <2>1. \A k \in j .. i : k \in j .. Len(L)
    BY <1>3
  <2> QED
    BY <1>2, <1>4, <2>1 DEF Alone
<1>7. i = j
  BY <1>3, <1>5, <1>6
<1> QED
  BY <1>1, <1>2, <1>7

\* current_problem_id is the problem that is active, and None when none is.
LEMMA CurrentIsActive ==
  ASSUME NEW S, NEW L \in Seq(S), Alone(L),
         \A i \in Positions(L, {"ProblemIntroduced"}) : L[i].id # None
  PROVE  /\ CurrentProblem(L) # None => Active(L, CurrentProblem(L))
         /\ \A p : Active(L, p) => CurrentProblem(L) = p
<1> DEFINE T == Positions(L, {"ProblemIntroduced"})
           last == LastOf(T)
<1>1. Len(L) \in Nat /\ DOMAIN L = 1 .. Len(L) /\ T \subseteq 1 .. Len(L)
  BY DEF Positions
<1>2. /\ T = {} => last = 0
      /\ T # {} => last \in T /\ \A k \in T : k <= last
  BY <1>1, LastOfSet
<1>3. CurrentProblem(L) # None => Active(L, CurrentProblem(L))
  BY DEF CurrentProblem
<1>4. ASSUME NEW p, Active(L, p) PROVE CurrentProblem(L) = p
  <2>1. PICK i \in DOMAIN L :
          /\ L[i].type = "ProblemIntroduced" /\ L[i].id = p
          /\ ~ \E k \in i .. Len(L) : L[k].type = "ProblemClosed" /\ L[k].id = p
    BY <1>4 DEF Active
  <2>2. i \in T
    BY <2>1 DEF Positions
  <2>3. last \in T /\ i <= last /\ last \in 1 .. Len(L)
    BY <1>1, <1>2, <2>2
  <2>4. ~ (i < last)
    <3>1. \A k \in i .. last : k \in i .. Len(L)
      BY <1>1, <2>3
    <3> HIDE DEF last
    <3> QED
      BY <2>1, <2>2, <2>3, <3>1 DEF Alone
  <2>5. last = i /\ last # 0
    BY <1>1, <2>3, <2>4
  <2> QED
    BY <1>4, <2>1, <2>5 DEF CurrentProblem
<1> QED
  BY <1>3, <1>4

-----------------------------------------------------------------------------
(* What an event does not change. *)

\* The active problem changes by introductions and closings only.
LEMMA AddsCurrent ==
  ASSUME NEW L, NEW M, NEW e, Adds(L, M, e),
         e.type \notin {"ProblemIntroduced", "ProblemClosed"}
  PROVE  CurrentProblem(M) = CurrentProblem(L)
<1> DEFINE T == Positions(L, {"ProblemIntroduced"})
           last == LastOf(T)
<1>1. Positions(M, {"ProblemIntroduced"}) = T
  BY AddsOther
<1>2. T \subseteq 1 .. Len(L) /\ Len(L) \in Nat
  BY AddsPositions DEF Adds
<1>3. last # 0 => last \in T
  BY <1>2, LastOfSet
<1>4. last # 0 => M[last] = L[last]
  BY <1>2, <1>3 DEF Adds
<1>5. \A p : Active(M, p) <=> Active(L, p)
  BY AddsActive
<1> HIDE DEF T, last
<1>6. CurrentProblem(L) = IF last # 0 /\ Active(L, L[last].id) THEN L[last].id ELSE None
  BY DEF CurrentProblem, T, last
<1>7. CurrentProblem(M) = IF last # 0 /\ Active(M, M[last].id) THEN M[last].id ELSE None
  BY <1>1 DEF CurrentProblem, last
<1> QED
  BY <1>4, <1>5, <1>6, <1>7

\* The last turn changes by turns only, and with it whether the examiner is needed.
LEMMA AddsLastTurn ==
  ASSUME NEW L, NEW M, NEW e, Adds(L, M, e), e.type # "TurnPosted"
  PROVE  /\ LastTurn(M) = LastTurn(L)
         /\ LastTurn(L) # 0 => M[LastTurn(L)] = L[LastTurn(L)]
         /\ e.type \notin {"ProblemIntroduced", "ProblemClosed"} =>
              (NeedsExaminer(M) <=> NeedsExaminer(L))
<1> DEFINE T == Positions(L, {"TurnPosted"})
<1>1. Positions(M, {"TurnPosted"}) = T
  BY AddsOther
<1>2. T \subseteq 1 .. Len(L) /\ Len(L) \in Nat
  BY AddsPositions DEF Adds
<1>3. LastOf(T) # 0 => LastOf(T) \in T
  BY <1>2, LastOfSet
<1>4. LastTurn(M) = LastTurn(L) /\ (LastTurn(L) # 0 => M[LastTurn(L)] = L[LastTurn(L)])
  BY <1>1, <1>2, <1>3 DEF Adds, LastTurn
<1>5. e.type \notin {"ProblemIntroduced", "ProblemClosed"} => CurrentProblem(M) = CurrentProblem(L)
  BY AddsCurrent
<1> QED
  BY <1>4, <1>5 DEF NeedsExaminer

\* Scoring that is all completed stays so until more is requested.
LEMMA AddsReady ==
  ASSUME NEW L, NEW M, NEW e, Adds(L, M, e), e.type # "ScoringRequested", AsyncScoringReady(L)
  PROVE  AsyncScoringReady(M)
<1>1. Positions(M, {"ScoringRequested"}) = Positions(L, {"ScoringRequested"})
  BY AddsOther
<1>2. /\ Len(L) \in Nat /\ DOMAIN L = 1 .. Len(L) /\ Len(M) = Len(L) + 1
      /\ DOMAIN M = 1 .. Len(L) + 1 /\ \A i \in 1 .. Len(L) : M[i] = L[i]
  BY DEF Adds
<1>3. \A types : \A i \in Positions(L, types) : i \in Positions(M, types) /\ M[i] = L[i] /\ i \in 1 .. Len(L)
  BY <1>2 DEF Positions
<1>4. Requested(M) = Requested(L)
  BY <1>1, <1>3 DEF Requested
<1>5. Completed(L) \subseteq Completed(M)
  BY <1>3 DEF Completed
<1>6. Pending(M) = {}
  <2> SUFFICES ASSUME NEW j \in Positions(M, {"ScoringRequested"})
               PROVE  \E k \in j .. Len(M) : M[k].type = "ScoringCompleted" /\ M[k].id = M[j].id
    BY DEF Pending
  <2>1. j \in Positions(L, {"ScoringRequested"}) /\ M[j] = L[j] /\ j \in 1 .. Len(L)
    BY <1>1, <1>3
  <2>2. PICK k \in j .. Len(L) : L[k].type = "ScoringCompleted" /\ L[k].id = L[j].id
    BY <2>1 DEF AsyncScoringReady, Pending
  <2>3. k \in 1 .. Len(L) /\ k \in j .. Len(M)
    BY <1>2, <2>1
  <2> QED
    BY <1>2, <2>1, <2>2, <2>3
<1> QED
  BY <1>4, <1>5, <1>6 DEF AsyncScoringReady

-----------------------------------------------------------------------------
(* Prefixes, and what is counted by them. *)

\* The log as it was at a position is not changed by what comes behind.
LEMMA AddsPrefix ==
  ASSUME NEW S, NEW L \in Seq(S), NEW M \in Seq(S), NEW e, Adds(L, M, e)
  PROVE  /\ \A i \in 1 .. Len(L) : SubSeq(M, 1, i) = SubSeq(L, 1, i)
         /\ SubSeq(M, 1, Len(L) + 1) = M
<1>1. /\ Len(L) \in Nat /\ Len(M) = Len(L) + 1
      /\ \A i \in 1 .. Len(L) : M[i] = L[i]
  BY DEF Adds
<1>2. ASSUME NEW i \in 1 .. Len(L) PROVE SubSeq(M, 1, i) = SubSeq(L, 1, i)
  <2>1. /\ SubSeq(M, 1, i) \in Seq(S) /\ Len(SubSeq(M, 1, i)) = i
        /\ SubSeq(L, 1, i) \in Seq(S) /\ Len(SubSeq(L, 1, i)) = i
    BY <1>1
  <2>2. \A j \in 1 .. i : SubSeq(M, 1, i)[j] = M[j] /\ SubSeq(L, 1, i)[j] = L[j] /\ M[j] = L[j]
    BY <1>1
  <2> QED
    BY <2>1, <2>2, SeqEqual
<1>3. SubSeq(M, 1, Len(M)) = M
  <2>1. /\ SubSeq(M, 1, Len(M)) \in Seq(S) /\ Len(SubSeq(M, 1, Len(M))) = Len(M)
        /\ \A j \in 1 .. Len(M) : SubSeq(M, 1, Len(M))[j] = M[j]
    BY <1>1
  <2> QED
    BY <2>1, SeqEqual
<1> QED
  BY <1>1, <1>2, <1>3

\* The probes posted while p was active.
ProbesOf(L, p) ==
  {i \in TurnsOf(L, "examiner") : L[i].kind = "probe" /\ Active(SubSeq(L, 1, i), p)}

IsProbe(e) == e.type = "TurnPosted" /\ e.actor = "examiner"

\* A problem's count is a number.
LEMMA ProbesAreCounted ==
  ASSUME NEW S, NEW L \in Seq(S), NEW p
  PROVE  /\ ProbeCount(L, p) = Cardinality(ProbesOf(L, p)) /\ ProbeCount(L, p) \in Nat
         /\ IsFiniteSet(ProbesOf(L, p)) /\ ProbesOf(L, p) \subseteq 1 .. Len(L)
<1>1. ProbesOf(L, p) \subseteq 1 .. Len(L) /\ IsFiniteSet(1 .. Len(L))
  BY FS_Interval DEF ProbesOf, TurnsOf, Positions
<1> QED
  BY <1>1, FS_Subset, FS_CardinalityType DEF ProbesOf, ProbeCount

\* It grows by one when a probe is posted while the problem is active.
LEMMA AddsProbe ==
  ASSUME NEW S, NEW L \in Seq(S), NEW M \in Seq(S), NEW e, Adds(L, M, e), NEW p
  PROVE  \/ ProbeCount(M, p) = ProbeCount(L, p)
         \/ IsProbe(e) /\ Active(L, p) /\ ProbeCount(M, p) = ProbeCount(L, p) + 1
<1> DEFINE n == Len(L)
<1>1. /\ n \in Nat /\ M[n + 1] = e /\ \A i \in 1 .. n : M[i] = L[i]
  BY DEF Adds
<1>2. TurnsOf(M, "examiner") = TurnsOf(L, "examiner") \cup (IF IsProbe(e) THEN {n + 1} ELSE {})
  BY AddsTurns DEF IsProbe
<1>3. TurnsOf(L, "examiner") \subseteq 1 .. n
  BY DEF TurnsOf, Positions
<1>4. \A i \in 1 .. n : SubSeq(M, 1, i) = SubSeq(L, 1, i)
  BY AddsPrefix
<1>5. SubSeq(M, 1, n + 1) = M
  BY AddsPrefix
<1>6. IsProbe(e) => (Active(M, p) <=> Active(L, p))
  BY AddsActive DEF IsProbe
<1>7. IsFiniteSet(ProbesOf(L, p)) /\ ProbesOf(L, p) \subseteq 1 .. n
  BY ProbesAreCounted
<1>8. ProbeCount(L, p) = Cardinality(ProbesOf(L, p)) /\ ProbeCount(M, p) = Cardinality(ProbesOf(M, p))
  BY ProbesAreCounted
<1> HIDE DEF n
<1>9. \A i \in 1 .. n : i \in ProbesOf(M, p) <=> i \in ProbesOf(L, p)
  <2> SUFFICES ASSUME NEW i \in 1 .. n PROVE i \in ProbesOf(M, p) <=> i \in ProbesOf(L, p)
    OBVIOUS
  <2>1. i # n + 1
    BY <1>1
  <2>2. i \in TurnsOf(M, "examiner") <=> i \in TurnsOf(L, "examiner")
    BY <1>2, <2>1
  <2>3. M[i] = L[i] /\ SubSeq(M, 1, i) = SubSeq(L, 1, i)
    BY <1>1, <1>4
  <2> QED
    BY <2>2, <2>3 DEF ProbesOf
<1>10. ProbesOf(M, p) \subseteq (1 .. n) \cup (IF IsProbe(e) THEN {n + 1} ELSE {})
  BY <1>2, <1>3 DEF ProbesOf
<1>11. n + 1 \in ProbesOf(M, p) => IsProbe(e) /\ Active(L, p)
  <2>1. n + 1 \notin 1 .. n
    BY <1>1
  <2>2. n + 1 \in ProbesOf(M, p) => Active(M, p)
    BY <1>5 DEF ProbesOf
  <2> QED
    BY <1>6, <1>10, <2>1, <2>2
<1>12. CASE n + 1 \in ProbesOf(M, p)
  <2>1. ProbesOf(M, p) = ProbesOf(L, p) \cup {n + 1} /\ n + 1 \notin ProbesOf(L, p)
    BY <1>1, <1>7, <1>9, <1>10, <1>12
  <2>2. Cardinality(ProbesOf(L, p) \cup {n + 1}) = Cardinality(ProbesOf(L, p)) + 1
    BY <1>7, <2>1, FS_AddElement
  <2> QED
    BY <1>8, <1>11, <1>12, <2>1, <2>2
<1>13. CASE n + 1 \notin ProbesOf(M, p)
  <2>1. ProbesOf(M, p) = ProbesOf(L, p)
    BY <1>7, <1>9, <1>10, <1>13
  <2> QED
    BY <1>8, <2>1
<1> QED
  BY <1>12, <1>13
=============================================================================
