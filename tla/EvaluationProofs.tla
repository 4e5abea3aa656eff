-------------------------- MODULE EvaluationProofs --------------------------
(***************************************************************************)
(* Proofs about Evaluation for any rubric, any signals, forms, problems    *)
(* and crashes.  First what SumFunction, a fold, is worth over any finite  *)
(* set: a claim about sums that failed for some set would fail for one     *)
(* without a smaller such set, and taking one element from it contradicts  *)
(* that.  Then the aggregator: a score is a rounded mean, and a mean is    *)
(* within its values.  Last the invariants: who is being served and what   *)
(* is yet to be stored (Serves, Full), that reviewers are heard (Heard),   *)
(* and that every score rests on signals in the log (Backed).              *)
(***************************************************************************)
EXTENDS Evaluation, ProblemSelectionProofs, WellFoundedInduction

-----------------------------------------------------------------------------
(* Sums over finite sets. *)

\* The element a fold takes next.
Pick(s) == CHOOSE x \in s : TRUE

\* What a sum leaves, if the element taken next is left out.
Less(s) == s \ {Pick(s)}

\* g is the sum of f on every one of the sets ss.
Sums(g, f, ss) == g = [s \in ss |-> IF s = {} THEN 0 ELSE f[Pick(s)] + g[Less(s)]]

\* g has the sum of f over S, and that over each subset, built up one by one.
Stepwise(g, f, S) ==
  /\ g \in [SUBSET S -> Nat] /\ SumFunction(f) = g[S]
  /\ \A s \in SUBSET S : IF s = {} THEN g[s] = 0 ELSE g[s] = f[Pick(s)] + g[Less(s)]

\* Every set of natural numbers that has a member has a least one.
LEMMA LeastNumber ==
  ASSUME NEW T \in SUBSET Nat, T # {}
  PROVE  \E m \in T : \A k \in T : m <= k
<1> DEFINE R == {ss \in Nat \X Nat : ss[1] < ss[2]}
<1>1. IsWellFoundedOn(R, Nat)
  BY NatLessThanWellFounded DEF OpToRel
<1>2. PICK m \in T : \A k \in T : ~ (<<k, m>> \in R)
  <2> HIDE DEF R
  <2> QED
    BY <1>1, WFMin
<1>3. \A k \in T : m <= k
  <2> SUFFICES ASSUME NEW k \in T, ~ (m <= k) PROVE FALSE
    OBVIOUS
  <2>1. <<k, m>> \in Nat \X Nat /\ k < m
    OBVIOUS
  <2>2. <<k, m>> \in R
    BY <2>1
  <2> QED
    BY <1>2, <2>2
<1> QED
  BY <1>3

\* A set of subsets of a finite set that has a member has one of least size.
LEMMA SmallestSubset ==
  ASSUME NEW S, IsFiniteSet(S), NEW T \in SUBSET SUBSET S, T # {}
  PROVE  \E t \in T : \A u \in T : ~ (u \subseteq t /\ u # t)
<1> DEFINE R == StrictSubsetOrdering(S)
<1>1. IsWellFoundedOn(R, SUBSET S)
  BY FS_StrictSubsetOrderingWellFounded, FS_FiniteSubsetsOfFinite
<1>2. \A t, u \in SUBSET S : u \subseteq t /\ u # t => <<u, t>> \in R
  BY DEF StrictSubsetOrdering
<1> HIDE DEF R
<1>3. PICK t \in T : \A u \in T : ~ (<<u, t>> \in R)
  BY <1>1, WFMin
<1> QED
  BY <1>2, <1>3

\* The element taken next is one of the set.
LEMMA PickIsMember == ASSUME NEW s, s # {} PROVE Pick(s) \in s /\ Less(s) \subseteq s /\ Less(s) # s
BY DEF Pick, Less

\* There are sums of every finite set of subsets closed under leaving out.
LEMMA SumsExist ==
  ASSUME NEW S, IsFiniteSet(S), NEW f \in [S -> Nat]
  PROVE  \E g : Sums(g, f, SUBSET S)
<1> DEFINE upTo(n) == {s \in SUBSET S : Cardinality(s) <= n}
           bad == {n \in Nat : ~ \E g : Sums(g, f, upTo(n))}
<1>1. \A s \in SUBSET S : IsFiniteSet(s) /\ Cardinality(s) \in Nat /\ Cardinality(s) <= Cardinality(S)
  BY FS_Subset, FS_CardinalityType
<1>2. \A s \in SUBSET S : s # {} => /\ Less(s) \in SUBSET S
                                   /\ Cardinality(Less(s)) = Cardinality(s) - 1
  <2> SUFFICES ASSUME NEW s \in SUBSET S, s # {}
               PROVE  Less(s) \in SUBSET S /\ Cardinality(Less(s)) = Cardinality(s) - 1
    OBVIOUS
  <2>1. Cardinality(s \ {Pick(s)}) = Cardinality(s) - 1
    BY <1>1, PickIsMember, FS_RemoveElement
  <2> QED
    BY <2>1, PickIsMember DEF Less
<1>3. bad = {}
  <2> SUFFICES ASSUME bad # {} PROVE FALSE
    OBVIOUS
  <2>1. PICK n \in bad : \A k \in bad : n <= k
    BY LeastNumber
  <2>2. n \in Nat /\ ~ \E g : Sums(g, f, upTo(n))
    BY <2>1
  <2>3. CASE n = 0
    <3> DEFINE g == [s \in upTo(0) |-> 0]
    <3>1. \A s \in upTo(0) : s = {}
      BY <1>1, FS_EmptySet
    <3>2. Sums(g, f, upTo(0))
      <4>1. \A s \in upTo(0) : (IF s = {} THEN 0 ELSE f[Pick(s)] + g[Less(s)]) = 0
        BY <3>1
      <4>2. [s \in upTo(0) |-> IF s = {} THEN 0 ELSE f[Pick(s)] + g[Less(s)]] = [s \in upTo(0) |-> 0]
        BY <4>1
      <4> QED
        BY <4>2 DEF Sums
    <3> QED
      BY <2>2, <2>3, <3>2
  <2>4. CASE n # 0
    <3>0. n - 1 \in Nat /\ n - 1 \notin bad
      <4>1. n \in Nat /\ \A k \in bad : n <= k
        BY <2>1, <2>2
      <4> HIDE DEF bad
      <4> QED
        BY <2>4, <4>1
    <3>1. n - 1 \in Nat /\ \E h : Sums(h, f, upTo(n - 1))
      BY <3>0
    <3>2. PICK h : Sums(h, f, upTo(n - 1))
      BY <3>1
    <3> DEFINE sum(k, s) == IF s = {} THEN 0 ELSE f[Pick(s)] + k[Less(s)]
               g == [s \in upTo(n) |-> sum(h, s)]
    <3>3. \A s \in upTo(n) : s # {} => Less(s) \in upTo(n - 1) /\ Less(s) \in upTo(n)
      BY <1>1, <1>2, <2>2
    <3>4. \A t \in upTo(n - 1) : h[t] = sum(h, t)
      BY <3>2, Zenon DEF Sums
    <3>5. \A t \in upTo(n - 1) : t \in upTo(n)
      BY <1>1, <2>2
    <3>6. \A t \in upTo(n - 1) : g[t] = h[t]
      <4> HIDE DEF sum, upTo
      <4> QED
        BY <3>4, <3>5
    <3>7. \A s \in upTo(n) : sum(g, s) = sum(h, s)
      <4> HIDE DEF g, upTo
      <4> QED
        BY <3>3, <3>6
    <3>8. g = [s \in upTo(n) |-> sum(g, s)]
      <4> DEFINE k == [s \in upTo(n) |-> sum(g, s)]
      <4>1. \A s \in upTo(n) : g[s] = k[s]
        <5> HIDE DEF upTo, sum
        <5> QED
          BY <3>7
      <4>2. DOMAIN g = upTo(n) /\ DOMAIN k = upTo(n)
        <5> HIDE DEF upTo, sum
        <5> QED
          OBVIOUS
      <4>3. g = [s \in upTo(n) |-> g[s]] /\ k = [s \in upTo(n) |-> k[s]]
        <5> HIDE DEF upTo, sum
        <5> QED
          OBVIOUS
      <4> HIDE DEF g, k
      <4>4. g = k
        <5> HIDE DEF upTo
        <5> QED
          BY <4>1, <4>3
      <4> QED
        BY <4>4 DEF k
    <3>9. Sums(g, f, upTo(n))
      BY <3>8, Zenon DEF Sums
    <3> QED
      BY <2>2, <3>9
  <2> QED
    BY <2>3, <2>4
<1>4. Cardinality(S) \in Nat /\ upTo(Cardinality(S)) = SUBSET S
  BY <1>1
<1>5. \E g : Sums(g, f, upTo(Cardinality(S)))
  <2> HIDE DEF upTo
  <2> QED
    BY <1>3, <1>4
<1> QED
  BY <1>4, <1>5, Zenon

\* SumFunction of a function to numbers is a sum of its values, one by one.
LEMMA SumIsStepwise ==
  ASSUME NEW S, IsFiniteSet(S), NEW f \in [S -> Nat]
  PROVE  \E g : Stepwise(g, f, S)
<1> DEFINE g == CHOOSE h : Sums(h, f, SUBSET S)
<1>1. SumFunction(f) = g[S]
  <2>1. DOMAIN f = S
    OBVIOUS
  <2>2. SumFunction(f) = (CHOOSE h : h = [s \in SUBSET DOMAIN f |->
                            IF s = {} THEN 0
                            ELSE f[CHOOSE x \in s : TRUE] + h[s \ {CHOOSE x \in s : TRUE}]])[DOMAIN f]
    BY DEF SumFunction, SumFunctionOnSet, FoldFunctionOnSet, MapThenFoldSet
  <2> QED
    BY <2>1, <2>2 DEF Sums, Pick, Less
<1>2. Sums(g, f, SUBSET S)
  <2>1. \E h : Sums(h, f, SUBSET S)
    BY SumsExist
  <2> QED
    BY <2>1, Zenon
<1> HIDE DEF g
<1>3. \A s \in SUBSET S : g[s] = IF s = {} THEN 0 ELSE f[Pick(s)] + g[Less(s)]
  BY <1>2, Zenon DEF Sums
<1>4. \A s \in SUBSET S : g[s] \in Nat
  <2> DEFINE odd == {s \in SUBSET S : g[s] \notin Nat}
  <2> SUFFICES ASSUME odd # {} PROVE FALSE
    OBVIOUS
  <2>0. odd \in SUBSET SUBSET S
    OBVIOUS
  <2>1. PICK t \in odd : \A u \in odd : ~ (u \subseteq t /\ u # t)
    <3> HIDE DEF odd
    <3> QED
      BY <2>0, SmallestSubset
  <2>2. t # {}
    BY <1>3
  <2>3. Pick(t) \in S /\ Less(t) \in SUBSET S /\ Less(t) \subseteq t /\ Less(t) # t
    BY <2>2, PickIsMember
  <2>4. g[Less(t)] \in Nat
    BY <2>1, <2>3
  <2>5. f[Pick(t)] \in Nat
    BY <2>3
  <2>6. g[t] = f[Pick(t)] + g[Less(t)]
    BY <1>3, <2>2
  <2> QED
    BY <2>4, <2>5, <2>6
<1>5. g \in [SUBSET S -> Nat]
  <2>1. g = [s \in SUBSET S |-> g[s]]
    BY <1>2, Zenon DEF Sums
  <2> QED
    BY <1>4, <2>1
<1> QED
  BY <1>1, <1>3, <1>5 DEF Stepwise

\* A sum is a number, and no less than any of its terms.
LEMMA SumBoundsTerms ==
  ASSUME NEW S, IsFiniteSet(S), NEW f \in [S -> Nat]
  PROVE  SumFunction(f) \in Nat /\ \A i \in S : f[i] <= SumFunction(f)
<1>1. PICK g : Stepwise(g, f, S)
  BY SumIsStepwise
<1>a. /\ g \in [SUBSET S -> Nat] /\ SumFunction(f) = g[S]
      /\ \A s \in SUBSET S : IF s = {} THEN g[s] = 0 ELSE g[s] = f[Pick(s)] + g[Less(s)]
  BY <1>1 DEF Stepwise
<1> DEFINE odd == {s \in SUBSET S : \E i \in s : ~ (f[i] <= g[s])}
<1>2. odd = {}
  <2> SUFFICES ASSUME odd # {} PROVE FALSE
    OBVIOUS
  <2>0. odd \in SUBSET SUBSET S
    OBVIOUS
  <2>1. PICK t \in odd : \A u \in odd : ~ (u \subseteq t /\ u # t)
    <3> HIDE DEF odd
    <3> QED
      BY <2>0, SmallestSubset
  <2>2. PICK i \in t : ~ (f[i] <= g[t])
    BY <2>1
  <2>3. Pick(t) \in S /\ Less(t) \in SUBSET S /\ Less(t) \subseteq t /\ Less(t) # t
    BY <2>2, PickIsMember
  <2>4. \A j \in Less(t) : f[j] <= g[Less(t)]
    BY <2>1, <2>3
  <2>5. f[Pick(t)] \in Nat /\ g[Less(t)] \in Nat /\ f[i] \in Nat
    <3>1. i \in S
      BY <2>0, <2>2
    <3> QED
      BY <1>a, <2>3, <3>1
  <2>6. g[t] = f[Pick(t)] + g[Less(t)]
    BY <1>a, <2>2
  <2>7. i = Pick(t) \/ i \in Less(t)
    BY <2>2 DEF Less
  <2> QED
    BY <2>2, <2>4, <2>5, <2>6, <2>7
<1> QED
  BY <1>a, <1>2

\* Where each term of a sum is at least m times that of another, so are the sums.
LEMMA SumAtLeast ==
  ASSUME NEW S, IsFiniteSet(S), NEW f \in [S -> Nat], NEW w \in [S -> Nat], NEW m \in Nat,
         \A i \in S : m * w[i] <= f[i]
  PROVE  m * SumFunction(w) <= SumFunction(f)
<1>1. PICK g : Stepwise(g, f, S)
  BY SumIsStepwise
<1>a. /\ g \in [SUBSET S -> Nat] /\ SumFunction(f) = g[S]
      /\ \A s \in SUBSET S : IF s = {} THEN g[s] = 0 ELSE g[s] = f[Pick(s)] + g[Less(s)]
  BY <1>1 DEF Stepwise
<1>2. PICK h : Stepwise(h, w, S)
  BY SumIsStepwise
<1>b. /\ h \in [SUBSET S -> Nat] /\ SumFunction(w) = h[S]
      /\ \A s \in SUBSET S : IF s = {} THEN h[s] = 0 ELSE h[s] = w[Pick(s)] + h[Less(s)]
  BY <1>2 DEF Stepwise
<1> DEFINE odd == {s \in SUBSET S : ~ (m * h[s] <= g[s])}
<1>3. odd = {}
  <2> SUFFICES ASSUME odd # {} PROVE FALSE
    OBVIOUS
  <2>0. odd \in SUBSET SUBSET S
    OBVIOUS
  <2>1. PICK t \in odd : \A u \in odd : ~ (u \subseteq t /\ u # t)
    <3> HIDE DEF odd
    <3> QED
      BY <2>0, SmallestSubset
  <2>2. t # {}
    <3>1. h[{}] = 0 /\ g[{}] = 0
      BY <1>a, <1>b
    <3>2. \A s \in odd : ~ (m * h[s] <= g[s])
      OBVIOUS
    <3>3. m * 0 <= 0
      OBVIOUS
    <3> QED
      BY <2>1, <3>1, <3>2, <3>3
  <2>3. Pick(t) \in S /\ Less(t) \in SUBSET S /\ Less(t) \subseteq t /\ Less(t) # t
    BY <2>2, PickIsMember
  <2>4. m * h[Less(t)] <= g[Less(t)] /\ m * w[Pick(t)] <= f[Pick(t)]
    BY <2>1, <2>3
  <2>5. g[t] = f[Pick(t)] + g[Less(t)] /\ h[t] = w[Pick(t)] + h[Less(t)]
    BY <1>a, <1>b, <2>2
  <2>6. \A a, b, c, d \in Nat : m * a <= b /\ m * c <= d => m * (a + c) <= b + d
    OBVIOUS
  <2>7. m * (w[Pick(t)] + h[Less(t)]) <= f[Pick(t)] + g[Less(t)]
    <3>1. /\ h[Less(t)] \in Nat /\ g[Less(t)] \in Nat
          /\ w[Pick(t)] \in Nat /\ f[Pick(t)] \in Nat
      BY <1>a, <1>b, <2>3
    <3> QED
      BY <2>4, <2>6, <3>1
  <2> QED
    BY <2>1, <2>5, <2>7
<1> QED
  BY <1>a, <1>b, <1>3

\* And where each is at most m times that of the other.
LEMMA SumAtMost ==
  ASSUME NEW S, IsFiniteSet(S), NEW f \in [S -> Nat], NEW w \in [S -> Nat], NEW m \in Nat,
         \A i \in S : f[i] <= m * w[i]
  PROVE  SumFunction(f) <= m * SumFunction(w)
<1>1. PICK g : Stepwise(g, f, S)
  BY SumIsStepwise
<1>a. /\ g \in [SUBSET S -> Nat] /\ SumFunction(f) = g[S]
      /\ \A s \in SUBSET S : IF s = {} THEN g[s] = 0 ELSE g[s] = f[Pick(s)] + g[Less(s)]
  BY <1>1 DEF Stepwise
<1>2. PICK h : Stepwise(h, w, S)
  BY SumIsStepwise
<1>b. /\ h \in [SUBSET S -> Nat] /\ SumFunction(w) = h[S]
      /\ \A s \in SUBSET S : IF s = {} THEN h[s] = 0 ELSE h[s] = w[Pick(s)] + h[Less(s)]
  BY <1>2 DEF Stepwise
<1> DEFINE odd == {s \in SUBSET S : ~ (g[s] <= m * h[s])}
<1>3. odd = {}
  <2> SUFFICES ASSUME odd # {} PROVE FALSE
    OBVIOUS
  <2>0. odd \in SUBSET SUBSET S
    OBVIOUS
  <2>1. PICK t \in odd : \A u \in odd : ~ (u \subseteq t /\ u # t)
    <3> HIDE DEF odd
    <3> QED
      BY <2>0, SmallestSubset
  <2>2. t # {}
    <3>1. h[{}] = 0 /\ g[{}] = 0
      BY <1>a, <1>b
    <3>2. \A s \in odd : ~ (g[s] <= m * h[s])
      OBVIOUS
    <3>3. 0 <= m * 0
      OBVIOUS
    <3> QED
      BY <2>1, <3>1, <3>2, <3>3
  <2>3. Pick(t) \in S /\ Less(t) \in SUBSET S /\ Less(t) \subseteq t /\ Less(t) # t
    BY <2>2, PickIsMember
  <2>4. g[Less(t)] <= m * h[Less(t)] /\ f[Pick(t)] <= m * w[Pick(t)]
    BY <2>1, <2>3
  <2>5. g[t] = f[Pick(t)] + g[Less(t)] /\ h[t] = w[Pick(t)] + h[Less(t)]
    BY <1>a, <1>b, <2>2
  <2>6. \A a, b, c, d \in Nat : b <= m * a /\ d <= m * c => b + d <= m * (a + c)
    OBVIOUS
  <2>7. f[Pick(t)] + g[Less(t)] <= m * (w[Pick(t)] + h[Less(t)])
    <3>1. /\ h[Less(t)] \in Nat /\ g[Less(t)] \in Nat
          /\ w[Pick(t)] \in Nat /\ f[Pick(t)] \in Nat
      BY <1>a, <1>b, <2>3
    <3> QED
      BY <2>4, <2>6, <3>1
  <2> QED
    BY <2>1, <2>5, <2>7
<1> QED
  BY <1>a, <1>b, <1>3

\* Where the code's rounding of n / d lies: within a half.
LEMMA RoundedNear ==
  ASSUME NEW n \in Nat, NEW d \in Nat \ {0}
  PROVE  /\ Rounded(n, d) \in Nat
         /\ 2 * d * Rounded(n, d) <= 2 * n + d
         /\ 2 * n + d < 2 * d * (Rounded(n, d) + 1)
BY DEF Rounded

\* A number is rounded to itself.
LEMMA RoundedToItself == ASSUME NEW n \in Nat PROVE Rounded(n, 1) = n
BY DEF Rounded

-----------------------------------------------------------------------------
(* The inductive invariants. *)

Steps == {"idle", "audit", "signal", "aggregate", "score", "problem"}
Kinds == {"new", "sent", "answered", "refused", "cut"}

Signals == [by : {"llm", "heuristic", "reviewer"}, dim : DOMAIN Weights,
            refs : SUBSET Nat, value : Nat, confidence : Nat]
Values  == UNION {[D -> Nat] : D \in SUBSET DOMAIN Weights}
Scores  == [per : Values, composite : Nat]
ByProblem == UNION {[P -> Scores] : P \in SUBSET Nat}
Requests  == [at : Steps, form : Overrides \cup {None}, score : Scores \cup {None},
              todo : ByProblem]

\* Types of the state beside the selection's.
Types ==
  /\ planned \in BOOLEAN /\ closed \in Nat /\ crashes \in Nat
  /\ keyed \in BOOLEAN /\ ended \in BOOLEAN /\ stale \in BOOLEAN
  /\ due \in Seq(1 .. MaxClosed) /\ judged \in SUBSET DOMAIN Weights
  /\ evidence \in Seq(Signals)
  /\ score \in Scores \cup {None} /\ feedback \in Scores \cup {None}
  /\ problemScores \in ByProblem
  /\ req \in Requests
  /\ form \in [Overrides -> Kinds]

\* What a request is at: an override goes through audit, signal and aggregate to its
\* score, a page view from its score to the problems.
Serves ==
  /\ req.at = "idle" => req = Idle
  /\ req.at \in {"audit", "signal", "aggregate"} => req.form # None
  /\ req.at = "problem" => req.form = None
  /\ req.form # None => form[req.form] = "sent"

Uncut == \A o \in Overrides : form[o] # "cut"

\* An override whose signal is stored and whose score is not.
Overriding == req.form # None /\ req.at \in {"aggregate", "score"}

\* The request's score and the feedback file are those of every signal.
Fresh == req.score = Aggregated(evidence) /\ feedback = Aggregated(evidence)

\* From the first final score on no signal but a reviewer's arrives, and each
\* request that stores one, or finds the scoring complete, makes up for it.
Full ==
  /\ keyed => Ready /\ ~ stale
  /\ ended \/ req.at = "problem" => keyed
  /\ req.at \in {"score", "problem"} /\ req.form = None => Ready /\ ~ stale /\ Fresh
  /\ keyed /\ req.at = "score" => Fresh
  /\ keyed /\ Uncut /\ ~ Overriding =>
       score = Aggregated(evidence) /\ feedback = Aggregated(evidence)

\* What reviewers gave dimension d, in the evidence E.
Given(E, d) == ShownOf(E, {i \in DOMAIN E : E[i].by = "reviewer" /\ E[i].dim = d})

\* A score says of the dimension of override o what reviewers do.
Says(E, s, o) == o.dim \in DOMAIN s.per /\ Within(s.per[o.dim], Given(E, o.dim))

Answered(o) == form[o] = "answered"

\* An answered override is in the evidence and in every score since, and so is one
\* about to be answered.
Heard ==
  /\ \A i \in DOMAIN evidence : evidence[i].by = "reviewer" => evidence[i].confidence # 0
  /\ \A o \in Overrides : Answered(o) \/ (Overriding /\ req.form = o) => Given(evidence, o.dim) # {}
  /\ req.at = "score" =>
       \A o \in Overrides : Answered(o) \/ req.form = o => Says(evidence, req.score, o)
  /\ \A o \in Overrides : Answered(o) => Says(evidence, score, o)

\* The score s lies within the signals at the positions is of E.
Sound(E, s, is) ==
  /\ \A d \in DOMAIN s.per :
       Within(s.per[d], ShownOf(E, {i \in is : E[i].dim = d}))
  /\ (\E d \in DOMAIN s.per : Weights[d] > 0) =>
       Within(s.composite, {s.per[d] : d \in DOMAIN s.per})

\* The signals about problem p
About(E, p) == {i \in DOMAIN E : p \in E[i].refs}

\* Scores are sound when computed, and signals are only added.
Backed ==
  /\ score # None => Sound(evidence, score, DOMAIN evidence)
  /\ req.at = "score" => Sound(evidence, req.score, DOMAIN evidence)
  /\ \A p \in DOMAIN problemScores : Sound(evidence, problemScores[p], About(evidence, p))
  /\ \A p \in DOMAIN req.todo : Sound(evidence, req.todo[p], About(evidence, p))

-----------------------------------------------------------------------------
(* What the aggregator computes. *)

\* A weighted mean of values in units of 1/g of a score's, rounded to those, lies
\* between the values, each rounded by itself.
LEMMA MeanBetween ==
  ASSUME NEW S, IsFiniteSet(S), S # {}, NEW v \in [S -> Nat], NEW w \in [S -> Nat],
         NEW f, f = [i \in S |-> v[i] * w[i]], SumFunction(w) # 0, NEW g \in Nat \ {0}
  PROVE  /\ Rounded(SumFunction(f), g * SumFunction(w)) \in Nat
         /\ \E i \in S : Rounded(v[i], g) <= Rounded(SumFunction(f), g * SumFunction(w))
         /\ \E i \in S : Rounded(SumFunction(f), g * SumFunction(w)) <= Rounded(v[i], g)
<1>1. \A a, b \in Nat : a * b \in Nat
  OBVIOUS
<1>2. f \in [S -> Nat] /\ \A i \in S : f[i] = v[i] * w[i] /\ v[i] \in Nat /\ w[i] \in Nat
  BY <1>1
<1> DEFINE W == SumFunction(w)
           F == SumFunction(f)
           q == Rounded(F, g * W)
<1>3. W \in Nat \ {0} /\ F \in Nat
  BY <1>2, SumBoundsTerms
<1> HIDE DEF W, F
<1>4. q \in Nat /\ 2 * (g * W) * q <= 2 * F + g * W /\ 2 * F + g * W < 2 * (g * W) * (q + 1)
  <2>1. g * W \in Nat \ {0}
    BY <1>3
  <2> QED
    BY <1>3, <2>1, RoundedNear
<1> HIDE DEF q
<1>5. \A i \in S : /\ Rounded(v[i], g) \in Nat
                   /\ 2 * g * Rounded(v[i], g) <= 2 * v[i] + g
                   /\ 2 * v[i] + g < 2 * g * (Rounded(v[i], g) + 1)
  BY <1>2, RoundedNear
<1>6. \A a, b, c \in Nat : a <= b => a * c <= b * c
  OBVIOUS
<1>7. \E i \in S : Rounded(v[i], g) <= q
  <2> SUFFICES ASSUME \A i \in S : ~ (Rounded(v[i], g) <= q) PROVE FALSE
    OBVIOUS
  <2> DEFINE half == (2 * q + 1) * g
             m == (half + 1) \div 2
  <2>1. half \in Nat
    BY <1>4
  <2>2. m \in Nat /\ half <= 2 * m /\ \A x \in Nat : half <= 2 * x => m <= x
    <3> HIDE DEF half
    <3> QED
      BY <2>1
  <2>3. ASSUME NEW i \in S PROVE half <= 2 * v[i]
    <3>1. q + 1 <= Rounded(v[i], g)
      BY <1>4, <1>5
    <3>2. 2 * g * (q + 1) <= 2 * g * Rounded(v[i], g)
      <4> DEFINE r == Rounded(v[i], g)
      <4>1. r \in Nat /\ q + 1 <= r
        BY <1>5, <3>1
      <4> HIDE DEF r
      <4>2. 2 * g * (q + 1) <= 2 * g * r
        BY <1>4, <4>1
      <4> QED
        BY <4>2 DEF r
    <3>3. 2 * g * (q + 1) = half + g
      BY <1>4
    <3> HIDE DEF half
    <3> DEFINE t == 2 * g * Rounded(v[i], g)
    <3>4. half + g <= t /\ t <= 2 * v[i] + g /\ t \in Int
      BY <1>4, <1>5, <3>2, <3>3
    <3> HIDE DEF t
    <3> QED
      BY <1>2, <2>1, <3>4
  <2> HIDE DEF m
  <2>4. ASSUME NEW i \in S PROVE m * w[i] <= f[i]
    <3>1. m <= v[i]
      BY <1>2, <2>2, <2>3
    <3> QED
      BY <1>2, <1>6, <2>2, <3>1
  <2>5. m * W <= F
    BY <1>2, <2>2, <2>4, SumAtLeast DEF W, F
  <2>6. half * W <= (2 * m) * W
    <3> HIDE DEF half
    <3>1. 2 * m \in Nat
      BY <2>2
    <3> QED
      BY <1>3, <1>6, <2>1, <2>2, <3>1
  <2>7. (2 * m) * W <= 2 * F
    BY <1>3, <2>2, <2>5
  <2>8. half * W + g * W = 2 * (g * W) * (q + 1)
    BY <1>3, <1>4
  <2>9. half * W \in Nat /\ g * W \in Nat /\ (2 * m) * W \in Nat
    <3> HIDE DEF half
    <3> QED
      BY <1>3, <2>1, <2>2
  <2> QED
    BY <1>3, <1>4, <2>6, <2>7, <2>8, <2>9
<1>8. \E i \in S : q <= Rounded(v[i], g)
  <2> SUFFICES ASSUME \A i \in S : ~ (q <= Rounded(v[i], g)) PROVE FALSE
    OBVIOUS
  <2> DEFINE less == 2 * q * g - g - 1
             m == less \div 2
  <2>1. less \in Int
    BY <1>4
  <2>2. ASSUME NEW i \in S PROVE 2 * v[i] <= less
    <3>1. Rounded(v[i], g) + 1 <= q
      BY <1>4, <1>5
    <3>2. 2 * g * (Rounded(v[i], g) + 1) <= 2 * g * q
      <4> DEFINE r == Rounded(v[i], g)
      <4>1. r \in Nat /\ r + 1 <= q
        BY <1>5, <3>1
      <4> HIDE DEF r
      <4>2. 2 * g * (r + 1) <= 2 * g * q
        BY <1>4, <4>1
      <4> QED
        BY <4>2 DEF r
    <3>3. 2 * g * q = less + g + 1
      BY <1>4
    <3> HIDE DEF less
    <3> DEFINE t == 2 * g * (Rounded(v[i], g) + 1)
    <3>4. 2 * v[i] + g < t /\ t <= less + g + 1 /\ t \in Int
      BY <1>4, <1>5, <3>2, <3>3
    <3> HIDE DEF t
    <3> QED
      BY <1>2, <2>1, <3>4
  <2>3. less \in Nat
    <3>1. PICK i \in S : TRUE
      OBVIOUS
    <3>2. 2 * v[i] <= less
      BY <2>2
    <3> HIDE DEF less
    <3> QED
      BY <1>2, <2>1, <3>2
  <2>4. m \in Nat /\ 2 * m <= less /\ \A x \in Nat : 2 * x <= less => x <= m
    <3> HIDE DEF less
    <3> QED
      BY <2>3
  <2> HIDE DEF m
  <2>5. ASSUME NEW i \in S PROVE f[i] <= m * w[i]
    <3>1. v[i] <= m
      BY <1>2, <2>2, <2>4
    <3> QED
      BY <1>2, <1>6, <2>4, <3>1
  <2>6. F <= m * W
    BY <1>2, <2>4, <2>5, SumAtMost DEF W, F
  <2>7. (2 * m) * W <= less * W
    <3> HIDE DEF less
    <3>1. 2 * m \in Nat
      BY <2>4
    <3> QED
      BY <1>3, <1>6, <2>3, <2>4, <3>1
  <2>8. 2 * F <= (2 * m) * W
    BY <1>3, <2>4, <2>6
  <2>9. less * W + g * W + W = 2 * (g * W) * q
    BY <1>3, <1>4
  <2>10. less * W \in Nat /\ g * W \in Nat /\ (2 * m) * W \in Nat
    <3> HIDE DEF less
    <3> QED
      BY <1>3, <2>3, <2>4
  <2> QED
    BY <1>3, <1>4, <2>7, <2>8, <2>9, <2>10
<1> QED
  BY <1>4, <1>7, <1>8 DEF q, F, W

\* The score of a dimension lies between the values of its signals, and there is one
\* if one of them has confidence.
LEMMA DimensionScoreWithin ==
  ASSUME NEW E \in Seq(Signals), NEW is \in SUBSET DOMAIN E, is # {}
  PROVE  /\ DimensionScore(E, is) # None =>
              /\ DimensionScore(E, is) \in Nat
              /\ Within(DimensionScore(E, is), ShownOf(E, is))
         /\ (\E i \in is : E[i].confidence # 0) => DimensionScore(E, is) # None
<1>1. IsFiniteSet(is)
  <2>1. IsFiniteSet(1 .. Len(E)) /\ DOMAIN E = 1 .. Len(E)
    BY FS_Interval
  <2> QED
    BY <2>1, FS_Subset
<1>2. \A i \in is : E[i] \in Signals /\ E[i].value \in Nat /\ E[i].confidence \in Nat
  <2>1. \A i \in DOMAIN E : E[i] \in Signals
    OBVIOUS
  <2>2. \A s \in Signals : s.value \in Nat /\ s.confidence \in Nat
    BY DEF Signals
  <2> QED
    BY <2>1, <2>2
<1> DEFINE v == [i \in is |-> E[i].value]
           w == [i \in is |-> IF Weighted THEN E[i].confidence ELSE 1]
           f == [i \in is |-> v[i] * w[i]]
<1>3. v \in [is -> Nat] /\ w \in [is -> Nat]
  BY <1>2
<1>4. [i \in is |-> E[i].value * w[i]] = f
  OBVIOUS
<1>5. ShownOf(E, is) = {Rounded(v[i], Grain) : i \in is}
  BY DEF ShownOf, Shown
<1>6. DimensionScore(E, is) = IF SumFunction(w) = 0 THEN None
                              ELSE Rounded(SumFunction(f), Grain * SumFunction(w))
  BY <1>4 DEF DimensionScore
<1>7. SumFunction(w) # 0 =>
        /\ Rounded(SumFunction(f), Grain * SumFunction(w)) \in Nat
        /\ Within(Rounded(SumFunction(f), Grain * SumFunction(w)),
                  {Rounded(v[i], Grain) : i \in is})
  <2>1. f = [i \in is |-> v[i] * w[i]]
    OBVIOUS
  <2> HIDE DEF v, w, f
  <2> SUFFICES ASSUME SumFunction(w) # 0
               PROVE  /\ Rounded(SumFunction(f), Grain * SumFunction(w)) \in Nat
                      /\ Within(Rounded(SumFunction(f), Grain * SumFunction(w)),
                                {Rounded(v[i], Grain) : i \in is})
    OBVIOUS
  <2>2. /\ Rounded(SumFunction(f), Grain * SumFunction(w)) \in Nat
        /\ \E i \in is : Rounded(v[i], Grain) <= Rounded(SumFunction(f), Grain * SumFunction(w))
        /\ \E i \in is : Rounded(SumFunction(f), Grain * SumFunction(w)) <= Rounded(v[i], Grain)
    BY <1>1, <1>3, <2>1, MeanBetween, GrainAssumption
  <2> QED
    BY <2>2 DEF Within
<1>8. (\E i \in is : E[i].confidence # 0) => SumFunction(w) # 0
  <2> SUFFICES ASSUME NEW i \in is, E[i].confidence # 0 PROVE SumFunction(w) # 0
    OBVIOUS
  <2>1. w[i] # 0 /\ w[i] \in Nat
    BY <1>2
  <2>2. SumFunction(w) \in Nat /\ w[i] <= SumFunction(w)
    <3> HIDE DEF w
    <3> QED
      BY <1>1, <1>3, SumBoundsTerms
  <2> HIDE DEF w
  <2> QED
    BY <2>1, <2>2
<1> HIDE DEF v, w, f
<1> QED
  BY <1>5, <1>6, <1>7, <1>8, NoneAssumption

\* The composite lies between the dimensions if one of them has weight.
LEMMA CompositeWithin ==
  ASSUME NEW per \in Values
  PROVE  /\ Composite(per) \in Nat
         /\ (\E d \in DOMAIN per : Weights[d] > 0) =>
              Within(Composite(per), {per[d] : d \in DOMAIN per})
<1> DEFINE S == DOMAIN per
           w == [d \in S |-> Weights[d]]
           f == [d \in S |-> per[d] * w[d]]
<1>1. S \subseteq DOMAIN Weights /\ per \in [S -> Nat]
  BY DEF Values
<1>2. IsFiniteSet(S)
  BY <1>1, WeightsAssumption, FS_Subset
<1>3. w \in [S -> Nat]
  BY <1>1, WeightsAssumption
<1>4. Composite(per) = IF SumFunction(w) = 0 THEN 0
                       ELSE Rounded(SumFunction(f), SumFunction(w))
  BY DEF Composite
<1>5. (\E d \in S : Weights[d] > 0) => SumFunction(w) # 0
  <2> SUFFICES ASSUME NEW d \in S, Weights[d] > 0 PROVE SumFunction(w) # 0
    OBVIOUS
  <2>1. w[d] > 0 /\ w[d] \in Nat
    BY <1>3
  <2>2. SumFunction(w) \in Nat /\ w[d] <= SumFunction(w)
    <3> HIDE DEF w, S
    <3> QED
      BY <1>2, <1>3, SumBoundsTerms
  <2> HIDE DEF w, S
  <2> QED
    BY <2>1, <2>2
<1>6. SumFunction(w) # 0 =>
        /\ Rounded(SumFunction(f), SumFunction(w)) \in Nat
        /\ Within(Rounded(SumFunction(f), SumFunction(w)), {per[d] : d \in S})
  <2> SUFFICES ASSUME SumFunction(w) # 0
               PROVE  /\ Rounded(SumFunction(f), SumFunction(w)) \in Nat
                      /\ Within(Rounded(SumFunction(f), SumFunction(w)), {per[d] : d \in S})
    OBVIOUS
  <2>1. S # {}
    <3> SUFFICES ASSUME S = {} PROVE FALSE
      OBVIOUS
    <3>1. PICK g : Stepwise(g, w, S)
      <4> HIDE DEF w, S
      <4> QED
        BY <1>2, <1>3, SumIsStepwise
    <3>2. g[S] = 0 /\ SumFunction(w) = g[S]
      <4> HIDE DEF w, S
      <4> QED
        BY <3>1 DEF Stepwise
    <3> HIDE DEF w, S
    <3> QED
      BY <3>2
  <2>2. \A d \in S : Rounded(per[d], 1) = per[d]
    BY <1>1, RoundedToItself
  <2>3. SumFunction(w) \in Nat
    <3> HIDE DEF w, S
    <3> QED
      BY <1>2, <1>3, SumBoundsTerms
  <2> HIDE DEF w, S
  <2>4. 1 * SumFunction(w) = SumFunction(w)
    BY <2>3
  <2>5. 1 \in Nat \ {0}
    OBVIOUS
  <2>6. /\ Rounded(SumFunction(f), 1 * SumFunction(w)) \in Nat
        /\ \E d \in S : Rounded(per[d], 1) <= Rounded(SumFunction(f), 1 * SumFunction(w))
        /\ \E d \in S : Rounded(SumFunction(f), 1 * SumFunction(w)) <= Rounded(per[d], 1)
    BY <1>1, <1>2, <1>3, <2>1, <2>5, MeanBetween
  <2> QED
    BY <2>2, <2>4, <2>6 DEF Within
<1> HIDE DEF f, w
<1> QED
  BY <1>4, <1>5, <1>6

\* A score lies within the signals it is made of.
LEMMA ScoreIsSound ==
  ASSUME NEW E \in Seq(Signals), NEW is \in SUBSET DOMAIN E, NEW preferred
  PROVE  /\ ScoreOf(E, is, preferred) \in Scores
         /\ Sound(E, ScoreOf(E, is, preferred), is)
<1> DEFINE about(d) == {i \in is : E[i].dim = d}
           value(d) == DimensionScore(E, Counted(E, about(d), preferred))
           scored == {d \in DOMAIN Weights : Cardinality(about(d)) >= MinSignals /\ value(d) # None}
           per == [d \in scored |-> value(d)]
           values(d) == ShownOf(E, about(d))
<1>1. ScoreOf(E, is, preferred) = [per |-> per, composite |-> Composite(per)]
  BY DEF ScoreOf
<1>2. ASSUME NEW d \in scored
      PROVE  value(d) \in Nat /\ Within(value(d), values(d))
  <2> DEFINE some == Counted(E, about(d), preferred)
  <2>1. about(d) # {}
    <3> DEFINE theirs == about(d)
    <3>1. Cardinality(theirs) >= MinSignals
      OBVIOUS
    <3> HIDE DEF theirs
    <3>2. ~ (Cardinality({}) >= MinSignals)
      <4>1. Cardinality({}) = 0
        BY FS_EmptySet
      <4> QED
        BY <4>1, MinSignalsAssumption
    <3>3. theirs # {}
      BY <3>1, <3>2, Zenon
    <3> QED
      BY <3>3 DEF theirs
  <2>2. some \subseteq about(d) /\ some # {}
    BY <2>1 DEF Counted
  <2>3. some \in SUBSET DOMAIN E
    BY <2>2
  <2>4. value(d) # None /\ value(d) = DimensionScore(E, some)
    OBVIOUS
  <2> HIDE DEF some, value
  <2>5. value(d) \in Nat /\ Within(value(d), ShownOf(E, some))
    BY <2>2, <2>3, <2>4, DimensionScoreWithin
  <2>6. ShownOf(E, some) \subseteq values(d)
    BY <2>2 DEF ShownOf
  <2> HIDE DEF values
  <2> QED
    BY <2>5, <2>6 DEF Within
<1>3. per \in Values /\ DOMAIN per = scored /\ \A d \in scored : per[d] = value(d)
  <2>1. scored \subseteq DOMAIN Weights
    OBVIOUS
  <2> HIDE DEF scored, value
  <2>2. per \in [scored -> Nat]
    BY <1>2
  <2> QED
    BY <2>1, <2>2 DEF Values
<1> HIDE DEF per, scored, value
<1>4. /\ Composite(per) \in Nat
      /\ (\E d \in DOMAIN per : Weights[d] > 0) =>
           Within(Composite(per), {per[d] : d \in DOMAIN per})
  BY <1>3, CompositeWithin
<1>5. [per |-> per, composite |-> Composite(per)] \in Scores
  BY <1>3, <1>4 DEF Scores
<1>6. Sound(E, [per |-> per, composite |-> Composite(per)], is)
  BY <1>2, <1>3, <1>4 DEF Sound
<1> QED
  BY <1>1, <1>5, <1>6

\* With one signal enough, a reviewer's signal decides its dimension.
LEMMA ReviewersDecide ==
  ASSUME NEW E \in Seq(Signals), MinSignals = 1, NEW o \in Overrides, Given(E, o.dim) # {},
         \A i \in DOMAIN E : E[i].by = "reviewer" => E[i].confidence # 0
  PROVE  Says(E, Aggregated(E), o)
<1> DEFINE all == DOMAIN E
           about(d) == {i \in all : E[i].dim = d}
           value(d) == DimensionScore(E, Counted(E, about(d), TRUE))
           scored == {d \in DOMAIN Weights : Cardinality(about(d)) >= MinSignals /\ value(d) # None}
           per == [d \in scored |-> value(d)]
           theirs == {i \in about(o.dim) : E[i].by = "reviewer"}
<1>1. Aggregated(E).per = per
  BY DEF Aggregated, ScoreOf
<1>2. o.dim \in DOMAIN Weights
  BY OverridesAssumption
<1>3. /\ theirs # {} /\ theirs \in SUBSET all
      /\ Given(E, o.dim) = ShownOf(E, theirs)
      /\ Counted(E, about(o.dim), TRUE) = theirs
  <2>1. theirs = {i \in all : E[i].by = "reviewer" /\ E[i].dim = o.dim}
    OBVIOUS
  <2>2. Given(E, o.dim) = ShownOf(E, theirs)
    BY <2>1 DEF Given
  <2>3. theirs # {}
    <3> HIDE DEF theirs
    <3> QED
      BY <2>2 DEF ShownOf
  <2> QED
    BY <2>2, <2>3 DEF Counted
<1>4. Cardinality(about(o.dim)) >= 1
  <2>1. IsFiniteSet(all)
    <3>1. IsFiniteSet(1 .. Len(E)) /\ all = 1 .. Len(E)
      BY FS_Interval
    <3> QED
      BY <3>1
  <2>2. about(o.dim) \subseteq all /\ about(o.dim) # {}
    BY <1>3
  <2> HIDE DEF about, all
  <2>3. IsFiniteSet(about(o.dim))
    BY <2>1, <2>2, FS_Subset
  <2>4. Cardinality(about(o.dim)) \in Nat /\ Cardinality(about(o.dim)) # 0
    BY <2>2, <2>3, FS_CardinalityType, FS_EmptySet
  <2> QED
    BY <2>4
<1>5. value(o.dim) # None /\ Within(value(o.dim), ShownOf(E, theirs))
  <2>1. \E i \in theirs : E[i].confidence # 0
    BY <1>3
  <2>2. value(o.dim) = DimensionScore(E, theirs)
    BY <1>3
  <2> HIDE DEF theirs, value
  <2> QED
    BY <1>3, <2>1, <2>2, DimensionScoreWithin
<1>6. o.dim \in scored
  <2> HIDE DEF about, value
  <2> QED
    BY <1>2, <1>4, <1>5
<1>7. DOMAIN per = scored /\ per[o.dim] = value(o.dim)
  <2> HIDE DEF scored, value
  <2> QED
    BY <1>6
<1> HIDE DEF per, scored, value, theirs
<1> QED
  BY <1>1, <1>3, <1>5, <1>6, <1>7 DEF Says

-----------------------------------------------------------------------------
(* The types of the state. *)

\* A set listed is a sequence of its elements.
LEMMA Listed == ASSUME NEW S, IsFiniteSet(S) PROVE SetToSeq(S) \in Seq(S)
<1>1. Cardinality(S) \in Nat /\ ExistsBijection(1 .. Cardinality(S), S)
  BY FS_CardinalityType
<1>2. \E f \in [1 .. Cardinality(S) -> S] : IsInjective(f)
  BY <1>1 DEF ExistsBijection, Bijection, Injection
<1>3. SetToSeq(S) \in [1 .. Cardinality(S) -> S]
  BY <1>2 DEF SetToSeq
<1> QED
  BY <1>1, <1>3

\* A signal added to the evidence.
LEMMA EvidenceGrows ==
  ASSUME evidence \in Seq(Signals), NEW s \in Signals, evidence' = Append(evidence, s)
  PROVE  /\ evidence' \in Seq(Signals) /\ DOMAIN evidence \subseteq DOMAIN evidence'
         /\ \A i \in DOMAIN evidence : evidence'[i] = evidence[i]
         /\ \A i \in DOMAIN evidence' : i \in DOMAIN evidence \/ evidence'[i] = s
         /\ \E i \in DOMAIN evidence' : evidence'[i] = s
<1>1. /\ DOMAIN evidence = 1 .. Len(evidence) /\ Len(evidence) \in Nat
      /\ DOMAIN evidence' = 1 .. Len(evidence) + 1
      /\ evidence' \in Seq(Signals)
  OBVIOUS
<1>2. /\ \A i \in 1 .. Len(evidence) : evidence'[i] = evidence[i]
      /\ evidence'[Len(evidence) + 1] = s
  OBVIOUS
<1> QED
  BY <1>1, <1>2

\* A full mark is counted in numbers.
LEMMA FullScoreNat == FullScore \in Nat
BY GrainAssumption DEF FullScore

\* The lesser of two numbers is one of them.
LEMMA LesserNat == ASSUME NEW a \in Nat, NEW b \in Nat PROVE Min({a, b}) \in Nat
<1>1. \E x \in {a, b} : \A y \in {a, b} : x <= y
  OBVIOUS
<1>2. Min({a, b}) \in {a, b}
  BY <1>1 DEF Min
<1> QED
  BY <1>2

\* What the thread stores is a signal.
LEMMA VerdictsAreSignals ==
  ASSUME NEW v \in Verdicts
  PROVE  v.by \in {"llm", "heuristic"} /\ v.of[1] \in Nat /\ v.of[2] \in Nat
<1>1. CASE v \in [by : {"llm"}, of : {j \in Judgements : Strict(j)}]
  <2>1. v.by = "llm" /\ v.of[1] \in 0 .. FullScore /\ v.of[2] \in 0 .. Sure
    BY <1>1 DEF Strict
  <2>2. (\A n \in 0 .. FullScore : n \in Nat) /\ (\A n \in 0 .. Sure : n \in Nat)
    BY FullScoreNat DEF Sure
  <2> QED
    BY <2>1, <2>2, Zenon
<1>2. CASE v \in [by : {"heuristic"}, of : {Heuristic(h) : h \in Hits}]
  <2>1. PICK h \in Nat : v.of = Heuristic(h) /\ v.by = "heuristic"
    BY <1>2, HitsAssumption
  <2>2. (3500 + 1000 * h) * Grain \in Nat
    BY GrainAssumption
  <2>3. Min({FullScore, (3500 + 1000 * h) * Grain}) \in Nat
    BY <2>2, FullScoreNat, LesserNat
  <2> QED
    BY <2>1, <2>3 DEF Heuristic
<1> QED
  BY <1>1, <1>2 DEF Verdicts

\* What the evidence adds up to.
LEMMA EvidenceScores ==
  ASSUME Types
  PROVE  /\ Aggregated(evidence) \in Scores /\ Sound(evidence, Aggregated(evidence), DOMAIN evidence)
         /\ ProblemScores(evidence) \in ByProblem
         /\ \A p \in DOMAIN ProblemScores(evidence) : Sound(evidence, ProblemScores(evidence)[p], About(evidence, p))
<1>1. evidence \in Seq(Signals)
  BY DEF Types
<1>2. Aggregated(evidence) \in Scores /\ Sound(evidence, Aggregated(evidence), DOMAIN evidence)
  BY <1>1, ScoreIsSound DEF Aggregated
<1> DEFINE of(p) == ScoreOf(evidence, About(evidence, p), FALSE)
           scored == {p \in 1 .. closed : DOMAIN of(p).per # {}}
<1>3. \A p : of(p) \in Scores /\ Sound(evidence, of(p), About(evidence, p))
  <2> SUFFICES ASSUME NEW p PROVE of(p) \in Scores /\ Sound(evidence, of(p), About(evidence, p))
    OBVIOUS
  <2>1. About(evidence, p) \in SUBSET DOMAIN evidence
    BY DEF About
  <2> QED
    BY <1>1, <2>1, ScoreIsSound
<1>4. ProblemScores(evidence) = [p \in scored |-> of(p)]
  BY DEF ProblemScores, About
<1>5. scored \in SUBSET Nat
  <2>1. closed \in Nat
    BY DEF Types
  <2> HIDE DEF of
  <2>2. \A p \in 1 .. closed : p \in Nat
    BY <2>1
  <2> QED
    BY <2>2
<1> HIDE DEF of, scored
<1>6. ProblemScores(evidence) \in [scored -> Scores]
  BY <1>3, <1>4
<1> QED
  BY <1>2, <1>3, <1>4, <1>5, <1>6 DEF ByProblem

\* No problem has no score.
LEMMA NothingByProblem == <<>> \in ByProblem
<1>1. <<>> \in [{} -> Scores]
  OBVIOUS
<1> QED
  BY <1>1 DEF ByProblem

\* A request that begins, or has ended.
LEMMA FreshRequest ==
  ASSUME NEW step \in Steps
  PROVE  /\ At(step) \in Requests /\ At(step).at = step /\ At(step).form = None
         /\ At(step).todo = <<>> /\ Idle \in Requests
BY NothingByProblem DEF At, Idle, Requests, Steps

\* A problem's score leaves the request for the log.
LEMMA ByProblemMoves ==
  ASSUME NEW t \in ByProblem, NEW ps \in ByProblem, NEW p \in DOMAIN t
  PROVE  /\ Restrict(t, DOMAIN t \ {p}) \in ByProblem
         /\ DOMAIN Restrict(t, DOMAIN t \ {p}) = DOMAIN t \ {p}
         /\ \A q \in DOMAIN t \ {p} : Restrict(t, DOMAIN t \ {p})[q] = t[q]
         /\ StoreByKey(ps, p, t[p]) \in ByProblem
         /\ \A q \in DOMAIN StoreByKey(ps, p, t[p]) :
              \/ q \in DOMAIN ps /\ StoreByKey(ps, p, t[p])[q] = ps[q]
              \/ q = p /\ StoreByKey(ps, p, t[p])[q] = t[p]
<1>1. PICK D \in SUBSET Nat : t \in [D -> Scores]
  BY DEF ByProblem
<1>2. PICK P \in SUBSET Nat : ps \in [P -> Scores]
  BY DEF ByProblem
<1>3. Restrict(t, DOMAIN t \ {p}) \in [D \ {p} -> Scores]
  BY <1>1 DEF Restrict
<1> DEFINE both == StoreByKey(ps, p, t[p])
<1>4. both = [q \in P \cup {p} |-> IF q \in P THEN ps[q] ELSE t[p]]
  BY <1>1, <1>2 DEF StoreByKey
<1>5. both \in [P \cup {p} -> Scores] /\ P \cup {p} \in SUBSET Nat
  BY <1>1, <1>2, <1>4
<1>6. both \in ByProblem
  BY <1>5 DEF ByProblem
<1>7. Restrict(t, DOMAIN t \ {p}) \in ByProblem
  BY <1>1, <1>3 DEF ByProblem
<1>8. \A q \in DOMAIN both : \/ q \in DOMAIN ps /\ both[q] = ps[q]
                             \/ q = p /\ both[q] = t[p]
  BY <1>2, <1>4
<1> HIDE DEF both
<1> QED
  BY <1>1, <1>3, <1>6, <1>7, <1>8 DEF both, Restrict

\* A request that goes on keeps its other fields.
LEMMA RequestGoesOn ==
  ASSUME NEW r \in Requests, NEW step \in Steps
  PROVE  /\ [r EXCEPT !.at = step] \in Requests
         /\ [r EXCEPT !.at = step].at = step /\ [r EXCEPT !.at = step].form = r.form
         /\ [r EXCEPT !.at = step].score = r.score /\ [r EXCEPT !.at = step].todo = r.todo
BY DEF Requests

\* So does one that has a new score,
LEMMA RequestScored ==
  ASSUME NEW r \in Requests, NEW s \in Scores
  PROVE  /\ [r EXCEPT !.score = s] \in Requests
         /\ [r EXCEPT !.score = s].at = r.at /\ [r EXCEPT !.score = s].form = r.form
         /\ [r EXCEPT !.score = s].score = s /\ [r EXCEPT !.score = s].todo = r.todo
BY DEF Requests

\* one with other problems to score,
LEMMA RequestTasked ==
  ASSUME NEW r \in Requests, NEW t \in ByProblem
  PROVE  /\ [r EXCEPT !.todo = t] \in Requests
         /\ [r EXCEPT !.todo = t].at = r.at /\ [r EXCEPT !.todo = t].form = r.form
         /\ [r EXCEPT !.todo = t].score = r.score /\ [r EXCEPT !.todo = t].todo = t
BY DEF Requests

\* and one that serves a form.
LEMMA RequestPosted ==
  ASSUME NEW r \in Requests, NEW o \in Overrides
  PROVE  /\ [r EXCEPT !.form = o] \in Requests
         /\ [r EXCEPT !.form = o].at = r.at /\ [r EXCEPT !.form = o].form = o
         /\ [r EXCEPT !.form = o].score = r.score /\ [r EXCEPT !.form = o].todo = r.todo
BY DEF Requests

\* How a form stands after its request.
LEMMA FormStands ==
  ASSUME form \in [Overrides -> Kinds], req.form \in Overrides \cup {None},
         NEW kind \in Kinds, Outcome(kind)
  PROVE  /\ form' \in [Overrides -> Kinds]
         /\ \A o \in Overrides : form'[o] = IF o = req.form THEN kind ELSE form[o]
<1>1. CASE req.form = None
  BY <1>1, NoneAssumption DEF Outcome
<1>2. CASE req.form # None
  BY <1>2 DEF Outcome
<1> QED
  BY <1>1, <1>2

\* Closing a problem, and the thread's results.
LEMMA CloseTyped == Types /\ Close => Types'
<1> SUFFICES ASSUME Types, Close PROVE Types'
  OBVIOUS
<1>1. due' = Append(due, closed + 1) /\ closed' = closed + 1 /\ closed < MaxClosed
  BY DEF Close
<1>2. closed + 1 \in 1 .. MaxClosed
  BY <1>1, TargetDimsAssumption DEF Types
<1>3. due' \in Seq(1 .. MaxClosed) /\ closed' \in Nat
  BY <1>1, <1>2 DEF Types
<1> QED
  BY <1>3 DEF Types, Close, Planned, results

\* The signal the thread stores.
Judged(v) == [by |-> v.by, dim |-> CHOOSE d \in Unjudged : TRUE, refs |-> {Head(due)},
              value |-> v.of[1], confidence |-> v.of[2]]

\* The dimension the thread deals with is one of the rubric.
LEMMA UnjudgedTyped ==
  ASSUME Types, due # <<>>
  PROVE  Head(due) \in Nat /\ Unjudged \subseteq DOMAIN Weights
<1>1. Head(due) \in 1 .. MaxClosed
  <2>1. \A S : \A q \in Seq(S) : q # <<>> => Head(q) \in S
    OBVIOUS
  <2> QED
    BY <2>1 DEF Types
<1> QED
  BY <1>1, TargetDimsAssumption DEF Unjudged

\* The signal the thread stores about an open judgement is one.
LEMMA JudgedIsSignal ==
  ASSUME Types, due # <<>>, Unjudged # {}, NEW v \in Verdicts
  PROVE  Judged(v) \in Signals /\ Judged(v).by # "reviewer"
<1>1. Head(due) \in Nat /\ (CHOOSE d \in Unjudged : TRUE) \in DOMAIN Weights
  BY UnjudgedTyped
<1>2. v.by \in {"llm", "heuristic"} /\ v.of[1] \in Nat /\ v.of[2] \in Nat
  BY VerdictsAreSignals
<1> QED
  BY <1>1, <1>2 DEF Judged, Signals

\* What the thread does to the evidence.
LEMMA JudgeAdds ==
  ASSUME Judge
  PROVE  UNCHANGED evidence \/ \E v \in Verdicts : evidence' = Append(evidence, Judged(v))
BY DEF Judge, Judged

\* The scoring thread stores a signal of the dimension and the problem it is due for.
LEMMA JudgeTyped == Types /\ Judge => Types'
<1> SUFFICES ASSUME Types, Judge PROVE Types'
  OBVIOUS
<1>1. due # <<>> /\ Unjudged # {}
  BY DEF Judge
<1>2. evidence' \in Seq(Signals)
  <2>1. CASE UNCHANGED evidence
    BY <2>1 DEF Types
  <2>2. CASE \E v \in Verdicts : evidence' = Append(evidence, Judged(v))
    <3>1. PICK v \in Verdicts : evidence' = Append(evidence, Judged(v))
      BY <2>2
    <3>2. Judged(v) \in Signals
      BY <1>1, JudgedIsSignal
    <3> QED
      BY <3>1, <3>2, EvidenceGrows DEF Types
  <2> QED
    BY <2>1, <2>2, JudgeAdds
<1>3. judged' \in SUBSET DOMAIN Weights
  <2>1. (CHOOSE d \in Unjudged : TRUE) \in DOMAIN Weights
    BY <1>1, UnjudgedTyped
  <2>2. judged' = judged \cup {CHOOSE d \in Unjudged : TRUE}
    BY DEF Judge
  <2> QED
    BY <2>1, <2>2 DEF Types
<1>4. stale' \in BOOLEAN
  BY DEF Judge
<1> QED
  BY <1>2, <1>3, <1>4 DEF Types, Judge, Planned, results

\* A job it has dealt with is no longer due.
LEMMA CompleteTyped == Types /\ Complete => Types'
<1> SUFFICES ASSUME Types, Complete PROVE Types'
  OBVIOUS
<1>1. due' \in Seq(1 .. MaxClosed)
  BY DEF Types, Complete
<1>2. judged' = {} /\ stale' \in BOOLEAN
  BY DEF Complete
<1> QED
  BY <1>1, <1>2 DEF Types, Complete, Planned, results

\* The types hold at the start.
LEMMA InitTyped == Init => Types
<1> SUFFICES ASSUME Init PROVE Types
  OBVIOUS
<1>1. req \in Requests /\ problemScores \in ByProblem
  BY FreshRequest, NothingByProblem DEF Init, Steps
<1>2. form \in [Overrides -> Kinds]
  BY DEF Init, Kinds
<1>3. due \in Seq(1 .. MaxClosed) /\ evidence \in Seq(Signals)
  BY DEF Init
<1> QED
  BY <1>1, <1>2, <1>3 DEF Init, Types

\* A request that fails.
LEMMA FailureTyped == Types /\ (Refused \/ Crash) => Types'
<1> SUFFICES ASSUME Types, Refused \/ Crash PROVE Types'
  OBVIOUS
<1>1. req' = Idle /\ Idle \in Requests
  BY FreshRequest DEF Refused, Crash, Steps
<1>2. form' \in [Overrides -> Kinds]
  <2>1. PICK kind \in Kinds : Outcome(kind)
    BY DEF Refused, Crash, Kinds
  <2> QED
    BY <2>1, FormStands DEF Types, Requests
<1>3. stale' \in BOOLEAN /\ crashes' \in Nat
  <2>1. crashes \in Nat
    BY DEF Types
  <2>2. stale' = FALSE /\ (crashes' = crashes \/ crashes' = crashes + 1)
    BY DEF Refused, Crash
  <2>3. crashes + 1 \in Nat
    BY <2>1
  <2> QED
    BY <2>1, <2>2, <2>3, Zenon
<1>4. judged' \in SUBSET DOMAIN Weights
  BY DEF Types, Refused, Crash
<1> QED
  BY <1>1, <1>2, <1>3, <1>4 DEF Types, Refused, Crash, Planned, results

\* The aggregation of a page view or an override, from the evidence.
LEMMA AggregatesTyped ==
  ASSUME Types, NEW t \in Requests, Aggregates(t)
  PROVE  Types' /\ req' = [t EXCEPT !.score = Aggregated(evidence)]
<1>1. Aggregated(evidence) \in Scores
  BY EvidenceScores
<1>2. req' = [t EXCEPT !.score = Aggregated(evidence)] /\ req' \in Requests
  BY <1>1, RequestScored DEF Aggregates
<1>3. feedback' \in Scores \cup {None} /\ stale' \in BOOLEAN
  BY <1>1 DEF Aggregates
<1> QED
  BY <1>2, <1>3 DEF Types, Aggregates, Planned

\* What a page view hands on.
View == [At("score") EXCEPT !.todo = ProblemScores(evidence)]

\* A page view that finds scoring complete has the problems' scores to store.
LEMMA ViewTyped ==
  ASSUME Types
  PROVE  /\ View \in Requests /\ View.at = "score" /\ View.form = None
         /\ View.todo = ProblemScores(evidence)
<1>1. At("score") \in Requests /\ At("score").at = "score" /\ At("score").form = None
  BY FreshRequest DEF Steps
<1>2. ProblemScores(evidence) \in ByProblem
  BY EvidenceScores
<1> QED
  BY <1>1, <1>2, RequestTasked DEF View

\* The types hold after it has aggregated,
LEMMA FinishTyped == Types /\ FinishScoring => Types'
BY ViewTyped, AggregatesTyped DEF FinishScoring, View

\* and after an override has.
LEMMA AggregateOverrideTyped == Types /\ AggregateOverride => Types'
<1> SUFFICES ASSUME Types, AggregateOverride PROVE Types'
  OBVIOUS
<1>1. [req EXCEPT !.at = "score"] \in Requests
  BY RequestGoesOn DEF Types, Steps
<1> QED
  BY <1>1, AggregatesTyped DEF AggregateOverride

\* The signal of an override.
Reviewed(o) == [by |-> "reviewer", dim |-> o.dim, refs |-> o.refs, value |-> o.value,
                confidence |-> Sure]

\* What the form of an override holds.
LEMMA OverrideTyped ==
  ASSUME NEW o \in Overrides
  PROVE  o.dim \in DOMAIN Weights /\ o.refs \subseteq 1 .. Count /\ o.value \in Nat
<1>1. \A n \in 0 .. FullScore : n \in Nat
  BY FullScoreNat
<1>2. /\ o.dim \in DOMAIN Weights /\ o.refs \subseteq 1 .. Count
      /\ o.value \in 0 .. FullScore
  BY OverridesAssumption
<1> QED
  BY <1>1, <1>2, Zenon

\* What an override does to the evidence.
LEMMA StoreOverrideAdds ==
  ASSUME Types, Serves, StoreOverride
  PROVE  /\ req.form \in Overrides /\ Reviewed(req.form) \in Signals
         /\ evidence' = Append(evidence, Reviewed(req.form))
<1>1. req.form \in Overrides
  BY DEF Types, Requests, Serves, StoreOverride, Stores
<1>2. Count \in Nat
  BY BankAssumption, PlanAssumption DEF Count
<1>3. \A n \in 1 .. Count : n \in Nat
  BY <1>2
<1>4. /\ req.form.dim \in DOMAIN Weights /\ req.form.refs \subseteq 1 .. Count
      /\ req.form.value \in Nat
  BY <1>1, OverrideTyped
<1>5. req.form.refs \in SUBSET Nat
  BY <1>3, <1>4
<1>6. Reviewed(req.form) \in Signals
  BY <1>4, <1>5 DEF Reviewed, Signals, Sure
<1> QED
  BY <1>1, <1>6 DEF StoreOverride, Reviewed

\* Each event of a request that is stored.
LEMMA StoredTyped ==
  Types /\ Serves /\ (StoreFinalScore \/ StoreProblemScore \/ End \/ StoreAudit \/ StoreOverride
            \/ StoreNewScore \/ \E o \in Overrides : Override(o)) => Types'
<1> SUFFICES ASSUME Types, Serves PROVE
      (StoreFinalScore \/ StoreProblemScore \/ End \/ StoreAudit \/ StoreOverride
       \/ StoreNewScore \/ \E o \in Overrides : Override(o)) => Types'
  OBVIOUS
<1>a. req \in Requests /\ Aggregated(evidence) \in Scores /\ req.form \in Overrides \cup {None}
      /\ req.score \in Scores \cup {None} /\ req.todo \in ByProblem
  BY EvidenceScores DEF Types, Requests
<1>1. \A step \in Steps : [req EXCEPT !.at = step] \in Requests
  BY <1>a, RequestGoesOn
<1>2. CASE StoreFinalScore
  <2>1. req' \in Requests
    BY <1>1, <1>2 DEF StoreFinalScore, Stores, Steps
  <2>2. score' \in Scores \cup {None}
    BY <1>a, <1>2 DEF StoreFinalScore, Types
  <2> QED
    BY <1>2, <2>1, <2>2 DEF Types, StoreFinalScore, Stores, Planned
<1>3. CASE StoreProblemScore
  <2>1. PICK p \in DOMAIN req.todo :
          /\ req' = [req EXCEPT !.todo = Restrict(req.todo, DOMAIN req.todo \ {p})]
          /\ problemScores' = StoreByKey(problemScores, p, req.todo[p])
    BY <1>3, <1>a DEF StoreProblemScore, Stores, Requests
  <2>2. /\ Restrict(req.todo, DOMAIN req.todo \ {p}) \in ByProblem
        /\ StoreByKey(problemScores, p, req.todo[p]) \in ByProblem
    BY <1>a, ByProblemMoves DEF Types
  <2>3. req' \in Requests
    BY <1>a, <2>1, <2>2, RequestTasked
  <2>4. stale' = FALSE /\ Planned /\ UNCHANGED <<closed, due, judged, crashes>>
    BY <1>3 DEF StoreProblemScore, Stores
  <2> QED
    BY <1>3, <2>1, <2>2, <2>3, <2>4 DEF Types, StoreProblemScore, Planned
<1>4. CASE End
  BY <1>4, FreshRequest DEF Types, End, Stores, Planned, Steps
<1>5. CASE StoreAudit
  <2>1. req' \in Requests
    BY <1>1, <1>5 DEF StoreAudit, Stores, Steps
  <2> QED
    BY <1>5, <2>1 DEF Types, StoreAudit, Stores, Planned, results
<1>6. CASE \E o \in Overrides : Override(o)
  <2>1. PICK o \in Overrides : Override(o)
    BY <1>6
  <2>2. req' \in Requests
    <3>1. At("audit") \in Requests
      BY FreshRequest DEF Steps
    <3> QED
      BY <2>1, <3>1, RequestPosted DEF Override
  <2>3. form' \in [Overrides -> Kinds]
    BY <2>1 DEF Override, Types, Kinds
  <2> QED
    BY <2>1, <2>2, <2>3 DEF Types, Override, Planned, results
<1>7. CASE StoreNewScore
  <2>1. req' \in Requests /\ score' \in Scores \cup {None}
    BY <1>a, <1>7, FreshRequest DEF StoreNewScore, Stores, Steps
  <2>2. form' \in [Overrides -> Kinds]
    <3>1. "answered" \in Kinds
      BY DEF Kinds
    <3> QED
      BY <1>a, <1>7, <3>1, FormStands DEF StoreNewScore, Types
  <2> QED
    BY <1>7, <2>1, <2>2 DEF Types, StoreNewScore, Stores, Planned
<1>8. CASE StoreOverride
  <2>1. req' \in Requests
    BY <1>1, <1>8 DEF StoreOverride, Stores, Steps
  <2>2. evidence' \in Seq(Signals)
    <3>1. Reviewed(req.form) \in Signals /\ evidence' = Append(evidence, Reviewed(req.form))
      BY <1>8, StoreOverrideAdds
    <3> QED
      BY <3>1, EvidenceGrows DEF Types
  <2> QED
    BY <1>8, <2>1, <2>2 DEF Types, StoreOverride, Stores, Planned, results
<1> QED
  BY <1>2, <1>3, <1>4, <1>5, <1>6, <1>7, <1>8

\* Every step keeps the types.
LEMMA NextTyped == Types /\ Serves /\ [Next]_vars => Types'
<1> SUFFICES ASSUME Types, Serves, [Next]_vars PROVE Types'
  OBVIOUS
<1>1. CASE StorePlan
  BY <1>1 DEF Types, StorePlan, results
<1>2. CASE UNCHANGED session
  BY <1>2 DEF Types, session, results
<1> QED
  BY <1>1, <1>2, CloseTyped, JudgeTyped, CompleteTyped, FailureTyped, FinishTyped, AggregateOverrideTyped,
     StoredTyped DEF Next, vars

-----------------------------------------------------------------------------
(* Each score is that of the evidence. *)

\* How a step may move the request: it leaves it alone, ends it, goes on, or begins an
\* override.
Moves ==
  \/ UNCHANGED <<req, form>>
  \/ /\ req # Idle /\ req' = Idle
     /\ \/ req.form = None /\ UNCHANGED form
        \/ req.form # None /\ \E k \in {"answered", "refused", "cut"} :
                                form' = [form EXCEPT ![req.form] = k]
  \/ /\ UNCHANGED form /\ req' \in Requests /\ req'.form = req.form
     /\ \/ req = Idle /\ req'.at = "score"
        \/ req.at = "score" /\ req'.at = "problem" /\ req.form = None
        \/ req.at = "problem" /\ req'.at = "problem"
        \/ req.at = "audit" /\ req'.at = "signal"
        \/ req.at = "signal" /\ req'.at = "aggregate"
        \/ req.at = "aggregate" /\ req'.at = "score"
  \/ /\ req = Idle /\ req' \in Requests /\ req'.at = "audit"
     /\ req'.form \in Overrides /\ form[req'.form] = "new"
     /\ form' = [form EXCEPT ![req'.form] = "sent"]

\* What the steps of a request do to it and to its form.
LEMMA RequestMoves == Types /\ Serves /\ Next => Moves
<1> SUFFICES ASSUME Types, Serves, Next PROVE Moves
  OBVIOUS
<1>0. req \in Requests /\ Idle \in Requests /\ Idle.at = "idle" /\ Idle.form = None
  BY FreshRequest DEF Types, Idle, Steps
<1>1. CASE (Selecting /\ UNCHANGED session) \/ StorePlan \/ Close \/ Judge \/ Complete
  BY <1>1 DEF Moves, session, StorePlan, Close, Judge, Complete
<1>2. CASE Refused
  <2>1. req # Idle
    BY <1>0, <1>2 DEF Refused
  <2> QED
    BY <1>2, <2>1 DEF Moves, Refused, Outcome
<1>3. CASE Crash
  <2>1. req' = Idle /\ Outcome("cut")
    BY <1>3 DEF Crash
  <2>2. CASE req = Idle
    BY <1>0, <2>1, <2>2 DEF Moves, Outcome
  <2>3. CASE req # Idle
    BY <2>1, <2>3 DEF Moves, Outcome
  <2> QED
    BY <2>2, <2>3
<1>4. CASE FinishScoring
  <2>1. req' = [View EXCEPT !.score = Aggregated(evidence)] /\ req = Idle /\ UNCHANGED form
    BY <1>4 DEF FinishScoring, Aggregates, View, Viewed
  <2>2. req' \in Requests /\ req'.at = "score" /\ req'.form = None
    BY <2>1, ViewTyped, EvidenceScores, RequestScored
  <2> QED
    BY <1>0, <2>1, <2>2 DEF Moves
<1>5. CASE AggregateOverride
  <2> DEFINE r == [req EXCEPT !.at = "score"]
  <2>1. r \in Requests /\ r.at = "score" /\ r.form = req.form
    BY <1>0, RequestGoesOn DEF Steps
  <2>2. req' = [r EXCEPT !.score = Aggregated(evidence)] /\ UNCHANGED form /\ req.at = "aggregate"
    BY <1>5 DEF AggregateOverride, Aggregates
  <2> HIDE DEF r
  <2>3. req' \in Requests /\ req'.at = "score" /\ req'.form = req.form
    BY <2>1, <2>2, EvidenceScores, RequestScored
  <2> QED
    BY <2>2, <2>3 DEF Moves
<1>6. CASE StoreFinalScore
  <2>1. req' = [req EXCEPT !.at = "problem"] /\ UNCHANGED form /\ req.at = "score" /\ req.form = None
    BY <1>6 DEF StoreFinalScore, Stores
  <2>2. req' \in Requests /\ req'.at = "problem" /\ req'.form = req.form
    BY <1>0, <2>1, RequestGoesOn DEF Steps
  <2> QED
    BY <2>1, <2>2 DEF Moves
<1>7. CASE StoreProblemScore
  <2>1. PICK p \in DOMAIN req.todo :
          req' = [req EXCEPT !.todo = Restrict(req.todo, DOMAIN req.todo \ {p})]
    BY <1>0, <1>7 DEF StoreProblemScore, Stores, Requests
  <2>2. Restrict(req.todo, DOMAIN req.todo \ {p}) \in ByProblem
    BY <1>0, ByProblemMoves, NothingByProblem DEF Requests
  <2>3. UNCHANGED form /\ req.at = "problem"
    BY <1>7 DEF StoreProblemScore, Stores
  <2>4. req' \in Requests /\ req'.at = "problem" /\ req'.form = req.form
    BY <1>0, <2>1, <2>2, <2>3, RequestTasked
  <2> QED
    BY <2>3, <2>4 DEF Moves
<1>8. CASE End
  <2>1. req' = Idle /\ UNCHANGED form /\ req.at = "problem"
    BY <1>8 DEF End, Stores
  <2> QED
    BY <1>0, <2>1 DEF Moves, Serves
<1>9. CASE StoreAudit \/ StoreOverride
  <2>1. /\ UNCHANGED form
        /\ \/ req.at = "audit" /\ req' = [req EXCEPT !.at = "signal"]
           \/ req.at = "signal" /\ req' = [req EXCEPT !.at = "aggregate"]
    BY <1>9 DEF StoreAudit, StoreOverride, Stores, results
  <2> DEFINE r(step) == [req EXCEPT !.at = step]
  <2>2. /\ r("signal") \in Requests /\ r("signal").at = "signal"
        /\ r("signal").form = req.form
        /\ r("aggregate") \in Requests /\ r("aggregate").at = "aggregate"
        /\ r("aggregate").form = req.form
    BY <1>0, RequestGoesOn DEF Steps
  <2> QED
    BY <2>1, <2>2 DEF Moves
<1>10. CASE StoreNewScore
  <2>1. req' = Idle /\ req.at = "score" /\ req.form # None /\ Outcome("answered")
    BY <1>10 DEF StoreNewScore, Stores
  <2> QED
    BY <1>0, <2>1 DEF Moves, Outcome
<1>11. CASE \E o \in Overrides : Override(o)
  <2>1. PICK o \in Overrides : Override(o)
    BY <1>11
  <2>2. At("audit") \in Requests /\ At("audit").at = "audit"
    BY FreshRequest DEF Steps
  <2>3. /\ req = Idle /\ req' = [At("audit") EXCEPT !.form = o]
        /\ form[o] = "new" /\ form' = [form EXCEPT ![o] = "sent"]
    BY <2>1 DEF Override
  <2>4. req' \in Requests /\ req'.at = "audit" /\ req'.form = o
    BY <2>2, <2>3, RequestPosted
  <2> QED
    BY <2>3, <2>4 DEF Moves
<1> QED
  BY <1>1, <1>2, <1>3, <1>4, <1>5, <1>6, <1>7, <1>8, <1>9, <1>10, <1>11 DEF Next

\* Requests serve the forms posted, one after the other.
LEMMA StillServes == Types /\ Serves /\ [Next]_vars => Serves'
<1> SUFFICES ASSUME Types, Serves, [Next]_vars PROVE Serves'
  OBVIOUS
<1>0. /\ Idle.at = "idle" /\ Idle.form = None /\ form \in [Overrides -> Kinds]
      /\ req.form \in Overrides \cup {None}
  BY DEF Idle, At, Types, Requests
<1>1. CASE UNCHANGED vars
  BY <1>1 DEF Serves, vars, session
<1>2. CASE Next
  <2>1. Moves
    BY <1>2, RequestMoves
  <2>2. CASE UNCHANGED <<req, form>>
    BY <2>2 DEF Serves
  <2>3. CASE req' = Idle
    BY <1>0, <2>3 DEF Serves
  <2>4. CASE /\ UNCHANGED form /\ req' \in Requests /\ req'.form = req.form
             /\ \/ req = Idle /\ req'.at = "score"
                \/ req.at = "score" /\ req'.at = "problem" /\ req.form = None
                \/ req.at = "problem" /\ req'.at = "problem"
                \/ req.at = "audit" /\ req'.at = "signal"
                \/ req.at = "signal" /\ req'.at = "aggregate"
                \/ req.at = "aggregate" /\ req'.at = "score"
    BY <2>4 DEF Serves
  <2>5. CASE /\ req = Idle /\ req' \in Requests /\ req'.at = "audit"
             /\ req'.form \in Overrides /\ form' = [form EXCEPT ![req'.form] = "sent"]
    BY <1>0, <2>5, NoneAssumption DEF Serves
  <2> QED
    BY <2>1, <2>2, <2>3, <2>4, <2>5 DEF Moves
<1> QED
  BY <1>1, <1>2

\* While a form has not been cut short, none was.
LEMMA CutsStay == Types /\ Serves /\ [Next]_vars /\ Uncut' => Uncut
<1> SUFFICES ASSUME Types, Serves, [Next]_vars, Uncut', NEW o \in Overrides, form[o] = "cut"
             PROVE  FALSE
  BY DEF Uncut
<1>0. form \in [Overrides -> Kinds] /\ form' # form
  BY DEF Types, Uncut
<1>1. Next
  BY <1>0 DEF vars, session
<1>2. Moves
  BY <1>1, RequestMoves
<1>3. ASSUME NEW p \in Overrides, NEW k, form' = [form EXCEPT ![p] = k], form[p] # "cut"
      PROVE  FALSE
  <2>1. form'[o] = "cut"
    BY <1>0, <1>3
  <2> QED
    BY <2>1 DEF Uncut
<1>4. req.form # None => req.form \in Overrides /\ form[req.form] = "sent"
  BY DEF Serves, Types, Requests
<1>5. CASE req.form # None /\ \E k : form' = [form EXCEPT ![req.form] = k]
  BY <1>3, <1>4, <1>5
<1>6. CASE /\ req'.form \in Overrides /\ form[req'.form] = "new"
           /\ form' = [form EXCEPT ![req'.form] = "sent"]
  BY <1>3, <1>6
<1> QED
  BY <1>0, <1>2, <1>5, <1>6 DEF Moves

\* From the first final score on the thread is done, and every request leaves the
\* score of the whole evidence.
LEMMA StillFull == Types /\ Serves /\ Full /\ [Next]_vars => Full'
<1> SUFFICES ASSUME Types, Serves, Full, [Next]_vars PROVE Full'
  OBVIOUS
<1>0. /\ req \in Requests /\ Idle.at = "idle" /\ Idle.form = None
      /\ keyed \in BOOLEAN /\ ended \in BOOLEAN /\ stale \in BOOLEAN
  BY DEF Types, Idle, At
<1>u. Uncut' => Uncut
  BY CutsStay
<1>1. CASE UNCHANGED session \/ StorePlan
  BY <1>1 DEF Full, session, results, StorePlan, Ready, Overriding, Fresh, Uncut
<1>2. CASE Close
  BY <1>0, <1>2 DEF Full, Close, results, Planned, Overriding, Fresh
<1>3. CASE Judge \/ Complete
  BY <1>3 DEF Full, Judge, Complete, results, Ready
<1>4. CASE Refused
  BY <1>0, <1>4 DEF Full, Refused, results, Overriding
<1>5. CASE Crash
  <2>1. /\ UNCHANGED <<closed, due, evidence, score, keyed, feedback, ended>>
        /\ req' = Idle /\ stale' = FALSE
    BY <1>5 DEF Crash, results
  <2>2. Uncut' => ~ Overriding
    <3>1. Overriding => \E o \in Overrides : form'[o] = "cut"
      <4>1. Overriding => form'[req.form] = "cut" /\ req.form \in Overrides
        BY <1>5 DEF Crash, Outcome, Types, Requests, Overriding
      <4> QED
        BY <4>1
    <3> QED
      BY <3>1 DEF Uncut
  <2> QED
    BY <1>0, <1>u, <2>1, <2>2 DEF Full, Ready, Overriding, Fresh
<1>6. CASE FinishScoring
  <2>1. /\ req = Idle /\ Ready /\ feedback' = Aggregated(evidence) /\ stale' = FALSE
        /\ UNCHANGED <<closed, due, evidence, score, keyed, ended, form>>
        /\ req' = [View EXCEPT !.score = Aggregated(evidence)]
    BY <1>6 DEF FinishScoring, Aggregates, View, Viewed
  <2>2. req'.at = "score" /\ req'.form = None /\ req'.score = Aggregated(evidence)
    BY <2>1, ViewTyped, EvidenceScores, RequestScored
  <2> QED
    BY <1>0, <1>u, <2>1, <2>2 DEF Full, Ready, Overriding, Fresh
<1>7. CASE AggregateOverride
  <2>1. /\ req.at = "aggregate" /\ feedback' = Aggregated(evidence) /\ stale' = FALSE
        /\ UNCHANGED <<closed, due, evidence, score, keyed, ended, form>>
        /\ req' = [[req EXCEPT !.at = "score"] EXCEPT !.score = Aggregated(evidence)]
    BY <1>7 DEF AggregateOverride, Aggregates
  <2>2. req'.at = "score" /\ req'.form = req.form /\ req'.score = Aggregated(evidence)
    <3> DEFINE r == [req EXCEPT !.at = "score"]
    <3>1. r \in Requests /\ r.at = "score" /\ r.form = req.form
      BY <1>0, RequestGoesOn DEF Steps
    <3> HIDE DEF r
    <3> QED
      BY <2>1, <3>1, EvidenceScores, RequestScored DEF r
  <2>3. req.form # None
    BY <2>1 DEF Serves
  <2> QED
    BY <2>1, <2>2, <2>3 DEF Full, Ready, Overriding, Fresh
<1>8. CASE StoreFinalScore
  <2>1. /\ req.at = "score" /\ req.form = None /\ req' = [req EXCEPT !.at = "problem"]
        /\ score' = IF keyed THEN score ELSE req.score
        /\ keyed' = TRUE /\ stale' = FALSE
        /\ UNCHANGED <<closed, due, evidence, feedback, ended, form>>
    BY <1>8 DEF StoreFinalScore, Stores
  <2>2. req'.at = "problem" /\ req'.form = None /\ req'.score = req.score
    BY <1>0, <2>1, RequestGoesOn DEF Steps
  <2>3. Ready /\ Fresh
    BY <2>1 DEF Full
  <2> QED
    BY <1>u, <2>1, <2>2, <2>3 DEF Full, Ready, Overriding, Fresh
<1>9. CASE StoreProblemScore
  <2>1. PICK p \in DOMAIN req.todo :
          req' = [req EXCEPT !.todo = Restrict(req.todo, DOMAIN req.todo \ {p})]
    BY <1>0, <1>9 DEF StoreProblemScore, Stores, Requests
  <2>2. Restrict(req.todo, DOMAIN req.todo \ {p}) \in ByProblem
    BY <1>0, ByProblemMoves, NothingByProblem DEF Requests
  <2>3. /\ req.at = "problem" /\ stale' = FALSE
        /\ UNCHANGED <<closed, due, evidence, score, keyed, feedback, ended, form>>
    BY <1>9 DEF StoreProblemScore, Stores
  <2>4. req'.at = "problem" /\ req'.form = req.form /\ req'.score = req.score
    BY <1>0, <2>1, <2>2, <2>3, RequestTasked
  <2> QED
    BY <1>u, <2>3, <2>4 DEF Full, Ready, Overriding, Fresh
<1>10. CASE End
  <2>1. /\ req.at = "problem" /\ req' = Idle /\ stale' = FALSE
        /\ UNCHANGED <<closed, due, evidence, score, keyed, feedback, form>>
    BY <1>10 DEF End, Stores
  <2> QED
    BY <1>0, <1>u, <2>1 DEF Full, Ready, Overriding, Fresh
<1>11. CASE \E o \in Overrides : Override(o)
  <2>1. PICK o \in Overrides : Override(o)
    BY <1>11
  <2>2. At("audit") \in Requests /\ At("audit").at = "audit"
    BY FreshRequest DEF Steps
  <2>3. /\ req = Idle /\ req' = [At("audit") EXCEPT !.form = o]
        /\ UNCHANGED <<closed, due, evidence, score, keyed, feedback, ended, stale>>
    BY <2>1 DEF Override, results
  <2>4. req'.at = "audit"
    BY <2>2, <2>3, RequestPosted
  <2> QED
    BY <1>0, <1>u, <2>3, <2>4 DEF Full, Ready, Overriding, Fresh
<1>12. CASE StoreAudit
  <2>1. /\ req.at = "audit" /\ req' = [req EXCEPT !.at = "signal"] /\ stale' = FALSE
        /\ UNCHANGED <<closed, due, evidence, score, keyed, feedback, ended>>
    BY <1>12 DEF StoreAudit, Stores, results
  <2>2. req'.at = "signal"
    BY <1>0, <2>1, RequestGoesOn DEF Steps
  <2> QED
    BY <1>u, <2>1, <2>2 DEF Full, Ready, Overriding, Fresh
<1>13. CASE StoreOverride
  <2>1. /\ req.at = "signal" /\ req' = [req EXCEPT !.at = "aggregate"] /\ stale' = FALSE
        /\ UNCHANGED <<closed, due, score, keyed, feedback, ended>>
    BY <1>13 DEF StoreOverride, Stores, results
  <2>2. req'.at = "aggregate" /\ req'.form = req.form
    BY <1>0, <2>1, RequestGoesOn DEF Steps
  <2>3. req.form # None
    BY <2>1 DEF Serves
  <2> QED
    BY <2>1, <2>2, <2>3 DEF Full, Ready, Overriding
<1>14. CASE StoreNewScore
  <2>1. /\ req.at = "score" /\ req' = Idle /\ score' = req.score /\ stale' = FALSE
        /\ UNCHANGED <<closed, due, evidence, keyed, feedback, ended>>
    BY <1>14 DEF StoreNewScore, Stores
  <2> QED
    BY <1>0, <2>1 DEF Full, Ready, Overriding, Fresh
<1> QED
  BY <1>1, <1>2, <1>3, <1>4, <1>5, <1>6, <1>7, <1>8, <1>9, <1>10, <1>11, <1>12, <1>13, <1>14
     DEF Next, vars

\* The score of an ended session.
LEMMA FullIsFinal == Types /\ Full => FinalScoreIsFull
<1> SUFFICES ASSUME Types, Full, ended, req = Idle, \A o \in Overrides : form[o] # "cut"
             PROVE  score = Aggregated(evidence) /\ feedback = score
  BY DEF FinalScoreIsFull
<1>1. keyed /\ Uncut /\ ~ Overriding
  BY DEF Full, Uncut, Overriding, Idle, At
<1> QED
  BY <1>1 DEF Full

\* At the start nobody is served and no score is due.
LEMMA InitFull == Init => Serves /\ Full
BY DEF Init, Serves, Full, Idle, At, Overriding

\* Requests are served in order, and the scores they leave are full.
THEOREM EvaluationInductive == Spec => [](Types /\ Serves /\ Full)
<1>1. Types /\ Serves /\ Full /\ [Next]_vars => (Types /\ Serves /\ Full)'
  BY NextTyped, StillServes, StillFull
<1> QED
  BY <1>1, InitTyped, InitFull, PTL DEF Spec

\* When a session has ended, its score and the feedback file are those of every
\* signal in the log, whatever the thread and the recruiters have added meanwhile
\* (_do_aggregate, recruiter_override).
THEOREM ScoresAreFinal == Spec => []FinalScoreIsFull
<1>1. Types /\ Full => FinalScoreIsFull
  BY FullIsFinal
<1> QED
  BY <1>1, EvaluationInductive, PTL

-----------------------------------------------------------------------------
(* Reviewers prevail. *)

\* F has the signals of E, and perhaps more.
Extends(E, F) == DOMAIN E \subseteq DOMAIN F /\ \A i \in DOMAIN E : F[i] = E[i]

\* What a score says of an override, it says of more evidence as well.
LEMMA SaidStays ==
  ASSUME NEW E, NEW F, Extends(E, F), NEW o
  PROVE  /\ Given(E, o.dim) \subseteq Given(F, o.dim)
         /\ \A s : Says(E, s, o) => Says(F, s, o)
<1>1. Given(E, o.dim) \subseteq Given(F, o.dim)
  BY DEF Given, ShownOf, Extends
<1> QED
  BY <1>1 DEF Says, Within

\* The evidence only grows, and reviewers are certain.
LEMMA EvidenceExtends ==
  Types /\ Serves /\ [Next]_vars =>
    /\ Extends(evidence, evidence')
    /\ \A i \in DOMAIN evidence' : \/ i \in DOMAIN evidence
                                   \/ evidence'[i].by # "reviewer"
                                   \/ evidence'[i].confidence # 0
<1> SUFFICES ASSUME Types, Serves, [Next]_vars
             PROVE  /\ Extends(evidence, evidence')
                    /\ \A i \in DOMAIN evidence' : \/ i \in DOMAIN evidence
                                                   \/ evidence'[i].by # "reviewer"
                                                   \/ evidence'[i].confidence # 0
  OBVIOUS
<1>1. ASSUME NEW s \in Signals, evidence' = Append(evidence, s)
      PROVE  /\ Extends(evidence, evidence')
             /\ \A i \in DOMAIN evidence' : i \in DOMAIN evidence \/ evidence'[i] = s
  BY <1>1, EvidenceGrows DEF Types, Extends
<1>2. CASE UNCHANGED evidence
  BY <1>2 DEF Extends
<1>3. CASE Judge /\ ~ UNCHANGED evidence
  <2>1. due # <<>> /\ Unjudged # {}
    BY <1>3 DEF Judge
  <2>2. PICK v \in Verdicts : evidence' = Append(evidence, Judged(v))
    BY <1>3, JudgeAdds
  <2>3. Judged(v) \in Signals /\ Judged(v).by # "reviewer"
    BY <2>1, JudgedIsSignal
  <2> QED
    BY <1>1, <2>2, <2>3
<1>4. CASE StoreOverride
  <2>1. Reviewed(req.form) \in Signals /\ evidence' = Append(evidence, Reviewed(req.form))
    BY <1>4, StoreOverrideAdds
  <2>2. Reviewed(req.form).confidence # 0
    BY DEF Reviewed, Sure
  <2> QED
    BY <1>1, <2>1, <2>2
<1>5. Next /\ ~ Judge /\ ~ StoreOverride => UNCHANGED evidence
  BY DEF Next, session, StorePlan, Close, Complete, Refused, Crash, FinishScoring, Aggregates,
         StoreFinalScore, StoreProblemScore, End, Override, StoreAudit, AggregateOverride,
         StoreNewScore
<1>6. UNCHANGED vars => UNCHANGED evidence
  BY DEF vars, session
<1> QED
  BY <1>2, <1>3, <1>4, <1>5, <1>6

\* A step after which no more is answered, and which leaves the scores alone.
LEMMA HeardStays ==
  ASSUME Types, Serves, Heard, [Next]_vars,
         \A o \in Overrides : Answered(o)' => Answered(o),
         Overriding' => Overriding /\ req'.form = req.form,
         req'.at = "score" => req.at = "score" /\ req'.score = req.score /\ req'.form = req.form,
         score' = score
  PROVE  Heard'
<1>1. /\ Extends(evidence, evidence')
      /\ \A i \in DOMAIN evidence' : \/ i \in DOMAIN evidence
                                     \/ evidence'[i].by # "reviewer"
                                     \/ evidence'[i].confidence # 0
  BY EvidenceExtends
<1>2. \A i \in DOMAIN evidence' : evidence'[i].by = "reviewer" => evidence'[i].confidence # 0
  BY <1>1 DEF Heard, Extends
<1>3. ASSUME NEW o \in Overrides
      PROVE  /\ Answered(o)' \/ (Overriding' /\ req'.form = o) => Given(evidence', o.dim) # {}
             /\ req'.at = "score" /\ (Answered(o)' \/ req'.form = o) =>
                  Says(evidence', req'.score, o)
             /\ Answered(o)' => Says(evidence', score', o)
  <2>1. /\ Given(evidence, o.dim) \subseteq Given(evidence', o.dim)
        /\ \A s : Says(evidence, s, o) => Says(evidence', s, o)
    BY <1>1, SaidStays
  <2> QED
    BY <2>1 DEF Heard
<1> QED
  BY <1>2, <1>3 DEF Heard

\* An override that is stored has its signal in the evidence.
LEMMA StoredHeard == Types /\ Serves /\ Heard /\ StoreOverride => Heard'
<1> SUFFICES ASSUME Types, Serves, Heard, StoreOverride PROVE Heard'
  OBVIOUS
<1>0. [Next]_vars
  BY DEF Next
<1>1. /\ Extends(evidence, evidence')
      /\ \A i \in DOMAIN evidence' : \/ i \in DOMAIN evidence
                                     \/ evidence'[i].by # "reviewer"
                                     \/ evidence'[i].confidence # 0
  BY <1>0, EvidenceExtends
<1>2. \A i \in DOMAIN evidence' : evidence'[i].by = "reviewer" => evidence'[i].confidence # 0
  BY <1>1 DEF Heard, Extends
<1>3. /\ req.form \in Overrides /\ Reviewed(req.form) \in Signals
      /\ evidence' = Append(evidence, Reviewed(req.form))
  BY StoreOverrideAdds
<1>4. Given(evidence', req.form.dim) # {}
  <2>1. PICK i \in DOMAIN evidence' : evidence'[i] = Reviewed(req.form)
    BY <1>3, EvidenceGrows DEF Types
  <2> QED
    BY <2>1 DEF Given, ShownOf, Reviewed
<1>5. req'.at = "aggregate" /\ req'.form = req.form /\ UNCHANGED <<form, score>>
  BY RequestGoesOn DEF Types, StoreOverride, Stores, Steps, results
<1>6. ASSUME NEW o \in Overrides
      PROVE  /\ Answered(o)' \/ (Overriding' /\ req'.form = o) => Given(evidence', o.dim) # {}
             /\ Answered(o)' => Says(evidence', score', o)
  <2>1. /\ Given(evidence, o.dim) \subseteq Given(evidence', o.dim)
        /\ \A s : Says(evidence, s, o) => Says(evidence', s, o)
    BY <1>1, SaidStays
  <2> QED
    BY <1>4, <1>5, <2>1 DEF Heard, Answered
<1> QED
  BY <1>2, <1>5, <1>6 DEF Heard

\* An aggregation hears every reviewer.
LEMMA AggregateHeard ==
  ASSUME Types, Serves, Heard, MinSignals = 1, UNCHANGED <<evidence, form, score>>,
         req'.at = "score", req'.form = req.form, req'.score = Aggregated(evidence),
         req.form # None => Overriding
  PROVE  Heard'
<1>1. ASSUME NEW o \in Overrides, Answered(o) \/ req.form = o
      PROVE  Says(evidence, Aggregated(evidence), o)
  <2>1. Given(evidence, o.dim) # {}
    BY <1>1, NoneAssumption DEF Heard
  <2> QED
    BY <2>1, ReviewersDecide DEF Heard, Types
<1> QED
  BY <1>1, NoneAssumption DEF Heard, Answered, Overriding

\* No step makes a score forget what reviewers said.
LEMMA StillHeard == MinSignals = 1 /\ Types /\ Serves /\ Heard /\ [Next]_vars => Heard'
<1> SUFFICES ASSUME MinSignals = 1, Types, Serves, Heard, [Next]_vars PROVE Heard'
  OBVIOUS
<1>0. req \in Requests /\ Idle.at = "idle" /\ Idle.form = None /\ form \in [Overrides -> Kinds]
  BY DEF Types, Idle, At
<1>1. CASE UNCHANGED session \/ StorePlan \/ Close \/ Judge \/ Complete
  <2>1. UNCHANGED <<req, form, score>>
    BY <1>1 DEF session, results, StorePlan, Close, Judge, Complete
  <2> QED
    BY <2>1, HeardStays DEF Answered, Overriding
<1>2. CASE Refused \/ Crash
  <2>1. req' = Idle /\ score' = score /\ (Outcome("refused") \/ Outcome("cut"))
    BY <1>2 DEF Refused, Crash, results
  <2>2. "refused" \in Kinds /\ "cut" \in Kinds /\ req.form \in Overrides \cup {None}
    BY <1>0 DEF Kinds, Requests
  <2>3. \A o \in Overrides : form'[o] = form[o] \/ form'[o] = "refused" \/ form'[o] = "cut"
    BY <1>0, <2>1, <2>2, FormStands
  <2>4. \A o \in Overrides : Answered(o)' => Answered(o)
    BY <2>3 DEF Answered
  <2> QED
    BY <1>0, <2>1, <2>4, HeardStays DEF Overriding
<1>3. CASE FinishScoring
  <2>1. /\ req = Idle /\ req' = [View EXCEPT !.score = Aggregated(evidence)]
        /\ UNCHANGED <<evidence, form, score>>
    BY <1>3 DEF FinishScoring, Aggregates, View, Viewed
  <2>2. req'.at = "score" /\ req'.form = None /\ req'.score = Aggregated(evidence)
    BY <2>1, ViewTyped, EvidenceScores, RequestScored
  <2> QED
    BY <1>0, <2>1, <2>2, AggregateHeard
<1>4. CASE AggregateOverride
  <2>1. /\ req.at = "aggregate" /\ UNCHANGED <<evidence, form, score>>
        /\ req' = [[req EXCEPT !.at = "score"] EXCEPT !.score = Aggregated(evidence)]
    BY <1>4 DEF AggregateOverride, Aggregates
  <2>2. req'.at = "score" /\ req'.form = req.form /\ req'.score = Aggregated(evidence)
    <3> DEFINE r == [req EXCEPT !.at = "score"]
    <3>1. r \in Requests /\ r.at = "score" /\ r.form = req.form
      BY <1>0, RequestGoesOn DEF Steps
    <3> HIDE DEF r
    <3> QED
      BY <2>1, <3>1, EvidenceScores, RequestScored DEF r
  <2> QED
    BY <2>1, <2>2, AggregateHeard DEF Overriding
<1>5. CASE StoreFinalScore
  <2>1. /\ req.at = "score" /\ req.form = None /\ req' = [req EXCEPT !.at = "problem"]
        /\ score' = IF keyed THEN score ELSE req.score
        /\ UNCHANGED <<evidence, form>>
    BY <1>5 DEF StoreFinalScore, Stores
  <2>2. req'.at = "problem"
    BY <1>0, <2>1, RequestGoesOn DEF Steps
  <2> QED
    BY <2>1, <2>2 DEF Heard, Answered, Overriding
<1>6. CASE StoreProblemScore \/ End
  <2>1. UNCHANGED <<form, score>> /\ req.at = "problem"
    BY <1>6 DEF StoreProblemScore, End, Stores
  <2>2. req'.at \in {"idle", "problem"}
    <3>1. Moves
      BY RequestMoves, <1>6 DEF Next
    <3> QED
      BY <1>0, <2>1, <3>1 DEF Moves
  <2> QED
    BY <2>1, <2>2, HeardStays DEF Answered, Overriding
<1>7. CASE StoreAudit
  <2>1. UNCHANGED <<form, score>> /\ req' = [req EXCEPT !.at = "signal"]
    BY <1>7 DEF StoreAudit, Stores, results
  <2>2. req'.at = "signal"
    BY <1>0, <2>1, RequestGoesOn DEF Steps
  <2> QED
    BY <2>1, <2>2, HeardStays DEF Answered, Overriding
<1>8. CASE \E o \in Overrides : Override(o)
  <2>1. PICK o \in Overrides : Override(o)
    BY <1>8
  <2>2. At("audit") \in Requests /\ At("audit").at = "audit"
    BY FreshRequest DEF Steps
  <2>3. /\ req' = [At("audit") EXCEPT !.form = o] /\ score' = score
        /\ form' = [form EXCEPT ![o] = "sent"]
    BY <2>1 DEF Override, results
  <2>4. req'.at = "audit"
    BY <2>2, <2>3, RequestPosted
  <2>5. \A p \in Overrides : Answered(p)' => Answered(p)
    BY <1>0, <2>3 DEF Answered
  <2> QED
    BY <2>3, <2>4, <2>5, HeardStays DEF Overriding
<1>9. CASE StoreNewScore
  <2>1. /\ req.at = "score" /\ req.form # None /\ req' = Idle /\ score' = req.score
        /\ UNCHANGED evidence /\ form' = [form EXCEPT ![req.form] = "answered"]
    BY <1>9 DEF StoreNewScore, Stores, Outcome
  <2>2. req.form \in Overrides
    BY <1>0, <2>1 DEF Requests
  <2>3. \A o \in Overrides : Answered(o)' => Answered(o) \/ req.form = o
    BY <1>0, <2>1, <2>2 DEF Answered
  <2> QED
    BY <1>0, <2>1, <2>3 DEF Heard, Overriding
<1> QED
  BY <1>1, <1>2, <1>3, <1>4, <1>5, <1>6, <1>7, <1>8, <1>9, StoredHeard DEF Next, vars

\* At the start nothing has been said or answered.
LEMMA InitHeard == Init => Heard
BY DEF Init, Heard, Answered, Overriding, Idle, At

\* A rubric that asks for one signal of each dimension, as every rubric of the
\* repository does: from the first of them a dimension has a score.
OneSignalSuffices == MinSignals = 1

\* Once answered, an override decides its dimension for good, where one signal
\* suffices (recruiter_override, RubricAggregator.aggregate).
THEOREM ReviewersPrevail == OneSignalSuffices /\ Spec => []ReviewerPrevails
<1> SUFFICES ASSUME OneSignalSuffices PROVE Spec => []ReviewerPrevails
  OBVIOUS
<1>1. Types /\ Serves /\ Heard /\ [Next]_vars => Heard'
  BY StillHeard DEF OneSignalSuffices
<1>2. Heard => ReviewerPrevails
  BY DEF Heard, ReviewerPrevails, Answered, Says, Given
<1> QED
  BY <1>1, <1>2, InitHeard, EvaluationInductive, PTL DEF Spec

-----------------------------------------------------------------------------
(* No score leaves the range of its signals. *)

\* A score that is sound stays so, whatever signals arrive.
LEMMA SoundStays ==
  ASSUME NEW E, NEW F, Extends(E, F), NEW p
  PROVE  \A s : /\ Sound(E, s, DOMAIN E) => Sound(F, s, DOMAIN F)
                /\ Sound(E, s, About(E, p)) => Sound(F, s, About(F, p))
<1> DEFINE values(G, is, d) == ShownOf(G, {i \in is : G[i].dim = d})
<1>1. \A d : /\ values(E, DOMAIN E, d) \subseteq values(F, DOMAIN F, d)
             /\ values(E, About(E, p), d) \subseteq values(F, About(F, p), d)
  BY DEF Extends, About, ShownOf
<1>2. \A S, T, v : S \subseteq T /\ Within(v, S) => Within(v, T)
  BY DEF Within
<1>3. \A G, s, is : Sound(G, s, is) <=>
        /\ \A d \in DOMAIN s.per : Within(s.per[d], values(G, is, d))
        /\ (\E d \in DOMAIN s.per : Weights[d] > 0) =>
             Within(s.composite, {s.per[d] : d \in DOMAIN s.per})
  BY DEF Sound
<1> HIDE DEF values
<1> QED
  BY <1>1, <1>2, <1>3

\* A step after which the scores are those there were, or aggregated anew.
LEMMA BackedStays ==
  ASSUME Types, Serves, Backed, [Next]_vars,
         score' = score \/ (score' = req.score /\ req.at = "score"),
         req'.at = "score" =>
           \/ req.at = "score" /\ req'.score = req.score
           \/ req'.score = Aggregated(evidence),
         \A p \in DOMAIN problemScores' :
           \/ p \in DOMAIN problemScores /\ problemScores'[p] = problemScores[p]
           \/ p \in DOMAIN req.todo /\ problemScores'[p] = req.todo[p],
         \A p \in DOMAIN req'.todo :
           \/ p \in DOMAIN req.todo /\ req'.todo[p] = req.todo[p]
           \/ p \in DOMAIN ProblemScores(evidence) /\ req'.todo[p] = ProblemScores(evidence)[p]
  PROVE  Backed'
<1>1. Extends(evidence, evidence')
  BY EvidenceExtends
<1>2. \A p, s : /\ Sound(evidence, s, DOMAIN evidence) => Sound(evidence', s, DOMAIN evidence')
                /\ Sound(evidence, s, About(evidence, p)) => Sound(evidence', s, About(evidence', p))
  BY <1>1, SoundStays
<1>3. /\ Sound(evidence, Aggregated(evidence), DOMAIN evidence)
      /\ \A p \in DOMAIN ProblemScores(evidence) :
           Sound(evidence, ProblemScores(evidence)[p], About(evidence, p))
  BY EvidenceScores
<1>4. score' # None => Sound(evidence', score', DOMAIN evidence')
  BY <1>2 DEF Backed
<1>5. req'.at = "score" => Sound(evidence', req'.score, DOMAIN evidence')
  BY <1>2, <1>3 DEF Backed
<1>6. \A p \in DOMAIN problemScores' : Sound(evidence', problemScores'[p], About(evidence', p))
  BY <1>2 DEF Backed
<1>7. \A p \in DOMAIN req'.todo : Sound(evidence', req'.todo[p], About(evidence', p))
  BY <1>2, <1>3 DEF Backed
<1> QED
  BY <1>4, <1>5, <1>6, <1>7 DEF Backed

\* The problem's score is the one that may be new under the keys.
LEMMA ByKeyMoves ==
  ASSUME NEW t \in ByProblem, NEW ps \in ByProblem, NEW p \in DOMAIN t,
         NEW both, both = StoreByKey(ps, p, t[p])
  PROVE  \A q \in DOMAIN both : \/ q \in DOMAIN ps /\ both[q] = ps[q]
                                \/ q = p /\ both[q] = t[p]
<1>1. PICK P \in SUBSET Nat : ps \in [P -> Scores]
  BY DEF ByProblem
<1>2. both = [q \in P \cup {p} |-> IF q \in P THEN ps[q] ELSE t[p]]
  BY <1>1 DEF StoreByKey
<1> QED
  BY <1>1, <1>2

\* Every step leaves scores sound.
LEMMA StillBacked == Types /\ Serves /\ Backed /\ [Next]_vars => Backed'
<1> SUFFICES ASSUME Types, Serves, Backed, [Next]_vars PROVE Backed'
  OBVIOUS
<1>0. req \in Requests /\ req.todo \in ByProblem /\ DOMAIN <<>> = {}
  BY DEF Types, Requests
<1>a. Idle.at = "idle" /\ Idle.todo = <<>>
  BY DEF Idle, At
<1>1. CASE UNCHANGED session \/ StorePlan \/ Close \/ Judge \/ Complete
  <2>1. UNCHANGED <<req, score, problemScores>>
    BY <1>1 DEF session, results, StorePlan, Close, Judge, Complete
  <2> QED
    BY <2>1, BackedStays
<1>2. CASE Refused \/ Crash \/ End
  <2>1. req' = Idle /\ UNCHANGED <<score, problemScores>>
    BY <1>2 DEF Refused, Crash, End, Stores, results
  <2> QED
    BY <1>0, <1>a, <2>1, BackedStays
<1>3. CASE FinishScoring
  <2>1. /\ req' = [View EXCEPT !.score = Aggregated(evidence)]
        /\ UNCHANGED <<score, problemScores>>
    BY <1>3 DEF FinishScoring, Aggregates, View
  <2>2. req'.score = Aggregated(evidence) /\ req'.todo = ProblemScores(evidence)
    BY <2>1, ViewTyped, EvidenceScores, RequestScored
  <2> QED
    BY <2>1, <2>2, BackedStays
<1>4. CASE AggregateOverride
  <2>1. /\ req' = [[req EXCEPT !.at = "score"] EXCEPT !.score = Aggregated(evidence)]
        /\ UNCHANGED <<score, problemScores>>
    BY <1>4 DEF AggregateOverride, Aggregates
  <2>2. req'.score = Aggregated(evidence) /\ req'.todo = req.todo
    <3> DEFINE r == [req EXCEPT !.at = "score"]
    <3>1. r \in Requests /\ r.todo = req.todo
      BY <1>0, RequestGoesOn DEF Steps
    <3> HIDE DEF r
    <3> QED
      BY <2>1, <3>1, EvidenceScores, RequestScored DEF r
  <2> QED
    BY <2>1, <2>2, BackedStays
<1>5. CASE StoreFinalScore
  <2>1. /\ req.at = "score" /\ req' = [req EXCEPT !.at = "problem"]
        /\ score' = IF keyed THEN score ELSE req.score
        /\ UNCHANGED problemScores
    BY <1>5 DEF StoreFinalScore, Stores
  <2>2. req'.at = "problem" /\ req'.todo = req.todo
    BY <1>0, <2>1, RequestGoesOn DEF Steps
  <2> QED
    BY <2>1, <2>2, BackedStays
<1>6. CASE StoreProblemScore
  <2>1. PICK p \in DOMAIN req.todo :
          /\ req' = [req EXCEPT !.todo = Restrict(req.todo, DOMAIN req.todo \ {p})]
          /\ problemScores' = StoreByKey(problemScores, p, req.todo[p])
    BY <1>0, <1>6 DEF StoreProblemScore, Stores, Requests
  <2> DEFINE rest_ == Restrict(req.todo, DOMAIN req.todo \ {p})
  <2>2. /\ rest_ \in ByProblem
        /\ DOMAIN rest_ = DOMAIN req.todo \ {p}
        /\ \A q \in DOMAIN req.todo \ {p} : rest_[q] = req.todo[q]
        /\ \A q \in DOMAIN problemScores' :
             \/ q \in DOMAIN problemScores /\ problemScores'[q] = problemScores[q]
             \/ q = p /\ problemScores'[q] = req.todo[p]
    <3>1. problemScores \in ByProblem
      BY DEF Types
    <3>2. /\ rest_ \in ByProblem
          /\ DOMAIN rest_ = DOMAIN req.todo \ {p}
          /\ \A q \in DOMAIN req.todo \ {p} : rest_[q] = req.todo[q]
      BY <1>0, <3>1, ByProblemMoves
    <3>3. /\ problemScores' = StoreByKey(problemScores, p, req.todo[p])
          /\ req.todo \in ByProblem /\ p \in DOMAIN req.todo
      BY <1>0, <2>1
    <3> HIDE DEF rest_
    <3> QED
      BY <3>1, <3>2, <3>3, ByKeyMoves
  <2>3. req'.at = req.at /\ req'.score = req.score /\ req'.todo = rest_
    BY <1>0, <2>1, <2>2, RequestTasked
  <2>4. score' = score
    BY <1>6 DEF StoreProblemScore
  <2> HIDE DEF rest_
  <2> QED
    BY <2>2, <2>3, <2>4, BackedStays
<1>7. CASE StoreAudit \/ StoreOverride
  <2>1. /\ UNCHANGED <<score, problemScores>>
        /\ \/ req' = [req EXCEPT !.at = "signal"] \/ req' = [req EXCEPT !.at = "aggregate"]
    BY <1>7 DEF StoreAudit, StoreOverride, Stores, results
  <2>2. req'.at # "score" /\ req'.todo = req.todo
    <3>1. CASE req' = [req EXCEPT !.at = "signal"]
      BY <1>0, <3>1, RequestGoesOn DEF Steps
    <3>2. CASE req' = [req EXCEPT !.at = "aggregate"]
      BY <1>0, <3>2, RequestGoesOn DEF Steps
    <3> QED
      BY <2>1, <3>1, <3>2
  <2> QED
    BY <2>1, <2>2, BackedStays
<1>8. CASE \E o \in Overrides : Override(o)
  <2>1. PICK o \in Overrides : Override(o)
    BY <1>8
  <2>2. At("audit") \in Requests /\ At("audit").at = "audit" /\ At("audit").todo = <<>>
    BY FreshRequest DEF Steps
  <2>3. req' = [At("audit") EXCEPT !.form = o] /\ UNCHANGED <<score, problemScores>>
    BY <2>1 DEF Override, results
  <2>4. req'.at = "audit" /\ req'.todo = <<>>
    BY <2>2, <2>3, RequestPosted
  <2> QED
    BY <1>0, <2>3, <2>4, BackedStays
<1>9. CASE StoreNewScore
  <2>1. /\ req.at = "score" /\ req' = Idle /\ score' = req.score /\ UNCHANGED problemScores
    BY <1>9 DEF StoreNewScore, Stores
  <2> QED
    BY <1>0, <1>a, <2>1, BackedStays
<1> QED
  BY <1>1, <1>2, <1>3, <1>4, <1>5, <1>6, <1>7, <1>8, <1>9 DEF Next, vars

\* At the start there is no score.
LEMMA InitBacked == Init => Backed
BY DEF Init, Backed, Idle, At

\* Whatever is scored, in whatever order the signals arrive, no score leaves the
\* range of the signals it is made of, each of them rounded as the score is
\* (RubricAggregator.aggregate, _dimension_score, _score_signals_without_feedback),
\* for any rubric, any number of signals and values of any fineness.
THEOREM ScoresAreBounded == Spec => []ScoreWithinEvidence
<1>1. Types /\ Serves /\ Backed /\ [Next]_vars => Backed'
  BY StillBacked
<1>2. Backed => ScoreWithinEvidence
  BY DEF Backed, ScoreWithinEvidence, Sound, About
<1> QED
  BY <1>1, <1>2, InitBacked, EvaluationInductive, PTL DEF Spec

-----------------------------------------------------------------------------
(* The plan, which the scoring of a session begins with. *)

\* Until the plan is stored, the session's selection is the selector's; afterwards
\* its locals are gone.
Selected == choosing = "stored" \/ IInv

\* No step of the session undoes that.
LEMMA StillSelected == Selected /\ [Next]_vars => Selected'
<1> SUFFICES ASSUME Selected, [Next]_vars PROVE Selected'
  OBVIOUS
<1>1. CASE Selecting
  <2>1. choosing # "stored"
    BY <1>1 DEF Selecting, Rank, Exchange, Wanting, Try, Trying, Choose
  <2> QED
    BY <1>1, <2>1, SelectionStep DEF Selected
<1>2. CASE StorePlan
  BY <1>2 DEF StorePlan, Selected
<1>3. CASE UNCHANGED selection
  <2>1. IInv => IInv'
    BY <1>3, SelectionStep
  <2> QED
    BY <1>3, <2>1 DEF Selected, selection
<1>4. Selecting \/ StorePlan \/ UNCHANGED selection
  BY DEF Next, vars, Planned, Stores, Aggregates, Close, Judge, Complete, Refused, Crash,
         FinishScoring, StoreFinalScore, StoreProblemScore, End, Override,
         StoreAudit, StoreOverride, AggregateOverride, StoreNewScore
<1> QED
  BY <1>1, <1>2, <1>3, <1>4

\* The invariant of the selection is one of the session until the plan is stored.
THEOREM SelectionGoesOn == Spec => []Selected
<1>1. Init => Selected
  BY InitDrawn DEF Init, Selected
<1> QED
  BY <1>1, StillSelected, PTL DEF Spec

\* No session asks a problem less fitting than the preferred ones that adds no
\* dimension (select, pick_sequence), for any bank and any scores.
THEOREM PlansPayInSession == Spec => []ExchangesPay
<1>1. Selected => ExchangesPay
  BY DEF Selected, IInv, ExchangesPay
<1> QED
  BY <1>1, SelectionGoesOn, PTL

\* The plan a session stores meets its target, or no exchange of one problem would
\* cover more (_improve_dimension_coverage).
THEOREM PlansSettleInSession == Spec => []NoExchangeLeft
<1>1. Selected => NoExchangeLeft
  BY DEF Selected, IInv, NoExchangeLeft
<1> QED
  BY <1>1, SelectionGoesOn, PTL
=============================================================================
