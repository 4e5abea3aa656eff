----------------------- MODULE ProblemSelectionProofs -----------------------
(***************************************************************************)
(* Proofs about ProblemSelection for any bank, profile and plan size: what *)
(* the plan gives up for what it covers, and that select stops only where  *)
(* no single exchange helps.                                               *)
(***************************************************************************)
EXTENDS ProblemSelection, FiniteSetTheorems, TLAPS

\* What an exchange preserves: the plan is drawn from the bank, and the problems
\* outside it are the candidates of the next exchange.
Drawn ==
  /\ profiled \in BOOLEAN /\ dims \in [Bank -> Targets] /\ profileScore \in [Bank -> Int]
  /\ choosing \in {"start", "exchanging", "trying", "chosen"}
  /\ choosing = "start" => rest = {} /\ next = 0
  /\ choosing # "start" => /\ ranked \in [Bank -> Bank]
                           /\ chosen \in [Places -> Bank]
                           /\ rest \subseteq Bank
                           /\ next \in Nat \ {0}
  /\ choosing = "exchanging" => Bank \subseteq rest \cup Problems(chosen)
  /\ choosing = "exchanging" => profiled
  /\ choosing = "trying" => ~ profiled

IInv == Drawn /\ ExchangesPay /\ NoExchangeLeft

\* A plan has at most as many problems as the bank.
LEMMA CountInBank == Count \in Nat \ {0} /\ Count <= BankSize /\ Places \subseteq Bank
BY BankAssumption, PlanAssumption DEF Count, Places, Bank

\* Covering is counted in numbers.
LEMMA CoverageNat ==
  ASSUME dims \in [Bank -> Targets], NEW ps \in [Places -> Bank]
  PROVE  Coverage(ps) \in Nat
<1>1. IsFiniteSet(UNION Targets)
  BY TargetsAssumption, FS_UNION
<1>2. Covered(ps) \subseteq UNION Targets
  BY DEF Covered
<1> QED
  BY <1>1, <1>2, FS_Subset, FS_CardinalityType DEF Coverage

\* An exchange brings in at most one problem.
LEMMA ReplaceAddsOne ==
  ASSUME NEW ps \in [Places -> Bank], NEW i \in Places, NEW p \in Bank, NEW F
  PROVE  /\ Replace(ps, i, p) \in [Places -> Bank]
         /\ Cardinality(Problems(Replace(ps, i, p)) \ F) <= Cardinality(Problems(ps) \ F) + 1
         /\ Cardinality(Problems(ps) \ F) \in Nat
         /\ Cardinality(Problems(Replace(ps, i, p)) \ F) \in Nat
<1> DEFINE qs == Replace(ps, i, p)
<1>1. qs \in [Places -> Bank]
  BY DEF Replace
<1>2. IsFiniteSet(Bank)
  BY BankAssumption, FS_Interval DEF Bank
<1>3. IsFiniteSet(Problems(ps) \ F)
  <2>1. Problems(ps) \ F \subseteq Bank
    BY DEF Problems
  <2> QED
    BY <1>2, <2>1, FS_Subset
<1>4. Problems(qs) \ F \subseteq (Problems(ps) \ F) \cup {p}
  BY DEF Problems, Replace
<1> DEFINE A == (Problems(ps) \ F) \cup {p}
<1>5. /\ IsFiniteSet(A)
      /\ Cardinality(A) <= Cardinality(Problems(ps) \ F) + 1
      /\ Cardinality(Problems(ps) \ F) \in Nat /\ Cardinality(A) \in Nat
  <2>1. Cardinality(Problems(ps) \ F) \in Nat
    BY <1>3, FS_CardinalityType
  <2> DEFINE S == Problems(ps) \ F
  <2> HIDE DEF S
  <2>2. /\ IsFiniteSet(S \cup {p})
        /\ Cardinality(S \cup {p}) = IF p \in S THEN Cardinality(S) ELSE Cardinality(S) + 1
    BY <1>3, FS_AddElement DEF S
  <2>3. Cardinality(S \cup {p}) \in Nat
    BY <2>2, FS_CardinalityType
  <2> QED
    BY <2>1, <2>2, <2>3 DEF S
<1> HIDE DEF A
<1>6. IsFiniteSet(Problems(qs) \ F) /\ Cardinality(Problems(qs) \ F) <= Cardinality(A)
  BY <1>4, <1>5, FS_Subset DEF A
<1>7. Cardinality(Problems(qs) \ F) \in Nat
  BY <1>6, FS_CardinalityType
<1> QED
  BY <1>1, <1>5, <1>6, <1>7

\* Problems are drawn from the bank, whatever is exchanged.
LEMMA InitDrawn == SelectionInit => IInv
BY ScoreAssumption DEF SelectionInit, IInv, Drawn, ExchangesPay, NoExchangeLeft

\* Every problem has a rank of its own, so the ranking names every problem.
LEMMA RankingNamesAll ==
  ASSUME profileScore \in [Bank -> Int]
  PROVE  Ranking \in [Bank -> Bank] /\ \A p \in Bank : \E i \in Bank : Ranking[i] = p
<1> DEFINE rank == [p \in Bank |-> Cardinality(Ahead(p)) + 1]
<1>1. IsFiniteSet(Bank) /\ Cardinality(Bank) = BankSize
  BY BankAssumption, FS_Interval DEF Bank
<1>2. ASSUME NEW p \in Bank
      PROVE  /\ IsFiniteSet(Ahead(p)) /\ Cardinality(Ahead(p)) \in Nat
             /\ Cardinality(Ahead(p)) + 1 \in Bank
  <2>1. Ahead(p) \subseteq Bank \ {p}
    BY DEF Ahead, Before, Bank
  <2>2. IsFiniteSet(Bank \ {p}) /\ Cardinality(Bank \ {p}) = BankSize - 1
    BY <1>1, FS_RemoveElement
  <2>3. IsFiniteSet(Ahead(p)) /\ Cardinality(Ahead(p)) <= BankSize - 1
    BY <2>1, <2>2, FS_Subset
  <2>4. Cardinality(Ahead(p)) \in Nat
    BY <2>3, FS_CardinalityType
  <2> QED
    BY <2>3, <2>4, BankAssumption DEF Bank
<1>3. ASSUME NEW p \in Bank, NEW q \in Bank, Before(p, q)
      PROVE  rank[p] # rank[q]
  <2>1. Ahead(p) \subseteq Ahead(q)
    BY <1>3 DEF Ahead, Before, Bank
  <2>2. p \in Ahead(q) /\ p \notin Ahead(p)
    BY <1>3 DEF Ahead, Before, Bank
  <2>3. Cardinality(Ahead(p)) # Cardinality(Ahead(q))
    BY <1>2, <2>1, <2>2, FS_Subset
  <2> QED
    BY <1>2, <2>3
<1>4. \A p, q \in Bank : p # q => Before(p, q) \/ Before(q, p)
  BY DEF Before, Bank
<1>5. rank \in Surjection(Bank, Bank)
  <2>1. rank \in [Bank -> Bank]
    BY <1>2
  <2>2. \A p, q \in Bank : rank[p] = rank[q] => p = q
    BY <1>3, <1>4
  <2>3. rank \in Injection(Bank, Bank)
    BY <2>1, <2>2 DEF Injection, IsInjective
  <2> QED
    BY <1>1, <2>3, FS_Injection
<1>6. \A i \in Bank : \E p \in Bank : Cardinality(Ahead(p)) = i - 1
  <2> SUFFICES ASSUME NEW i \in Bank PROVE \E p \in Bank : Cardinality(Ahead(p)) = i - 1
    OBVIOUS
  <2>1. PICK p \in Bank : rank[p] = i
    BY <1>5, Zenon DEF Surjection
  <2>2. i = Cardinality(Ahead(p)) + 1 /\ Cardinality(Ahead(p)) \in Nat
    BY <1>2, <2>1
  <2> QED
    BY <2>2
<1>7. \A i \in Bank : Ranking[i] \in Bank /\ Cardinality(Ahead(Ranking[i])) = i - 1
  BY <1>6 DEF Ranking
<1>8. \A p \in Bank : Ranking[rank[p]] = p
  <2> SUFFICES ASSUME NEW p \in Bank PROVE Ranking[rank[p]] = p
    OBVIOUS
  <2>1. rank[p] \in Bank /\ rank[p] - 1 = Cardinality(Ahead(p))
    BY <1>2
  <2>2. Ranking[rank[p]] \in Bank /\ Cardinality(Ahead(Ranking[rank[p]])) = Cardinality(Ahead(p))
    BY <1>7, <2>1
  <2> QED
    BY <1>3, <1>4, <2>2
<1> QED
  BY <1>2, <1>7, <1>8 DEF Ranking

\* The ranking's first problems are a plan of distinct ones; the rest may come in.
LEMMA RankStep == IInv /\ Rank => IInv'
<1> SUFFICES ASSUME IInv, Rank PROVE IInv'
  OBVIOUS
<1>1. PICK r : /\ r = Ranking /\ ranked' = r
               /\ chosen' = [i \in 1 .. Count |-> r[i]]
               /\ rest' = {r[i] : i \in Count + 1 .. BankSize}
  BY DEF Rank
<1>2. r \in [Bank -> Bank] /\ \A p \in Bank : \E i \in Bank : r[i] = p
  BY <1>1, RankingNamesAll DEF IInv, Drawn
<1>3. chosen' \in [Places -> Bank] /\ chosen' = Favourites'
  BY <1>1, <1>2, CountInBank DEF Places, Favourites
<1>4. Bank \subseteq rest' \cup Problems(chosen')
  <2> SUFFICES ASSUME NEW p \in Bank PROVE p \in rest' \cup Problems(chosen')
    OBVIOUS
  <2>1. PICK i \in Bank : r[i] = p
    BY <1>2
  <2>2. CASE i \in 1 .. Count
    BY <1>1, <2>1, <2>2 DEF Problems
  <2>3. CASE i \in Count + 1 .. BankSize
    <3>1. r[i] \in {r[m] : m \in Count + 1 .. BankSize}
      BY <2>3, Zenon
    <3> QED
      BY <1>1, <2>1, <3>1, Zenon
  <2> QED
    BY <2>2, <2>3, CountInBank, BankAssumption DEF Bank
<1>5. Drawn'
  <2>1. rest' \subseteq Bank
    <3>1. \A i \in Count + 1 .. BankSize : i \in Bank
      BY CountInBank DEF Bank
    <3>2. \A i \in Bank : r[i] \in Bank
      BY <1>2
    <3> QED
      BY <1>1, <3>1, <3>2
  <2>2. next' \in Nat \ {0}
    BY CountInBank DEF Rank
  <2>3. choosing' \in {"exchanging", "trying"} /\ (choosing' = "exchanging" <=> profiled')
    BY DEF Rank
  <2>4. profiled' \in BOOLEAN /\ dims' \in [Bank -> Targets] /\ profileScore' \in [Bank -> Int]
    BY DEF IInv, Drawn, Rank
  <2>5. Problems(chosen)' = Problems(chosen')
    BY DEF Problems
  <2> QED
    BY <1>1, <1>2, <1>3, <1>4, <2>1, <2>2, <2>3, <2>4, <2>5 DEF Drawn
<1>6. ExchangesPay'
  <2>1. Coverage(chosen)' \in Nat
    <3>1. Coverage(chosen') \in Nat
      BY <1>3, CoverageNat DEF IInv, Drawn
    <3> QED
      BY <3>1 DEF Rank, Coverage, Covered
  <2>2. Cardinality({}) = 0
    BY FS_EmptySet
  <2>3. (Problems(chosen) \ Problems(Favourites))' = {}
    BY <1>3
  <2>4. Coverage(Favourites)' = Coverage(chosen)'
    BY <1>3 DEF Coverage, Covered
  <2> QED
    BY <2>1, <2>2, <2>3, <2>4 DEF ExchangesPay
<1>7. NoExchangeLeft'
  BY DEF Rank, NoExchangeLeft
<1> QED
  BY <1>5, <1>6, <1>7 DEF IInv

\* The plan after an exchange of place i for problem p of the candidates.
LEMMA ReplacePays ==
  ASSUME Drawn, ExchangesPay, choosing \in {"exchanging", "trying"},
         NEW i \in Places, NEW p \in Bank, Improves(i, p),
         chosen' = Replace(chosen, i, p), UNCHANGED <<dims, ranked>>
  PROVE  ExchangesPay' /\ chosen' \in [Places -> Bank]
<1> DEFINE F == Problems(Favourites)
           old == Cardinality(Problems(chosen) \ F)
           new == Cardinality(Problems(Replace(chosen, i, p)) \ F)
<1>1. chosen \in [Places -> Bank] /\ ranked \in [Bank -> Bank] /\ Favourites \in [Places -> Bank]
  BY CountInBank DEF Drawn, Favourites
<1>2. Replace(chosen, i, p) \in [Places -> Bank] /\ old \in Nat /\ new \in Nat /\ new <= old + 1
  BY <1>1, ReplaceAddsOne
<1>3. /\ Coverage(chosen) \in Nat /\ Coverage(Favourites) \in Nat
      /\ Coverage(Replace(chosen, i, p)) \in Nat
  BY <1>1, <1>2, CoverageNat DEF Drawn
<1>4. Coverage(Replace(chosen, i, p)) > Coverage(chosen)
  BY DEF Improves
<1>5. old <= Coverage(chosen) - Coverage(Favourites)
  BY DEF ExchangesPay
<1>6. new <= Coverage(Replace(chosen, i, p)) - Coverage(Favourites)
  BY <1>2, <1>3, <1>4, <1>5
<1>7. /\ Problems(chosen)' = Problems(Replace(chosen, i, p)) /\ Problems(Favourites)' = F
      /\ Coverage(chosen)' = Coverage(Replace(chosen, i, p))
      /\ Coverage(Favourites)' = Coverage(Favourites)
  BY DEF Problems, Favourites, Coverage, Covered
<1> QED
  BY <1>2, <1>6, <1>7 DEF ExchangesPay

\* An exchange keeps the problems distinct, and pays.
LEMMA ExchangeStep == IInv /\ Exchange => IInv'
<1> SUFFICES ASSUME IInv, Exchange PROVE IInv'
  OBVIOUS
<1>1. PICK i \in Places, p \in rest : /\ Improves(i, p)
                                      /\ chosen' = Replace(chosen, i, p)
                                      /\ rest' = (rest \ {p}) \cup {chosen[i]}
  BY DEF Exchange, Exchanges, Places
<1>2. p \in Bank
  BY DEF IInv, Drawn, Exchange, Wanting
<1>3. ExchangesPay' /\ chosen' \in [Places -> Bank]
  BY <1>1, <1>2, ReplacePays DEF IInv, Exchange, Wanting
<1>4. Bank \subseteq rest' \cup Problems(chosen')
  BY <1>1 DEF IInv, Drawn, Exchange, Wanting, Problems, Replace
<1>5. Drawn'
  <2>1. rest' \subseteq Bank
    BY <1>1, <1>2 DEF IInv, Drawn, Exchange, Wanting, Places
  <2>2. Problems(chosen)' = Problems(chosen')
    BY DEF Problems
  <2> QED
    BY <1>3, <1>4, <2>1, <2>2 DEF IInv, Drawn, Exchange, Wanting
<1>6. NoExchangeLeft'
  BY DEF Exchange, Wanting, NoExchangeLeft
<1> QED
  BY <1>3, <1>5, <1>6 DEF IInv

\* A try does so, too, or leaves the plan alone; candidates passed over stay passed.
LEMMA TryStep == IInv /\ Try => IInv'
<1> SUFFICES ASSUME IInv, Try PROVE IInv'
  OBVIOUS
<1>0. next \in Bank
  BY BankAssumption DEF IInv, Drawn, Try, Trying, Bank
<1>a. rest' \subseteq Bank /\ next' \in Nat \ {0}
  BY <1>0 DEF IInv, Drawn, Try, Trying, Places, Bank
<1>b. NoExchangeLeft'
  BY DEF IInv, Drawn, NoExchangeLeft, Try, Trying
<1>1. CASE UNCHANGED chosen
  <2>1. Drawn'
    BY <1>0, <1>1, <1>a DEF IInv, Drawn, Try, Trying
  <2>2. ExchangesPay'
    BY <1>1 DEF IInv, ExchangesPay, Try, Trying, Problems, Favourites, Coverage, Covered
  <2> QED
    BY <1>b, <2>1, <2>2 DEF IInv
<1>2. CASE \E i \in Places : Improves(i, ranked[next]) /\ chosen' = Replace(chosen, i, ranked[next])
  <2>1. PICK i \in Places : /\ Improves(i, ranked[next])
                            /\ chosen' = Replace(chosen, i, ranked[next])
    BY <1>2
  <2>2. ranked[next] \in Bank
    BY <1>0 DEF IInv, Drawn, Try, Trying
  <2>3. ExchangesPay' /\ chosen' \in [Places -> Bank]
    BY <2>1, <2>2, ReplacePays DEF IInv, Try, Trying
  <2>4. Drawn'
    BY <1>0, <1>a, <2>3 DEF IInv, Drawn, Try, Trying
  <2> QED
    BY <1>b, <2>3, <2>4 DEF IInv
<1> QED
  BY <1>1, <1>2 DEF Try, Places

\* When a plan is returned there is no exchange left that would pay.
LEMMA ChooseStep == IInv /\ Choose => IInv'
<1> SUFFICES ASSUME IInv, Choose PROVE IInv'
  OBVIOUS
<1>1. Drawn' /\ ExchangesPay'
  BY DEF IInv, Drawn, ExchangesPay, Choose, Problems, Favourites, Coverage, Covered
<1>2. NoExchangeLeft'
  <2>1. CASE choosing = "exchanging" /\ Coverage(chosen) >= Target
    <3>1. Coverage(chosen)' = Coverage(chosen) /\ Target' = Target
      BY DEF Choose, Coverage, Covered, Target
    <3> QED
      BY <2>1, <3>1 DEF NoExchangeLeft
  <2>2. CASE choosing = "exchanging" /\ Exchanges = {}
    <3> SUFFICES ASSUME NEW i \in Places, NEW p \in Bank \ Problems(chosen)', Improves(i, p)'
                 PROVE  FALSE
      BY DEF NoExchangeLeft
    <3>1. Improves(i, p) /\ p \notin Problems(chosen)
      BY DEF Choose, Improves, Coverage, Covered, Replace, Problems
    <3>2. p \in rest
      BY <2>2, <3>1 DEF IInv, Drawn
    <3>3. <<i, p>> \in Exchanges
      BY <3>1, <3>2 DEF Exchanges, Places
    <3> QED
      BY <2>2, <3>3
  <2>3. CASE choosing = "trying"
    BY <2>3 DEF IInv, Drawn, Choose, NoExchangeLeft
  <2> QED
    BY <2>1, <2>2, <2>3 DEF Choose
<1> QED
  BY <1>1, <1>2 DEF IInv

\* No step of the selection breaks the invariant.
LEMMA SelectionStep == IInv /\ [Selecting]_selection => IInv'
<1>1. IInv /\ UNCHANGED selection => IInv'
  BY DEF IInv, Drawn, ExchangesPay, NoExchangeLeft, selection, Problems, Favourites,
         Coverage, Covered, Improves, Replace, Target
<1> QED
  BY <1>1, RankStep, ExchangeStep, TryStep, ChooseStep DEF Selecting

\* The invariant holds of every plan in the making.
THEOREM Inductive == SelectionSpec => []IInv
BY SelectionStep, InitDrawn, PTL DEF SelectionSpec

\* The types of the selection's state.
THEOREM TypesHold == SelectionSpec => []SelectionTypeOK
<1>1. IInv => SelectionTypeOK
  BY DEF IInv, Drawn, SelectionTypeOK
<1> QED
  BY <1>1, Inductive, PTL

\* No problem less fitting than the preferred ones is asked that adds no dimension
\* (select, pick_sequence), for any bank and any scores.
THEOREM PlansPay == SelectionSpec => []ExchangesPay
<1>1. IInv => ExchangesPay
  BY DEF IInv
<1> QED
  BY <1>1, Inductive, PTL

\* Where _improve_dimension_coverage stops, the target is met or no exchange of one
\* problem would cover more.
THEOREM PlansSettle == SelectionSpec => []NoExchangeLeft
<1>1. IInv => NoExchangeLeft
  BY DEF IInv
<1> QED
  BY <1>1, Inductive, PTL
=============================================================================
