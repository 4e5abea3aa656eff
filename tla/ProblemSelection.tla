-------------------------- MODULE ProblemSelection --------------------------
(***************************************************************************)
(* How the problems of a session are chosen: the profile-aware selector    *)
(* (core/problem_selection.py) and, without a profile to go by, the bank's *)
(* own picker (core/problem_bank.py).  Both rank the bank, take the first  *)
(* problems and exchange single ones until the plan covers more of the     *)
(* rubric's dimensions.                                                    *)
(*                                                                         *)
(* A problem is the place of its hash among the hashes of the bank for     *)
(* this session (_stable_rank), so 1 .. BankSize is the bank in the order  *)
(* of the hash.  What its tags and texts have in common with the profile   *)
(* is its profile score; the rationale beside it decides nothing.          *)
(***************************************************************************)
EXTENDS Integers, Sequences, FiniteSets

CONSTANTS BankSize,    \* the number of problems in the bank
          Targets,     \* the sets of dimensions a problem may be about
          MaxScore,    \* bound on profile scores
          PlanSize     \* count: problems asked for

ASSUME BankAssumption == BankSize \in Nat \ {0}
ASSUME TargetsAssumption ==
  IsFiniteSet(Targets) /\ \A t \in Targets : t # {} /\ IsFiniteSet(t)
ASSUME PlanAssumption == PlanSize \in Nat \ {0}
ASSUME ScoreAssumption == MaxScore \in Nat

Bank  == 1 .. BankSize
Count == IF PlanSize < BankSize THEN PlanSize ELSE BankSize   \* min(count, len(entries))

VARIABLES profiled,  \* the profile has terms to match
          dims,      \* dims[p]: target_dimensions of problem p
          profileScore,     \* profileScore[p], of problem p
          ranked,    \* the bank in order of preference
          chosen,    \* selected: the plan so far
          rest,      \* remaining: the problems an exchange may bring in
          next,      \* picker: place in ranked of the next candidate
          choosing   \* start, exchanging, trying, or chosen

selection == <<profiled, dims, profileScore, ranked, chosen, rest, next, choosing>>

\* --- coverage ------------------------------------------------------------

Covered(ps) == UNION {dims[ps[i]] : i \in DOMAIN ps}
Coverage(ps) == Cardinality(Covered(ps))

Problems(ps) == {ps[i] : i \in DOMAIN ps}
Replace(ps, i, p) == [ps EXCEPT ![i] = p]

\* target_coverage: as many dimensions as there are problems, or all of them.
Target ==
  LET all == Cardinality(UNION {dims[p] : p \in Bank})
  IN IF Count < all THEN Count ELSE all

\* best_possible: the best coverage of neighbours in the ranking.
BestWindow ==
  LET windows == {[i \in 1 .. Count |-> ranked[start + i]] : start \in 0 .. BankSize - Count}
  IN CHOOSE c \in {Coverage(w) : w \in windows} : \A w \in windows : Coverage(w) <= c

\* --- the ranking ---------------------------------------------------------

\* Sort key: the profile score, best first, then the hash.
Before(p, q) ==
  \/ profiled /\ profileScore[p] > profileScore[q]
  \/ (profiled => profileScore[p] = profileScore[q]) /\ p < q

\* The problems that go before p
Ahead(p) == {q \in Bank : Before(q, p)}

\* What sorted() returns.
Ranking == [i \in Bank |-> CHOOSE p \in Bank : Cardinality(Ahead(p)) = i - 1]

SelectionInit ==
  /\ profiled \in BOOLEAN
  /\ dims \in [Bank -> Targets]
  /\ profileScore \in IF profiled THEN [Bank -> 0 .. MaxScore] ELSE {[p \in Bank |-> 0]}
  /\ ranked = <<>> /\ chosen = <<>> /\ rest = {} /\ next = 0
  /\ choosing = "start"

\* select and pick_sequence rank the bank and take the first problems.
Rank ==
  /\ choosing = "start"
  /\ ranked' = Ranking
  /\ chosen' = [i \in 1 .. Count |-> Ranking[i]]
  /\ rest' = {Ranking[i] : i \in Count + 1 .. BankSize}
  /\ next' = Count + 1
  /\ choosing' = IF profiled THEN "exchanging" ELSE "trying"
  /\ UNCHANGED <<profiled, dims, profileScore>>

\* --- select: the best exchange, until none helps or the target is met ----

\* Mutant of Improves: an exchange that covers as much is made, too.
DoesNotHarm(i, p) == Coverage(Replace(chosen, i, p)) >= Coverage(chosen)

\* Replacing place i by problem p would cover more.
Improves(i, p) == Coverage(Replace(chosen, i, p)) > Coverage(chosen)

\* Exchange x = <<place, problem>> has a better swap_key than y, or the same and
\* comes first; problems have different hashes.
Better(x, y) ==
  LET cx == Coverage(Replace(chosen, x[1], x[2]))
      cy == Coverage(Replace(chosen, y[1], y[2]))
      loss(z) == profileScore[chosen[z[1]]] - profileScore[z[2]]
  IN \/ cx > cy
     \/ cx = cy /\ loss(x) < loss(y)
     \/ cx = cy /\ loss(x) = loss(y) /\ x[2] < y[2]
     \/ cx = cy /\ loss(x) = loss(y) /\ x[2] = y[2] /\ x[1] < y[1]

Exchanges == {x \in (1 .. Count) \X rest : Improves(x[1], x[2])}

Wanting == choosing = "exchanging" /\ Coverage(chosen) < Target

\* Mutant of Exchange: one exchange is made at most.
ExchangeOnce ==
  /\ Wanting
  /\ \E x \in Exchanges :
       /\ \A y \in Exchanges \ {x} : Better(x, y)
       /\ chosen' = Replace(chosen, x[1], x[2])
       /\ rest' = (rest \ {x[2]}) \cup {chosen[x[1]]}
  /\ choosing' = "chosen"
  /\ UNCHANGED <<profiled, dims, profileScore, ranked, next>>

\* One round of _improve_dimension_coverage; what goes out may come back in.
Exchange ==
  /\ Wanting
  /\ \E x \in Exchanges :
       /\ \A y \in Exchanges \ {x} : Better(x, y)
       /\ chosen' = Replace(chosen, x[1], x[2])
       /\ rest' = (rest \ {x[2]}) \cup {chosen[x[1]]}
  /\ UNCHANGED <<profiled, dims, profileScore, ranked, next, choosing>>

\* --- pick_sequence: one pass over the candidates -------------------------

Trying == choosing = "trying" /\ next <= BankSize /\ Coverage(chosen) < BestWindow

\* The next candidate takes the first place where it helps, if there is one.
Try ==
  /\ Trying
  /\ LET p == ranked[next]
         places == {i \in 1 .. Count : Improves(i, p)}
     IN \/ /\ places = {} /\ UNCHANGED <<chosen, rest>>
        \/ \E i \in places :
             /\ \A j \in places : i <= j
             /\ chosen' = Replace(chosen, i, p)
             /\ rest' = (rest \ {p}) \cup {chosen[i]}
  /\ next' = next + 1
  /\ UNCHANGED <<profiled, dims, profileScore, ranked, choosing>>

\* --- the plan is returned ------------------------------------------------

Choose ==
  /\ \/ choosing = "exchanging" /\ (Coverage(chosen) >= Target \/ Exchanges = {})
     \/ choosing = "trying" /\ ~ Trying
  /\ choosing' = "chosen"
  /\ UNCHANGED <<profiled, dims, profileScore, ranked, chosen, rest, next>>

Selecting == Rank \/ Exchange \/ Try \/ Choose

SelectionSpec == SelectionInit /\ [][Selecting]_selection

-----------------------------------------------------------------------------
(* Properties. *)

Places == 1 .. Count

\* Types of the state.
SelectionTypeOK ==
  /\ profiled \in BOOLEAN
  /\ dims \in [Bank -> Targets]
  /\ profileScore \in [Bank -> Int]
  /\ choosing \in {"start", "exchanging", "trying", "chosen"}
  /\ next \in Nat
  /\ rest \subseteq Bank
  /\ choosing # "start" => ranked \in [Bank -> Bank] /\ chosen \in [Places -> Bank]

\* The problems preferred by profile and hash.
Favourites == [i \in Places |-> ranked[i]]

\* Whatever the exchanges and however they chain, the plan has no more problems
\* from outside the preferred ones than dimensions it covers beyond them: nobody is
\* asked a less fitting problem that adds nothing (select, pick_sequence).
ExchangesPay ==
  choosing \in {"exchanging", "trying", "chosen"} =>
    Cardinality(Problems(chosen) \ Problems(Favourites))
      <= Coverage(chosen) - Coverage(Favourites)

\* A plan drawn from a profile covers the dimensions it aims at, or no exchange of
\* one of its problems for any other of the bank, those already exchanged
\* included, would cover more (_improve_dimension_coverage).
NoExchangeLeft ==
  profiled /\ choosing = "chosen" =>
    \/ Coverage(chosen) >= Target
    \/ \A i \in Places, p \in Bank \ Problems(chosen) : ~ Improves(i, p)
=============================================================================
