---------------------------- MODULE MCEvaluation ----------------------------
(***************************************************************************)
(* Five problems of up to two dimensions for a plan of three, of which two *)
(* are scored; two overrides, one citing the first problem.                *)
(***************************************************************************)
EXTENDS Evaluation

Topics  == {{"framing"}, {"rationale"}, {"insight"}, {"framing", "rationale"}}
Rubric  == [framing |-> 1, rationale |-> 3]
Dims    == <<{"framing", "rationale"}, {"framing"}>>

\* Values in 1/50000, confidence in tenths: one without confidence, and one out of
\* range, which the heuristic replaces.
Answers == {<<49998, 0>>, <<60000, 7>>}

\* One of them rounding makes a full mark (0.99996).
Forms ==
  {[dim |-> "framing", value |-> 49998, refs |-> {1}],
   [dim |-> "framing", value |-> 5000, refs |-> {}]}
=============================================================================
