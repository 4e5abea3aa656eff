\* The documented deployment: one event loop, so one request at a time, with the
\* scoring thread beside it; two problems, two answer forms.
SPECIFICATION Spec
CONSTANTS
  None = None
  Worker = Worker
  p1 = p1  p2 = p2  d1 = d1  d2 = d2  n1 = n1  n2 = n2  h1 = h1  h2 = h2
  Handlers = {h1}
  Nonces = {n1, n2}
  Body <- TextForms
  Plan <- TwoProblems
  TargetDims <- OwnDim
  ScoredDims = {d1, d2}
  TargetAnswers = 1
  MaxProbesPerPrompt = 0
  MaxProbesPerProblem = 1
  MaxCited = 1
  MaxCrashes = 0
INVARIANTS
  TypeOK RecordedOnce ProbeCap ScoreNeedsSignals QuietAfterEnd OneProblemAtATime
SYMMETRY SameForms
