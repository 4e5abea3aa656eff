\* Progress, with one crash: of the first problem, and of the scoring of both.
SPECIFICATION LiveSpec
CONSTANTS
  None = None
  Worker = Worker
  p1 = p1  p2 = p2  d1 = d1  d2 = d2  n1 = n1  n2 = n2  h1 = h1  h2 = h2
  Handlers = {h1}
  Nonces = {n1}
  Body <- TextForms
  Plan <- TwoProblems
  TargetDims <- SameDim
  ScoredDims = {d1}
  TargetAnswers = 1
  MaxProbesPerPrompt = 1
  MaxProbesPerProblem = 1
  MaxCited = 1
  MaxCrashes = 1
PROPERTIES
  EveryAnswerReviewed ResultArrives
