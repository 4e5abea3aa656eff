\* Two requests in progress together (several threads or processes), racing to close
\* the first problem and introduce the second; the probe cap closes at once.
SPECIFICATION AnsweredSpec
CONSTANTS
  None = None
  Worker = Worker
  p1 = p1  p2 = p2  d1 = d1  d2 = d2  n1 = n1  n2 = n2  h1 = h1  h2 = h2
  Handlers = {h1, h2}
  Nonces = {}
  Body <- TextForms
  Plan <- TwoProblems
  TargetDims <- SameDim
  ScoredDims = {d1, d2}
  TargetAnswers = 1
  MaxProbesPerPrompt = 0
  MaxProbesPerProblem = 0
  MaxCited = 1
  MaxCrashes = 0
INVARIANTS
  OneProblemAtATime EventsCiteThePast
SYMMETRY Requests
