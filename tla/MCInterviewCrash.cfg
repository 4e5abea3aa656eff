\* One problem, a form with code, and a crash of the process at any point.
SPECIFICATION Spec
CONSTANTS
  None = None
  Worker = Worker
  p1 = p1  p2 = p2  d1 = d1  d2 = d2  n1 = n1  n2 = n2  h1 = h1  h2 = h2
  Handlers = {h1}
  Nonces = {n1, n2}
  Body <- Forms
  Plan <- OneProblem
  TargetDims <- SameDim
  ScoredDims = {d1}
  TargetAnswers = 1
  MaxProbesPerPrompt = 0
  MaxProbesPerProblem = 1
  MaxCited = 0
  MaxCrashes = 1
INVARIANTS
  RequestIsComplete CompletedMeansScored CodeRunOnce EventsCiteThePast
