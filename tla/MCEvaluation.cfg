\* A plan of three from a bank of five; two problems scored, two overrides, one crash.
SPECIFICATION Spec
CONSTANTS
  None = None
  BankSize = 5
  Targets <- Topics
  MaxScore = 1
  PlanSize = 3
  Grain = 5
  Weights <- Rubric
  TargetDims <- Dims
  MinSignals = 1
  Weighted = TRUE
  Judgements <- Answers
  Hits = {1}
  Overrides <- Forms
  MaxClosed = 2
  MaxCrashes = 1
INVARIANTS
  ExchangesPay NoExchangeLeft ReviewerPrevails FinalScoreIsFull ScoreWithinEvidence
