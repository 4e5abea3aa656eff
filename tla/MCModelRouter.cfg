\* Every agent, with both providers; the attempts as in the code.
SPECIFICATION Spec
CONSTANTS
  None = None
  TierTimeout <- Timeouts
  Budgets <- Deadlines
  Providers = {"single", "retrying"}
  MaxRetries = 3
  HttpTries = 3
  BaseDelay = 1
  TimeoutPause = 1
  ErrorPause = 1
  MaxReads = 2
INVARIANTS
  RequestsBounded Punctual OutcomeExplained OnlyAnswersUsed
CHECK_DEADLOCK FALSE
