CONSTANTS
  Requests = {q1, q2}
  People = {wes, wil}
  Writers = {wes, wil}
  Insiders = {wes}
  Private = TRUE
  MaxTxAttempts = 2
  MaxCalls = 3
SPECIFICATION FairSpec
CHECK_DEADLOCK FALSE
INVARIANTS PeopleSafe
PROPERTIES CallsEnd
