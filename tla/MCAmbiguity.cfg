\* A second Execute of an action whose dispatch is ambiguous.
CONSTANTS
  ActionIDs = {x1}
  Intents = {i1}
  AttemptIDs = {a1, a2}
  NoAttempt = NoAttempt
  NoIntent = NoIntent
  Requests = {r1, r2}
  Decisions = {d1}
  NoAuthorization = NoAuthorization
  Inputs <- MatchingInputs
SPECIFICATION FairSpec
CHECK_DEADLOCK FALSE
PROPERTY AmbiguityNeedsRecovery
