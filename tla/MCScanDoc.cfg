\* A scan beside calls whose dispatch stays ambiguous.
CONSTANTS
  ActionIDs = {x1}
  Intents = {i1}
  AttemptIDs = {a1, a2}
  NoAttempt = NoAttempt
  NoIntent = NoIntent
  Requests = {r1, r2}
  Decisions = {d1}
  NoAuthorization = NoAuthorization
  Inputs <- MatchingInputs
SPECIFICATION ScanSpec
CHECK_DEADLOCK FALSE
SYMMETRY Symmetry
INVARIANT ScanReportsInconclusive
