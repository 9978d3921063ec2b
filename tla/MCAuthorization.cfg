\* One authorization presented for two new attempts.
CONSTANTS
  ActionIDs = {x1}
  Intents = {i1}
  AttemptIDs = {a1, a2, a3}
  NoAttempt = NoAttempt
  NoIntent = NoIntent
  Requests = {r1, r2, r3}
  Decisions = {d1}
  NoAuthorization = NoAuthorization
  Inputs <- MatchingInputs
SPECIFICATION Spec
CHECK_DEADLOCK FALSE
SYMMETRY Symmetry
INVARIANT AuthorizationIsUsedOnce
