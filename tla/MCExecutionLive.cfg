\* Two calls under fair scheduling (no symmetry: liveness and refinement).
CONSTANTS
  ActionIDs = {x1}
  Intents = {i1}
  AttemptIDs = {a1, a2}
  NoAttempt = NoAttempt
  NoIntent = NoIntent
  Requests = {r1, r2}
  Decisions = {d1}
  NoAuthorization = NoAuthorization
  Inputs <- MatchingInputs
SPECIFICATION FairSpec
CHECK_DEADLOCK FALSE
PROPERTIES
  ClaimIsSettled
  ImplementsLifecycle
