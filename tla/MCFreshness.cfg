\* One verification beside the executor: every age at and around the freshness window.
CONSTANTS
  ActionIDs = {x1}
  Intents = {i1}
  AttemptIDs = {a1}
  NoAttempt = NoAttempt
  NoIntent = NoIntent
  Calls = {c1}
  MaxTime = 4
  MaxAge = 2
  MaxSkew = 2
  Demands = {"on", "off", "unreadable", "unsupported"}
SPECIFICATION Spec
CHECK_DEADLOCK FALSE
INVARIANT AssessmentRestsOnEvidence
