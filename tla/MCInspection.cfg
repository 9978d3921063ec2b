\* A scan beside two calls: every combination of actions, intents, attempts and
\* authorizations.
CONSTANTS
  ActionIDs = {x1, x2}
  Intents = {i1, i2}
  AttemptIDs = {a1, a2, a3}
  NoAttempt = NoAttempt
  NoIntent = NoIntent
  Requests = {r1, r2}
  Decisions = {d1}
  NoAuthorization = NoAuthorization
  Inputs <- AllInputs
SPECIFICATION ScanSpec
CHECK_DEADLOCK FALSE
SYMMETRY Symmetry
INVARIANTS
  ScanTypeOK
  SentCallsAreAccountedFor
  ScanMissesNothing
  LostCallsStayVisible
  RecoveryIsLinked
PROPERTY HistoryIsAppendOnly
