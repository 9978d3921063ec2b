\* Three callers of one log: two share a process and its connection.
CONSTANTS
  x1 = x1
  i1 = i1
  i2 = i2
  a1 = a1
  a2 = a2
  r1 = r1
  r2 = r2
  r3 = r3
  p1 = p1
  p2 = p2
  ActionIDs = {x1}
  Intents = {i1, i2}
  AttemptIDs = {a1, a2}
  NoAttempt = NoAttempt
  NoIntent = NoIntent
  Requests = {r1, r2, r3}
  Operations <- MCOperations
  Backends = {"memory", "sqlite"}
  Processes = {p1, p2}
  Process <- MCProcess
SPECIFICATION Spec
CHECK_DEADLOCK FALSE
INVARIANTS
  LogsTypeOK
  ClaimIsWhole
  ReadsFollowAppendOrder
PROPERTIES
  ImplementsJournal
  OperationReturns
