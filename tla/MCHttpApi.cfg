\* Two requests, one of which may change the action or recover the other, and a verification.
CONSTANTS
  i1 = i1
  i2 = i2
  a1 = a1
  a2 = a2
  ActionIDs = {x1}
  Intents = {i1, i2}
  AttemptIDs = {a1, a2}
  NoAttempt = NoAttempt
  NoIntent = NoIntent
  Requests = {r1, r2}
  Decisions = {d1}
  NoAuthorization = NoAuthorization
  NoResponse = NoResponse
  Assessments = {"verified"}
  MaxVerifications = 1
  Inputs <- HttpInputs
SPECIFICATION HttpSpec
CHECK_DEADLOCK FALSE
INVARIANTS
  HttpTypeOK
  ErrorStatusMeansNoEffect
  AnswerAgreesWithRecord
  ResubmissionIsRefused
  CleanShutdownLosesNothing
PROPERTY RequestIsAnswered
