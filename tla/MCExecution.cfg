\* Three concurrent calls for one action: duplicates, recoveries, crashes.
CONSTANTS
  ActionIDs = {x1}
  Intents = {i1}
  AttemptIDs = {a1, a2}
  NoAttempt = NoAttempt
  NoIntent = NoIntent
  Requests = {r1, r2, r3}
  Decisions = {d1}
  NoAuthorization = NoAuthorization
  Inputs <- OtherInputs
SPECIFICATION Spec
CHECK_DEADLOCK FALSE
SYMMETRY Symmetry
INVARIANTS
  TypeOK
  AtMostOneCallPerAttempt
  CallIsWrittenAhead
  DispatchFactsAreTrue
  AttemptHistoryIsCoherent
  ReturnedOutcomeIsSound
  ReturnedOutcomeIsRecorded
