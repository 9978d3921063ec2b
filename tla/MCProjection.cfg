CONSTANTS
  ActionIDs = {x1}
  Intents = {i1}
  AttemptIDs = {a1}
  NoAttempt = NoAttempt
  NoIntent = NoIntent
  Kinds <- MCKinds
SPECIFICATION Spec
INVARIANTS
  TypeOK
  ViewIsOrderFree
  AssessmentIsRecorded
PROPERTY KnowledgeOnlyGrows
