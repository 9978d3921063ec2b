\* Two verifications, the executor and the device.
CONSTANTS
  ActionIDs = {x1}
  Intents = {i1}
  AttemptIDs = {a1}
  NoAttempt = NoAttempt
  NoIntent = NoIntent
  Calls = {c1, c2}
  MaxTime = 1
  MaxAge = 1
  MaxSkew = 0
  Demands = {"on", "unreadable"}
SPECIFICATION Spec
CHECK_DEADLOCK FALSE
SYMMETRY Symmetry
INVARIANTS
  TypeOK
  ContradictionIsVisible
  DispatchIsTheExecutors
  UnrecordedIsReported
PROPERTY EffectOnlyGrows
