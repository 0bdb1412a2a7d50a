SPECIFICATION Spec
CONSTANTS
  Asked <- AllIntents
  Quota = 2
  MaxCount = 2
  Limit = 20
INVARIANTS OneOrderPerTurn PlacedIsConfirmed SearchClashesOnFailure WithinLimit
PROPERTIES PlacedOnVerdict AskedOnce
CHECK_DEADLOCK FALSE
