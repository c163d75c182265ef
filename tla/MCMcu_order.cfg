SPECIFICATION Spec
CONSTANTS
  Mcus <- OneNode
  MaxReadings = 2
  MaxOut = 2
INVARIANT
  HeldGoFirst
