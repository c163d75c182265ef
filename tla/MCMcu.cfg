SPECIFICATION FairSpec
CONSTANTS
  Mcus <- Nodes
  MaxReadings = 2
  MaxOut = 2
INVARIANTS
  TypeOK
  ReadingsConserved
  SleepingTold
PROPERTIES
  SettlesOnceUp
  EventuallyHeard
  SleepsAgain
