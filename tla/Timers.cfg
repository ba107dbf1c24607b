CONSTANTS
  Period = 3
  BeforeEpoch = 1
  LastReading = 2
  MaxWall = 8
  MaxSteps = 2
  MaxKills = 2
SPECIFICATION FairSpec
INVARIANTS
  SleepEndsAtDeadline
  WakesEarlyOnlyBySkew
PROPERTIES
  EventuallyFires
CHECK_DEADLOCK FALSE
