\* four pods, two laps
CONSTANTS
  RUNDEN = 2
  ANZAHL_RACER = 4
  CRASH_FACTOR = 20
  Zeiten <- SomeTimes
SPECIFICATION FairSpec
INVARIANTS
  TypeOK
  ResultUnlessCrashed
  ResultComplete
  ResultRanked
  OneLateLap
PROPERTIES
  RaceEnds
CHECK_DEADLOCK FALSE
