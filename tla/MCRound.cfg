SPECIFICATION Spec
CONSTANTS
  PlayerNum = 5
  Casts <- AnyRound
  Args <- SomeArgs
  LastStatus = 5
CHECK_DEADLOCK FALSE
INVARIANTS
  TypeOK
  OneDeathPerNight
  DemonsDeathEndsGame
  HangsOnlyAlone
PROPERTY
  NightSparesProtected
