SPECIFICATION Spec
CONSTANTS
  PlayerNum = 5
  Casts <- AnyRound
  Args <- SomeArgs
  LastStatus = 4
CHECK_DEADLOCK FALSE
INVARIANT
  ScarletReplacesDemon
