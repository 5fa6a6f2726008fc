SPECIFICATION Spec
CONSTANTS
  PlayerNum = 3
  Mornings <- ButlerMornings
  Targets = {0, 1}
  Leavers = {1}
  ChatLimit = 0
  PollLimit = 0
  VoteLimit = 1
  MaxLeft = 0
CHECK_DEADLOCK FALSE
INVARIANTS
  TypeOK
  CountedOnce
PROPERTY
  ImplementsEffect
