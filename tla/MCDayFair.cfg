SPECIFICATION FairSpec
CONSTANTS
  PlayerNum = 2
  Mornings <- ShotMornings
  Targets = {0, 1}
  Leavers = {}
  ChatLimit = 1
  PollLimit = 1
  VoteLimit = 1
  MaxLeft = 1
CHECK_DEADLOCK FALSE
PROPERTIES
  ChatEndsInTime
  SkippedPollEnds
  ImplementsEffect
