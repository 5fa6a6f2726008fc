SPECIFICATION Spec
CONSTANTS
  PlayerNum = 3
  Mornings <- VoteMornings
  Targets = {0, 1}
  Leavers = {}
  ChatLimit = 0
  PollLimit = 1
  VoteLimit = 1
  MaxLeft = 1
CHECK_DEADLOCK FALSE
INVARIANTS
  FullPollTime
PROPERTY
  ExecutionHasMajority
