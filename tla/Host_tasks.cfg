SPECIFICATION FairSpec
CONSTANTS
  NUM_ARGS = 2
  MaxTasks = 3
  MaxWireTasks = 2
  NoAccess = NoAccess
  HALF = 64
  DEAD0000 = 63
  NoInvocation = NoInvocation
  NoTask = NoTask
INVARIANT
  HostGetsItsResult
PROPERTY
  HostLearnsUncrossed
