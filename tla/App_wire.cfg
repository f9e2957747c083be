SPECIFICATION FairSpec
CONSTANTS
  BEAT_UNITS = 2
  MAX_UNITS = 3
  COUNT_MOD = 4
  NBEATS = 1
  MaxHostTasks = 1
  NoBeat = NoBeat
  Nobody = Nobody
  HostArgs = HostArgs
  NoInvocation = NoInvocation
  NoTask = NoTask
  Traffics <- WireTraffics
INVARIANTS
  PassthroughUnchangedForTwo
  EchoUnlessOvertaken
  DroppedOnlyByHost
  FramesNotInterleaved
PROPERTIES
  ClientsAreAnswered
