SPECIFICATION Spec
CONSTANTS
  WIDTH = 4
  IMMW = 4
  NUM_REGS = 4
  DEPTH = 10
  NUM_ARGS = 2
  MAX_LOOP_NEST = 2
  COUNTW = 2
  MAX_IN_FLIGHT = 4
  DEV_LSB = 2
  WORD_BYTES = 2
  MEM_DEPTH <- TwoWords
  NUM_PEERS = 2
  MAX_INFLIGHT <- SmallRings
  LATENCY <- MixedLatency
  BEAT_BYTES = 2
  MaxTasks = 2
  NoInvocation = NoInvocation
  Ports = Ports
  Programs <- TaskPrograms
  ArgSets <- OneArg
INVARIANT
  WaitedAnswerEndsRequest
PROPERTIES
  UncrowdedCountExact
  IssuedOnce
  ApartCopiesCounted
