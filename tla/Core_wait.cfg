SPECIFICATION Spec
CONSTANTS
  WIDTH = 3
  IMMW = 3
  NUM_REGS = 4
  DEPTH = 8
  NUM_ARGS = 2
  MAX_LOOP_NEST = 2
  COUNTW = 2
  MAX_IN_FLIGHT = 4
  LOCAL_LATENCY = 0
  RTT = 2
  BEAT_BYTES = 2
  MAX_BEATS = 4
  DEV_LSB = 2
  GRAIN = 2
  LOCAL_MEM_DEPTH = 2
  PEER_MEM_DEPTH = 2
  Window <- EvenAddresses
  MaxTasks = 2
  NoInvocation = NoInvocation
  Programs <- WaitProgram
  Ports = Ports
  ArgSets <- SomeArgs
INVARIANTS
  NextAfterWait
