SPECIFICATION TaskSpec
CONSTANTS
  WIDTH = 2
  IMMW = 2
  NUM_REGS = 3
  DEPTH = 5
  NUM_ARGS = 1
  MAX_LOOP_NEST = 1
  COUNTW = 2
  MAX_IN_FLIGHT = 2
  MaxTasks = 2
  NoInvocation = NoInvocation
  Programs <- OpenPrograms
  ArgSets <- OpenArgs
  Ports <- OpenPorts
INVARIANT
  HandshakeExact
PROPERTY
  ResultStable
