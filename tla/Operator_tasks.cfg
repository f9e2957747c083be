SPECIFICATION Spec
CONSTANTS
  WIDTH = 4
  IMMW = 4
  NUM_REGS = 4
  NUM_ARGS = 2
  MAX_INFLIGHT_PER_TASK = 2
  DATA_COPY_WORD_CAP = 2
  WORD_BYTES = 1
  INSTR_STORE_DEPTH = 16
  MAX_LOOP_NEST = 2
  MAX_LENGTH = 4
  maxSteps = 70
  Programs <- Operators
  Manifest <- TheManifest
  ArgSets <- OpArgs
INVARIANTS
  StepsBounded
  EndsUnaided
  NestingBounded
  EndsWithRet
  StraightAccessesDeclared
PROPERTY
  WaitDrains
