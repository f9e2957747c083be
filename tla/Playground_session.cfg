SPECIFICATION FairSpec
CONSTANTS
  WIDTH = 8
  IMMW = 7
  NUM_REGS = 16
  NUM_ARGS = 8
  MAX_INFLIGHT_PER_TASK = 32
  DATA_COPY_WORD_CAP = 4
  WORD_BYTES = 8
  INSTR_STORE_DEPTH = 64
  MAX_LOOP_NEST = 8
  MAX_LENGTH = 63
  maxSteps = 90
  SCRATCH_MIN = 9
  SCRATCH_MAX = 15
  MAX_ARGS = 8
  NUM_RESULTS = 4
  ELEM_SHIFT = 3
  RegionOf <- Regions
  ArgSets <- PgArgs
  Sources <- PgSources
  HandWritten <- PgHand
  Agendas <- PgAgendas
INVARIANTS
  ParsesBack
  ScratchReturned
  CompiledStructured
  MeansWhatItSays
  PresetsAnswer
  ShownBelongsToLoaded
PROPERTY
  RunStops
CHECK_DEADLOCK FALSE
