\* MPs may finish in the same cycle.
SPECIFICATION FairSpec
CONSTANTS
  NUM_MPS = 3
  Tags = {t1, t2, t3, t4}
  NoTag = NoTag
INVARIANTS
  TypeOK
  DoneAnswersItsTask
  StartOnlyIdleMPs
  OneOwnerPerTask
PROPERTIES
  LostOnlyByCollision
  ImplementsService
  SerialLosesNothing
  ServiceReports
