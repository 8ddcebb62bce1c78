SPECIFICATION ReaderSpec
CONSTANTS
  Decls = 5
  InCap = 2
  OutCap = 2
  MayCrash = TRUE
  InitialSize = 10
  MaxPending = 32
  AnswerSize = 2
  ErrorSize = 3
  ModelSize = 12
INVARIANTS TypeOK VerdictIsAnswer InOrder TranscriptIsComplete
  AlwaysRoom BufferIsPending
PROPERTIES ImplementsClaimCheck Ends
CHECK_DEADLOCK FALSE
