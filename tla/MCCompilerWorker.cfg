CONSTANTS
  SourceChunks = 3
  PipeChunks = 2
  MaxResponse = 3
  ResponseSizes = {1, 3, 4, 6}
SPECIFICATION Spec
INVARIANTS
  TypeOK
  NothingLeftBehind
  AnswerIsGenuine
  CompletedRunIsAnswered
PROPERTY LaunchReturns
CHECK_DEADLOCK FALSE
