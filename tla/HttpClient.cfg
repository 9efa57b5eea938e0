SPECIFICATION Spec
CONSTANTS
  Endpoints <- MCEndpoints
  Answers <- MCAnswers
  sizeof_buf = 4
  ReadSize = 4
  MaxCalls = 2
  UINT16 = 64
  MaxPort = 21
INVARIANT GetsItsBody
CHECK_DEADLOCK FALSE
