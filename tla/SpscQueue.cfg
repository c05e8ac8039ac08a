SPECIFICATION FairSpec
CONSTANTS
  SIZE = 2
  WIDTH = 4
  Value = {NULL, v1}
  NULL = NULL
INVARIANTS TypeOK RaceFree
PROPERTIES AnswersKept FifoRefined Progress
CHECK_DEADLOCK FALSE
