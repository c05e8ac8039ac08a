SPECIFICATION Spec
CONSTANTS
  AGENTS = 1200
  NAGENTS = 272
  QSIZE = 512
  XMAX = 192
  PAIRMAX = 64
  DEPTHS <- OneVM
INVARIANTS EnoughAccepted LeakBounded
CHECK_DEADLOCK FALSE
