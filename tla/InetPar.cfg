SPECIFICATION FairSpec
CONSTANTS
  AGENTS = 5
  NAGENTS = 14
  QSIZE = 16
  XMAX = 24
  PAIRMAX = 7
  DEPTHS <- ThreeVMs
INVARIANTS FreeListsOK AcceptedIsComplete BundleFits
PROPERTIES ReducesNets Terminates
CHECK_DEADLOCK FALSE
