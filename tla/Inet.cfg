SPECIFICATION FairSpec
CONSTANTS
  AGENTS = 5
  NAGENTS = 54
  QSIZE = 2
  LENGTHS = {0, 1, 24, 25, 40}
INVARIANTS TypeOK FreeListOK NoLostPair NoStaleEntry SumAtHalt EnoughAgents
PROPERTIES Terminates ReducesNet
CHECK_DEADLOCK FALSE
