SPECIFICATION MCSpec
CONSTANTS
  Threads = {1, 2}
  CACHE = 2
  MAXBATCH = 5
  BATCHES = {3, 5}
  ROUNDS = 2
  POOLS = {11}
  Callers = {1, 2}
  Values = {1, 2}
  Null = 0
  Indices = {0, 1}
  CALLS = 2
  COUNTERS = 2
  REPS = 3
  DELTAS <- UpAndDown
  WRAP = 16
  KINDS = {"stats"}
INVARIANT AssertedTotal
CHECK_DEADLOCK FALSE
