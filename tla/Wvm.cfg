SPECIFICATION Spec
CONSTANTS
  BITS = 3
  MEM = 64
  UNIVERSE = 60
  RP0 = 4
  SP0 = 16
  Image <- MCImage
  Entry = {16, 18}
  Args <- MCArgs
  Data <- MCData
  Code <- MCCode
INVARIANTS TypeOK StacksApart SameAsSafe
PROPERTIES TwoStacks
CHECK_DEADLOCK FALSE
