SPECIFICATION Spec
CONSTANTS
  KINDS = {"program"}
  INT_BITS = 6
  MAX_TEXT = 0
  WIDE = TRUE
PROPERTY SkipsPrimitive
CHECK_DEADLOCK FALSE
