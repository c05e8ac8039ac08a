SPECIFICATION Spec
CONSTANTS
  KINDS = {"text", "tree", "path", "project", "program"}
  INT_BITS = 6
  MAX_TEXT = 4
  WIDE = FALSE
INVARIANTS Tokenised ReadsBack RelativeResolves FiresOnce
PROPERTIES EachNameOnce ComputesValue
CHECK_DEADLOCK FALSE
