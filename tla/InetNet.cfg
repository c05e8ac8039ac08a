SPECIFICATION MCSpec
CONSTANTS
  Agent = {1, 2, 3, 4, 5, 6, 7, 8, 9, 10, 11, 12}
  VALUE = 4
INVARIANTS StaysWired
PROPERTIES Confluent
CHECK_DEADLOCK FALSE
