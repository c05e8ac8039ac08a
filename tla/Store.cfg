SPECIFICATION Spec
PROPERTIES HashRefined ListRefined ArrayRefined
CHECK_DEADLOCK FALSE
