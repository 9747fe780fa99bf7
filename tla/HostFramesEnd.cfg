CONSTANTS
  NF = 5
  DBF = 2
  EPT = 2
  MaxPages = 2
  Reserved = {0, 1}
SPECIFICATION Spec
PROPERTIES
  DatabaseEnds
CHECK_DEADLOCK FALSE
