CONSTANTS
  NF = 8
  DBF = 3
  EPT = 2
  MaxPages = 2
  Reserved = {0, 1, 2, 7}
SPECIFICATION Spec
PROPERTIES
  ScanReturns
