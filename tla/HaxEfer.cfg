CONSTANTS
  Host = "windows"
  NCpus = 1
  GuestPages = {1}
  MaxIrqs = 0
  Efers = {0, 1}
SPECIFICATION Spec
INVARIANTS
  EferCarried
CHECK_DEADLOCK FALSE
