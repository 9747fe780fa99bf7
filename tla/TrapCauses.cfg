CONSTANTS
  Exceptions = {14}
  ErrorCodes = {0, 2, 3, 4, 7}
  MaxEip = 2
SPECIFICATION Spec
INVARIANT OneCausePerFault
