CONSTANTS
  Exceptions = {0, 8, 14, 17}
  ErrorCodes = {0, 3, 7}
  MaxEip = 3
  MAX_GDT_NUM = 10
  MAX_IDT_NUM = 22
  Bases <- MCBases
  Limits <- MCLimits
  Attributes <- MCAttributes
  Argcs <- MCArgcs
  LINE_BUF_WIDTH = 4
  MAX_SCREEN_HEIGHT = 3
  Width = 5
  Height = 4
  Chars = {1}
SPECIFICATION OsSpec
INVARIANT TrapsFindTheirWay
PROPERTIES
  TrapIsInvisible
  EveryTrapReturns
  LinesKept
