CONSTANTS
  Host = "windows"
  NCpus = 2
  GuestPages = {1}
  MaxIrqs = 2
  Efers = {0}
SPECIFICATION Spec
INVARIANTS
  DeviceHeld
  GuestStateCarried
  InterruptsInOrder
PROPERTIES
  DevicesFollowTree
  KickAnswered
CHECK_DEADLOCK FALSE
