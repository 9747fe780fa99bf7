CONSTANTS
  NF = 7
  DBF = 2
  EPT = 3
  MaxPages = 2
  Reserved = {0, 1, 6}
  Versions = {0, 1, 2, 3}
  Written = {"fs.base", "rip"}
  Kept = {"sysenter_cs", "cs.operand_size"}
  Msrs = {"fs.base", "sysenter_cs"}
  HAX_MAX_VCPU = 3
  MAX_VM_ID = 4
  MAX_VCPU_ID = 4
  VmIds = {4, 5}
  Modules <- MCModules
  Sizes = {1, 2, 3}
  NoLimit = NoLimit
  Buffers <- MCBuffers
  GuestPages = 7
SPECIFICATION HostSpec
INVARIANTS
  FramesAccounted
  RunsAndCleansUp
  TablesMatchDriver
PROPERTIES
  OnlyCurrentPageRemapped
  OnePageCallsReturn
  ImplementsFramePool
  UnknownExitEnds
  ImplementHandleTree
  DriverTermsKept
CHECK_DEADLOCK FALSE
