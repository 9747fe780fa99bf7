CONSTANTS
  Gdt <- MCGdt
  Ldt <- MCLdt
  Idts <- MCIdts
  Tss <- MCTss
  Layout <- MCLayout
  Boot <- MCBoot
  MaxNest = 2
  ModeBoot <- MCModeBoot
  ModeUse <- MCModeUse
  Vmcbs <- MCVmcbs
  Pages <- MCPages
  MmuBoot <- MCMmuBoot
  MmuUse <- MCMmuUse
  Dr7s <- MCDr7s
  GdbAsks <- MCGdbAsks
  DebugAddrs <- MCDebugAddrs
  NumBanks = 2
  MaxWrites = 2
  Irqs = {1, 2}
  W = 4
  Bytes <- MCBytes
  Operands <- MCOperands
  FlagWords <- MCFlagWords
  MaxInsns = 2
  Length = 3
  Elements = {1, 2}
  MaxFaults = 2
  ModeProfiles = {"start", "smm", "smm32", "user", "v86", "host64", "nested64", "host32", "kvm", "kvm64"}
  TaskProfiles = {"tasks", "gates", "conform", "segs", "faults", "nofaults", "vm86", "vm86low", "long", "enter64", "real"}
  Parts = {"tasks", "modes", "mmu", "debug", "msr", "loop", "int", "flags", "strings"}
SPECIFICATION CpuSpec
INVARIANTS
  SegmentsAtLevel
  TasksBusyWhileLinked
  QueriesPredictLoads
  ModeFlagsCoherent
  TlbAsTables
  BreakpointsArmed
  IrqsRemembered
  ArithmeticRight
  FlagsOnDemand
  ElementsOnce
PROPERTIES
  TransfersReturn
  FaultsEscalate
  ModesReturn
  MsrsKept
  GivenWhenOpen
CHECK_DEADLOCK FALSE
