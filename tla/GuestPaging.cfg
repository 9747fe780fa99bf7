CONSTANTS
  EPT = 8
  BOOT_CODE_N = 4
  BOOT_STACK_V = 1
  KERNEL_STACK_P = 1
  KERNEL_STACK_V = 60
  KERNEL_STACK_N = 2
  FRAME_DB_P = 4
  FRAME_DB_V = 56
  FRAME_DB_N = 2
  VIDEO_BUF_P = 6
  VIDEO_BUF_V = 58
  VIDEO_BUF_N = 2
  PAGE_TABLE_P = 8
  PAGE_TABLE_V = 48
  PAGE_DIR_P = 14
  OS_CODE_P = 16
  OS_CODE_V = 32
  OS_CODE_N = 3
  KERNEL_MEM_N = 19
  RAM_N = 22
  SHELLCODE_BUF_P = 19
  SHELLCODE_BUF_V = 19
  SHELLCODE_BUF_N = 2
  USER_LIMIT = 32
  KERNEL_FS_V = 62
  TLB_PAGES = {1, 3, 19, 34, 50, 61}
SPECIFICATION Spec
INVARIANTS
  TypeOK
  UserIsolation
  StaleOnlyLow
  KernelFaultsOnlyOnBootStack
  MappingsKept
PROPERTIES
  ReachesUserIfBootStackCached
  ImplementsAddressSpace
