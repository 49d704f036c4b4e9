CONSTANTS
  Boot = t0
  Tasks = {t0, t1, t2}
  ElfSize = 4
  e_phnum = 2
  PG_SIZE = 2
  USER_STACK_SIZE = 2
  USER_STACK_TOP = 8
  USER_SPACE_TOP = 10
  Segments <- MCSegments
  Entries = {1, 3, 5, 8}
  BufferSize = 3
  ClusterSize = 2
  Clusters = {1, 2, 3, 4}
  Chains <- MCChains
  FileSize = 5
  MaxFd = 2
  MaxCount = 6
  MaxCalls = 3
  Loaders = {"uefi", "uefi_x86", "bios"}
  NumPages = 7
  BiosMaps <- MCBiosMaps
  Capacity = 4
  MaxEvents = 3
  RECORD_COUNT = 2
  Messages = {"a"}
  Levels = {0, 1}
  MaxRecords = 6
  MaxDumps = 2
  cols = 3
  rows = 2
  TAB = 2
  Glyphs = {"a", "b"}
  EARLY_LOG_SIZE = 2
  CURSOR_BLINK_RATE = 2
  MaxText = 6
SPECIFICATION Spec
INVARIANTS BootExact DumpExact ScreenExact TrapTransparent ExecExact IoExact
