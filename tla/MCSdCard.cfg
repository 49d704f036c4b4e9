CONSTANTS
  Absent = Absent
  Sd = Sd
  Ahci = Ahci
  Other = Other
  a1 = a1
  a2 = a2
  s1 = s1
  s2 = s2
  s3 = s3
  s4 = s4
  Present <- MCPresent
  Kind <- MCKind
  Ports <- MCPorts
  SdSlots = 2
  TableSize = 5
  RegistrySize = 4
  Tasks = {t1, t2}
  Probe = Probe
  None = None
  Blank = Blank
  Calls <- MCCalls
  Sectors <- MCSectors
  Csds <- MCCsds
  CsdUnit = 2
  CsdDefault = 5
  SectorBytes = 2
  AddrSpan = 8
  Retries = 2
  MaxInits = 2
SPECIFICATION Spec
SYMMETRY MCSymmetry
INVARIANT ResourcesExact
PROPERTY ImplementsSdDevice
