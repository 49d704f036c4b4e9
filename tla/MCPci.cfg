CONSTANTS
  Tasks = {t1, t2}
  Probe = Probe
  None = None
  Blank = Blank
  Calls <- MCCalls
  Sectors <- MCSectors
  MaxSectors = 2
  MaxInits = 2
  Nil = Nil
  Size = 4
  IndexSpan = 8
  MaxEvents = 10
  MaxStarts = 2
SPECIFICATION Spec
SYMMETRY MCSymmetry
INVARIANT KeyboardExact
PROPERTY ImplementsAhciDevice
