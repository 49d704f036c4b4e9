SPECIFICATION Spec
CONSTANTS
  master = master
  slave = slave
  Drives = {master, slave}
  Tasks = {t1, t2}
  Probe = Probe
  None = None
  Blank = Blank
  Calls <- MCCalls
  Sectors <- MCSectors
  MaxProbes = 3
SYMMETRY MCSymmetry
CHECK_DEADLOCK FALSE
PROPERTY ImplementsIdeDevices
