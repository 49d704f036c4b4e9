SPECIFICATION Spec
CONSTANTS
  Count = 5
  Eoc = Eoc
  Bad = Bad
  Span = 12
  PerSector = 2
  ReservedMin = 8
  MaxCluster = 2
  MaxReserved = 2
  MaxRoot = 4
  Blocks <- MCBlocks
  Partitions <- MCPartitions
  ClusterCount = 6
  LinksPerSector = 4
  Slots = 2
  Copies = 2
  Names = {"A", "B"}
  Old = "F"
  Parents = {"/", "A"}
  MaxOps = 4
  MaxFaults = 2
INVARIANTS ChainExact VolumeFits FatSound NamesKept
\* A chain ends, a volume is not mounted, the bounds on operations are reached.
CHECK_DEADLOCK FALSE
