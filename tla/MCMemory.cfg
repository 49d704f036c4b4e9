CONSTANTS
  Pages <- MCPages
  BootMaps <- MCBootMaps
  Sizes <- MCSizes
  Tasks = {a, b}
  NumPages = 2
  Frames = {f1, f2}
  NumSlots = 2
  \* One content and one set of rights: io_lock_ does not depend on them.
  Values = {u}
  Perms = {{"write"}}
  MaxOut = 2
  None = None
SPECIFICATION Spec
INVARIANT FreeListExact
PROPERTIES ImplementsPool LockReleased
