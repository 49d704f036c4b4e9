CONSTANTS
    Tasks = {a, b}
    NumPages = 2
    Frames = {f1, f2}
    NumSlots = 2
    Values = {u, v}
    Perms = {{}, {"write"}}
    MaxOut = 2
    None = None
    Boards = {"x86", "aarch64", "qemu_virt"}
    TableFrames = {1, 2, 3, 4, 5, 6, 7, 8, 9, 10, 11, 12, 13, 14}
    MaxMaps = 3
SPECIFICATION Spec
SYMMETRY Symmetry
INVARIANTS PageIntact SwapExact PageTablesSound
