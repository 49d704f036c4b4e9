CONSTANTS
    Tasks = {t1, t2, t3}
    Slots = {dev, mnt}
    Fs = {f1, f2}
    NoFs = NoFs
    MaxFd = 1
SPECIFICATION FairSpec
INVARIANTS UsersExact NoDanglingRef OneOwner
PROPERTIES TransitionEnds
