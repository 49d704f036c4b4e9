CONSTANTS
    Tasks = {t1, t2, t3, t4}
    Readers = {t1, t2, t3}
    NoTask = NoTask
    Initial = 1
    MaxCount = 3
    Chars = {a, b}
    NoChar = NoChar
    Size = 3
SPECIFICATION Spec
INVARIANTS MutualExclusion NobodyStranded PermitsClaimed QueueOK
PROPERTIES FifoWakeup SleeperWoken PermitWakes InputWakes ImplementsQueue
