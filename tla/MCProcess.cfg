CONSTANTS
    ok = ok
    failed = failed
    NoCode = NoCode
    ExitCodes <- MCExitCodes
    MaxPid = 4
SPECIFICATION FairSpec
INVARIANTS NoLostWakeup TreeOK SleepOK
PROPERTIES ImplementsTree RunnableRuns ImplementsFairTree
