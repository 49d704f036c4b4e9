CONSTANTS
    ok = ok
    failed = failed
    NoCode = NoCode
    ExitCodes <- MCExitCodes
    MaxPid = 3
SPECIFICATION Spec
INVARIANTS OnlyIdleAtIdlePrio
