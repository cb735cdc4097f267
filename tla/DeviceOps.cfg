CONSTANTS
    MaxReqs = 4
    MaxLen = 3
    StateCodes = {0, 5, 19, 20}
    Conformant = TRUE
    MaxOverrun = 1
    MaxWait = 2
SPECIFICATION Spec
INVARIANT TypeOK
INVARIANT ReadReturnsCopied
INVARIANT SumUpPerRequest
INVARIANT InfoNameIsDevices
INVARIANT OverlongResultPanics
INVARIANT WaitRunningHonest
