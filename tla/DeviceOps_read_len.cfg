CONSTANTS
    MaxReqs = 1
    MaxLen = 4
    StateCodes = {0, 5, 19, 20}
    Conformant = FALSE
    MaxOverrun = 0
    MaxWait = 0
SPECIFICATION Spec
INVARIANT ReadReturnsCopied
