CONSTANTS
    m1 = m1
    m2 = m2
    None = None
    Mappings <- MCMappings
    HandleNums = {1, 2}
    MaxSessions = 3
    MaxOps = 3
SPECIFICATION Spec
INVARIANT HandleValidWhileSessionHolds
