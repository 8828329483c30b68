SPECIFICATION Spec
CONSTANTS
    Nil = Nil
    Error = Error
    Garbage = Garbage
    Torn = Torn
    Absent = Absent
    k0 = k0
    k1 = k1
    n1 = n1
    n2 = n2
    p0 = p0
    p1 = p1
    f0 = f0
    f1 = f1
    Nodes <- MCNodes
    Keys <- MCKeys
    Passes <- MCPasses
    FeederPasses <- MCFeederPasses
    FeederPass = f0
    MaxStarts = 2
    MaxOperations = 3
SYMMETRY MCSymmetry
INVARIANT KeyKept
INVARIANT FailsOnlyIfDisturbed
CHECK_DEADLOCK FALSE
