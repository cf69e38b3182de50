CONSTANTS
    d1 = d1
    d2 = d2
    o1 = o1
    o2 = o2
    o3 = o3
    seed = seed
    nothing = nothing
    Devices = {d1, d2}
    Ops = {o1, o2}
    Seed = seed
    NoBlob = nothing
    Today = 1
    Gap = 1
    MaxAttempts = 2
    MaxReadings = 3
    MaxFaults = 1
SYMMETRY Symmetry
SPECIFICATION Spec
INVARIANTS
    TypeOK
    NeverWiped
    CyclesHaveExpenses
    OverlappingPairKept
CHECK_DEADLOCK FALSE
