CONSTANTS
    d1 = d1
    d2 = d2
    o1 = o1
    o2 = o2
    o3 = o3
    seed = seed
    nothing = nothing
    Devices = {d1}
    Ops = {o1, o2, o3}
    Seed = seed
    NoBlob = nothing
    Today = 0
    Gap = 1
    MaxAttempts = 3
    MaxReadings = 1
    MaxFaults = 0
SPECIFICATION Spec
INVARIANT
    OverlappingSavesKept
CHECK_DEADLOCK FALSE
