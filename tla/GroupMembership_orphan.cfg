SPECIFICATION Spec
CONSTANTS
    alice = alice
    bob = bob
    carol = carol
    r1 = r1
    r2 = r2
    r3 = r3
    r4 = r4
    groupRow = groupRow
    Creator = alice
    GroupRow = groupRow
    Users = {alice, bob, carol}
    Requests = {r1, r2, r3, r4}
    PoolSize = 2
SYMMETRY Symmetry
PROPERTY
    KeepsAnAdmin
CHECK_DEADLOCK FALSE
