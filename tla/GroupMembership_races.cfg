SPECIFICATION FairSpec
CONSTANTS
    alice = alice
    bob = bob
    carol = carol
    r1 = r1
    r2 = r2
    r3 = r3
    r4 = r4
    groupRow = groupRow
    Creator = alice
    GroupRow = groupRow
    Users = {alice, bob, carol}
    Requests = {r1, r2, r3}
    PoolSize = 2
INVARIANTS
    TypeOK
PROPERTIES
    AuthorizedChange
    ImplementsMembership
    RequestsEnd
CHECK_DEADLOCK FALSE
