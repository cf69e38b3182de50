SPECIFICATION FairSpec
CONSTANTS
    alice = alice
    bob = bob
    a1 = a1
    b1 = b1
    e1 = e1
    e2 = e2
    Users = {alice, bob}
    Creator = alice
    Tabs = {a1, b1}
    Edits = {e1, e2}
    LogAppends = {e2}
    UserOf <- PairUserOf
    TabOf <- PairTabOf
    MaxKey = 2
INVARIANTS
    TypeOK
    BlobReadable
    NoLostUpdate
PROPERTIES
    OnlyMembersWrite
    NoSpuriousConflict
    ImplementsLedger
    CallsReturn
CHECK_DEADLOCK FALSE
