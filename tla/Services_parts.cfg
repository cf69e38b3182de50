SPECIFICATION Spec
CONSTANTS
    m1 = m1
    m2 = m2
    m3 = m3
    m4 = m4
    c1 = c1
    c2 = c2
    w1 = w1
    w2 = w2
    i1 = i1
    i2 = i2
    q1 = q1
    q2 = q2
    f1 = f1
    f2 = f2
    a1 = a1
    a2 = a2
    p1 = p1
    p2 = p2
    p3 = p3
    s1 = s1
    s2 = s2
    e1 = e1
    e2 = e2
    g1 = g1
    g2 = g2
    u1 = u1
    u2 = u2
    o1 = o1
    o2 = o2
    o3 = o3
    o4 = o4
    k1 = k1
    Checks = {c1, c2}
    TTL = 2
    MaxClock = 4
    Calls = {c1, c2}
    Methods = {"read", "write"}
    Limit <- MCLimit
    MaxCounter = 4
    MaxErrors = 1
    Tabs = {i1, i2}
    MaxAttempts = 2
    MaxJoins = 2
    MaxRemovals = 2
    Latest = 2
    Asks = {q1, q2}
    MaxList = 3
    Count = 4
    Whole = 1000
    Totals = {2, 25}
    Ratios = {0, 250, 334, 500}
    Percents = {0, 1, 100, 300}
    Clients = {c1, c2}
    Flushes = {f1, f2}
    MaxBuffer = 2
    BatchLen = 2
    MaxEntries = 3
    Admins = {a1, a2}
    MaxSeats = 1
    MaxChanges = 3
    Appends = {p1, p2, p3}
    MaxTries = 3
    MaxEdits = 1
    Purchases = {e1, e2}
    Cost <- MCCost
    Base = 5
    Spans = {0, 1}
    LastDay = 3
    Saves = {s1, s2}
    MaxSaves = 3
    MaxCarry = 20
    MaxGuard = 60
    Buys = {1, 2}
    Categories = {"food", "fun"}
    Prices = {1, 3}
    Present = 8
    MonthLength = 4
    Period = 3
    AlertDays = 2
    Lookback = 2
    Housemates = {m1, m2, m3}
    Sums = {1, 2}
    ThisDay = 1
    Groups = {g1, g2}
    Users = {u1, u2}
    NoUser = NoUser
    NoGroup = NoGroup
    Fetches = {f1, f2}
    MaxNews = 1
    MaxFetches = 3
    Texts <- MCTexts
    NewIds = {1, 2, 3, 4, 5}
    MaxRows = 2
    MaxLoads = 2
    MaxBuys = 1
    LastFile = 4
    Closing = {2, 4}
    OnceOnly = {2}
    Instances = {w1, w2}
    MaxFalls = 2
    Owners = {o1, o2}
    Machines = {i1, i2}
    Kinds = {k1}
    Nobody_ = Nobody_
    MaxSettings = 2
    MaxPuts = 2
    Mutations = {o1, o2, o4}
    Elsewhere = {o3}
    NotLoaded = NotLoaded
    OldRows = {m1, m2}
    Readers = {a1, a2}
    MaxTurns = 3
    GroupIds = {g1, g2}
    NoGroupId = NoGroupId
    Jobs = {f1, f2}
    MaxSheets = 1
    LastDate = 2
INVARIANTS
    TypeOK
    LimitsHold
    SharesAddUp
    LogVerifies
    BudgetsKept
    ReportsAddUp
    PagesShow
    RecordsKept
    EvictedHearNothing
    WantedRoomIsJoined
CHECK_DEADLOCK FALSE
