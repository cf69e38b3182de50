SPECIFICATION SignInSpec
CONSTANTS
    t1 = t1
    t2 = t2
    b1 = b1
    r1 = r1
    r2 = r2
    p1 = p1
    p2 = p2
    Tabs = {t1, t2}
    Browsers = {b1}
    BrowserOf <- MCBrowserOf
    MaxAttempts = 2
    MaxTokens = 3
    MaxLogins = 1
    MaxFaults = 1
    Requests = {r1, r2}
    Passwords = {p1, p2}
    Unguessable = Unguessable
    MaxLoginAttempts = 2
    MaxDrawn = 3
SYMMETRY MCSymmetry
INVARIANTS
    TypeOK
    OneTokenPerSession
    RevokedSessionsStayEnded
    CookieFollowsRotation
    AccountsTypeOK
    KeysAgree
    SecondFactorEverywhere
    ChallengesUsedOnce
    GuessesBounded
CHECK_DEADLOCK FALSE
