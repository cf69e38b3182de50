CONSTANTS
    t1 = t1
    t2 = t2
    b1 = b1
    Tabs = {t1, t2}
    Browsers = {b1}
    BrowserOf <- MCBrowserOf
    MaxAttempts = 3
    MaxTokens = 2
    MaxLogins = 1
    MaxFaults = 0
SPECIFICATION Spec
PROPERTIES
    BenignRaceKeepsSession
CHECK_DEADLOCK FALSE
