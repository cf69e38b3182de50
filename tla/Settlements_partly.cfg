SPECIFICATION Spec
CONSTANTS
    alice = alice
    bob = bob
    carol = carol
    usd = usd
    eur = eur
    none = none
    e1 = e1
    e2 = e2
    NoCurrency = none
    Dollar = usd
    Members = {alice, bob}
    Currencies = {usd}
    Expenses = {e1}
    Amounts = {10, 25}
    StoredCurrencies = {none}
    LegacyAmounts = {}
    Tolerance = 2
    MaxSettlements = 2
    MaxEdits = 0
INVARIANTS
    PaidPartCounts
CHECK_DEADLOCK FALSE
