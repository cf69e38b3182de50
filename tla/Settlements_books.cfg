SPECIFICATION Spec
CONSTANTS
    alice = alice
    bob = bob
    carol = carol
    usd = usd
    eur = eur
    none = none
    e1 = e1
    e2 = e2
    NoCurrency = none
    Dollar = usd
    Members = {alice, bob}
    Currencies = {usd, eur}
    Expenses = {e1}
    Amounts = {10, 25}
    StoredCurrencies = {none, eur}
    LegacyAmounts = {10}
    Tolerance = 2
    MaxSettlements = 3
    MaxEdits = 1
INVARIANTS
    TypeOK
    OneOpenProposal
    SupersededOnce
    BalancesAddUp
PROPERTIES
    LifeCycle
CHECK_DEADLOCK FALSE
