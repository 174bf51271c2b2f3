\* Three concurrent requests of one browser, one pair, a quantity that rounds down.
CONSTANTS
    r1 = r1
    r2 = r2
    r3 = r3
    BTC = BTC
    first = r1
    Requests = {r1, r2, r3}
    Kinds = {"view", "reset", "market", "limit"}
    Pairs = {BTC}
    ActivePairs = {BTC}
    Quote = "USDT"
    Quantities = {3}
    LotStep = 2
    MinQuantity = 1
    Prices = {1, 2}
    Start = 6
    NoUser = NoUser
SPECIFICATION Spec
SYMMETRY RequestSymmetry
INVARIANTS
    Solvent
    IInv
    BalancesMatchTrades
    AllOrNothing
    SessionKept
PROPERTIES
    ImplementsLedger
CHECK_DEADLOCK FALSE
