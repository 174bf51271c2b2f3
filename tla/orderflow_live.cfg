\* Two concurrent requests on an account that owns both assets of a pair: a second pair, an
\* inactive one, a quantity that rounds down and one that rounds below the minimum.
CONSTANTS
    r1 = r1
    r2 = r2
    r3 = r3
    BTC = BTC
    ETH = ETH
    OLD = OLD
    first = r1
    Requests = {r1, r2, r3}
    Kinds = {"view", "reset", "market", "limit"}
    Pairs = {BTC, ETH, OLD}
    ActivePairs = {BTC, ETH}
    Quote = "USDT"
    Quantities = {3, 5}
    LotStep = 2
    MinQuantity = 3
    Prices = {1, 2}
    Start = 12
    NoUser = NoUser
SPECIFICATION WarmSpec
INVARIANTS
    ExecutedWithinBounds
PROPERTIES
    EveryRequestAnswered
CHECK_DEADLOCK FALSE
