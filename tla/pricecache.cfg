\* Ticks of half a second for the prices' time to live; short timeouts keep the
\* instance small.
CONSTANTS
    order = order
    balances = balances
    chart = chart
    btcPrice = btcPrice
    ethPrice = ethPrice
    candles = candles
    None = None
    Callers = {order, balances, chart}
    Keys = {btcPrice, ethPrice, candles}
    Ttl <- MCTtlOf
    Plan <- MCPlanOf
    Tolerant = {balances}
    Timeout = 1
    BodyTimeout = 1
SPECIFICATION FairSpec
INVARIANTS
    IInv
    PriceAgeBounded
PROPERTIES
    CallsEnd
