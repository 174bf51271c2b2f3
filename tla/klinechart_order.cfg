\* Two intervals; two candles of history, three kept, two updates per candle.
CONSTANTS
    m1 = m1
    m5 = m5
    None = None
    Charts = {m1, m5}
    Steps = 2
    Limit = 2
    MaxCandles = 3
    MaxClock = 4
    MaxWire = 2
SPECIFICATION Spec
INVARIANT CandlesAscending
CHECK_DEADLOCK FALSE
