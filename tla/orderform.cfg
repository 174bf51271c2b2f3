\* A balance of 5 at prices 2 and 3: nothing divides evenly.
CONSTANTS
    BTC = BTC
    ETH = ETH
    Quote = Quote
    Symbols = {BTC, ETH}
    Lot <- LotOf
    DefaultLot = 1
    MinQuantity <- MinOf
    Start = 5
    Prices <- PricesOf
    Quantities = {2}
    Totals = {4}
    Percents = {50, 100}
    MaxTrades = 2
SPECIFICATION Spec
INVARIANTS
    IInv
PROPERTIES
    PercentExact
    NoFundsExplained
