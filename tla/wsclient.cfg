\* Two charts to choose from and two tickers: the session's three channels are full.
CONSTANTS
    btc1m = btc1m
    eth1m = eth1m
    btc = btc
    eth = eth
    None = None
    Klines = {btc1m, eth1m}
    Tickers = {btc, eth}
    MaxChannels = 3
    MaxPerIp = 2
    MaxAttempts = 5
    MaxWire = 2
SPECIFICATION FairSpec
INVARIANTS
    ClientInv
    SubscriptionsInFlight
    FeedTruthInFlight
PROPERTIES
    Recovers
    ChannelsServed
