\* Two sockets of one address, which may hold one, and one of another: two spellings of one
\* channel, an unknown one, a limit of one channel, upstream losses and shutdown.
CONSTANTS
    c1 = c1
    c2 = c2
    c3 = c3
    home = home
    office = office
    btcStream = btcStream
    Streams = {btcStream}
    Callbacks <- MCCallbacks
    MaxAttempt = 0
    MaxWire = 1
    Clients = {c1, c2, c3}
    Ips = {home, office}
    IpOf <- MCIpOf
    Channels = {"BTC", "btc", "XXX"}
    ActiveChannels = {"BTC", "btc"}
    StreamOf <- MCStreamOf
    MaxChannels = 1
    MaxPerMessage = 2
    MaxPerIp = 1
SPECIFICATION FairSpec
INVARIANTS
    GatewayInv
    FanoutExact
    ToldTheTruth
    IpCountExact
PROPERTIES
    SlotGivenBack
    ChannelServed
