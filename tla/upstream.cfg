\* The upstream service with two streams and two callbacks.
CONSTANTS
    btc = btc
    eth = eth
    cb1 = cb1
    cb2 = cb2
    Streams = {btc, eth}
    Callbacks = {cb1, cb2}
    MaxAttempt = 5
    MaxWire = 4
SPECIFICATION FairStreamSpec
INVARIANTS
    StreamInv
    DemandMirrored
PROPERTIES
    KeepsTrying
    DemandServed
