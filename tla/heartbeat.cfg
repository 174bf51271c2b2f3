\* A tick is 5 s: the timer fires every 30 s, the timeout is 65 s, a ping is answered
\* within 55 s.
CONSTANTS
    c1 = c1
    c2 = c2
    Clients = {c1, c2}
    Period = 6
    Timeout = 13
    MaxDelay = 11
SPECIFICATION Spec
INVARIANTS
    IInv
    LivingNeverTerminated
    DeadGoneInTime
