\* Two orders, two resets and three accounts.
CONSTANTS
    o1 = o1
    o2 = o2
    r1 = r1
    r2 = r2
    None = None
    Orders = {o1, o2}
    Resets = {r1, r2}
    MaxAccounts = 2
SPECIFICATION FairSpec
INVARIANTS
    IInv
    ShownIsTrue
PROPERTIES
    Converges
CHECK_DEADLOCK FALSE
