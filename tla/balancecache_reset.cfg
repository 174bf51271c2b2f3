\* A reset while the first fetch of the balances is under way.
CONSTANTS
    o1 = o1
    o2 = o2
    r1 = r1
    r2 = r2
    None = None
    Orders = {o1, o2}
    Resets = {r1, r2}
    MaxAccounts = 2
SPECIFICATION Spec
INVARIANTS
    ResetRefetches
CHECK_DEADLOCK FALSE
