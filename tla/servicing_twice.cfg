\* No fault but one address check that is not answered: two holders, one of them paid on chain.
CONSTANTS
    x = x  y = y  z = z
    Payees = {x, y, z}
    Account <- Accounts
    Rank <- Ranks
    Key <- Keys
    Address <- Mandates
    Registers <- Readings
    Pool = 10
    Bps <- Rates
    MinLeaf = 1
    Deposited <- Paid
    Payouts = {"p1", "p2"}
    Refs = {"r1", "r2"}
    MaxTx = 2
    Overlap = FALSE
    Stops = {}
    MaxCrashes = 0
    MaxLost = 0
    MaxBlurred = 0
    MaxUnchecked = 1
CHECK_DEADLOCK FALSE
SPECIFICATION Spec
INVARIANTS PaidOnce
