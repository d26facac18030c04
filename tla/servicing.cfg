\* Two holders, or three subscriptions of two accounts; two payments, one of which may
\* prove void.
CONSTANTS
    x = x  y = y  z = z
    Payees = {x, y, z}
    Account <- Accounts
    Rank <- Ranks
    Key <- Keys
    Address <- Mandates
    Registers <- Readings
    Pool = 10
    Bps <- Rates
    MinLeaf = 1
    Deposited <- Paid
    Payouts = {"p1", "p2"}
    Refs = {"r1", "r2"}
    MaxTx = 2
    Overlap = FALSE
    Stops = {"snapshot", "one", "broadcast", "paid", "each", "send", "sent", "list", "follow", "out", "claims"}
    MaxCrashes = 1
    MaxLost = 1
    MaxBlurred = 0
    MaxUnchecked = 1
CHECK_DEADLOCK FALSE
SPECIFICATION Spec
INVARIANTS  WalletOnce PaidWasPaid RowsTrue BooksTrue PoolCovers
