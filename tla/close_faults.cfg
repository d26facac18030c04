\* Two subscriptions of one investor; a restart, a deposit reorganised away, an accepted
\* transaction evicted and a transfer whose answer is lost, one of each.
CONSTANTS
    s1 = s1  s2 = s2  s3 = s3  c1 = c1  c2 = c2  c3 = c3  ann = ann  bob = bob
    Subs = {s1, s2}
    Investors = {ann}
    Coins = {c1, c2}
    Investor <- Together
    Owner <- TwoSubsTwoCoins
    Atoms <- Whole
    Order <- InOrder
    Pay <- Even
    Minimum = 3
    EscrowFee = 0
    FeeCap = 2
    Floors = {1}
    OutsideFrom = 3
    LastClock = 3
    MaxCrashes = 1
    MaxReorgs = 1
    MaxEvictions = 1
    MaxLost = 1
CHECK_DEADLOCK FALSE
SPECIFICATION Spec
INVARIANTS  NoDoubleDelivery SentOnce BooksMatchChain
