\* One subscription paid twice and a network fee that rises, under fairness.
CONSTANTS
    s1 = s1  s2 = s2  s3 = s3  c1 = c1  c2 = c2  c3 = c3  ann = ann  bob = bob
    Subs = {s1}
    Investors = {ann}
    Coins = {c1, c3}
    Investor <- Alone
    Owner <- OneSubTwoCoins
    Atoms <- Whole
    Order <- InOrder
    Pay <- Even
    Minimum = 3
    EscrowFee = 0
    FeeCap = 2
    Floors = {1, 2}
    OutsideFrom = 3
    LastClock = 3
    MaxCrashes = 0
    MaxReorgs = 0
    MaxEvictions = 0
    MaxLost = 0
CHECK_DEADLOCK FALSE
SPECIFICATION FairSpec
PROPERTIES BroadcastResolves RefundedAtDeadline 
