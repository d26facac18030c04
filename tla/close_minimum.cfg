\* Three subscriptions of one investor and a minimum two of them reach.
CONSTANTS
    s1 = s1  s2 = s2  s3 = s3  c1 = c1  c2 = c2  c3 = c3  ann = ann  bob = bob
    Subs = {s1, s2, s3}
    Investors = {ann}
    Coins = {c1, c2, c3}
    Investor <- TogetherOfThree
    Owner <- ThreeSubs
    Atoms <- Whole
    Order <- InOrder
    Pay <- Even
    Minimum = 6
    EscrowFee = 0
    FeeCap = 2
    Floors = {1}
    OutsideFrom = 3
    LastClock = 1
    MaxCrashes = 0
    MaxReorgs = 0
    MaxEvictions = 0
    MaxLost = 0
CHECK_DEADLOCK FALSE
SPECIFICATION Spec
PROPERTIES  DeliveredWasPaid
