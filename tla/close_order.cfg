\* Two investors, one of whom pays twice, with no faults.
CONSTANTS
    s1 = s1  s2 = s2  s3 = s3  c1 = c1  c2 = c2  c3 = c3  ann = ann  bob = bob
    Subs = {s1, s2}
    Investors = {ann, bob}
    Coins = {c1, c2, c3}
    Investor <- Apart
    Owner <- TwoSubsThreeCoins
    Atoms <- Whole
    Order <- InOrder
    Pay <- Even
    Minimum = 3
    EscrowFee = 0
    FeeCap = 2
    Floors = {1}
    OutsideFrom = 3
    LastClock = 3
    MaxCrashes = 0
    MaxReorgs = 0
    MaxEvictions = 0
    MaxLost = 0
CHECK_DEADLOCK FALSE
SPECIFICATION Spec
INVARIANTS TypeOK DeliveredNotReturned
PROPERTIES KeepsPromise
