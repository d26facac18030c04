\* One investor pays in dollars and one in bitcoin; two restarts, one call whose answer is
\* lost and one question that goes unanswered.
CONSTANTS
    s1 = s1  s2 = s2  ann = ann  bob = bob
    Subs = {s1, s2}
    Investors = {ann, bob}
    Investor <- Apart
    Order <- InOrder
    Rail <- Mixed
    Deposit <- Eight
    Atoms <- One
    MonthBps = 5000
    MonthDays = 1
    CapBps = 7500
    MinimumFee <- Minimum
    LastDay = 1
    MaxCrashes = 2
    MaxLost = 1
    MaxUnread = 1
CHECK_DEADLOCK FALSE
SPECIFICATION Spec
INVARIANTS NoDoubleDelivery PaidOnce  BookedWasDone FeeFixed
