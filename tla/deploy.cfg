\* One issuance, two terms, the three elections, two deploys in flight.
CONSTANTS
    i1 = i1  i2 = i2  r1 = r1  r2 = r2  c1 = c1  c2 = c2
    Issuances = {i1, i2}
    Terms = {"t1", "t2"}
    Ticker <- Tickers
    Kinds = {"serviced", "network", "bearer"}
    Requests = {r1, r2}
    Coins = {c1, c2}
    Budgets <- Mixtures
CHECK_DEADLOCK FALSE
SPECIFICATION FairSpec
INVARIANTS MintedOnce 
 
