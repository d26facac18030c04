\* The market with two transfers of one holder, two requests and a poller; a fee on two rails of a
\* chain and one without; two wallets and an enclave of people who found, link, attach, unlink;
\* a dividend or a vote of coins that split and join while they are counted.
CONSTANTS
    t1 = t1  t2 = t2  c1 = c1  c2 = c2  m1 = m1  b1 = b1  b2 = b2  p1 = p1  p2 = p2
    d1 = d1  d2 = d2  k1 = k1  v1 = v1  q1 = q1  q2 = q2
    Transfers = {t1, t2}
    Clicks = {c1, c2}
    Mints = {m1}
    Redemptions = {b1, b2}
    Payers = {p1, p2}
    Rails = {"usdx", "btc"}
    Prices = {1, 2}
    Wallets = {d1, d2}
    Enclaves = {k1}
    Visits = {v1}
    Torn = {"register", "unknown", "create", "first", "in", "login", "find", "wallet", "prove", "insert",
            "enclave", "claim", "free", "attach", "own", "mine", "attached", "row", "unlink"}
    Txs = {"mint", "again", "split", "join"}
    Inputs <- Graph
    Outputs <- Coins
    Issuance = "mint"
    Atoms <- Units
    KeyOf <- Holder
    Pool = 9
    Rate <- Percent
    ClaimIds = {q1, q2}
    Budgets <- Mixtures
CHECK_DEADLOCK FALSE
SPECIFICATION Spec
INVARIANTS  BurnedOnce 
PROPERTIES OneAnswer NeverStranded
