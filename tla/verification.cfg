\* Two submissions at a time, and a bitcoin deposit that may be reorganised away.
CONSTANTS
    r1 = r1  r2 = r2
    Requests = {r1, r2}
    Subs = {"s1"}
    Decisions = {"clear", "reject", "resubmission"}
    Stops = {"waiting", "gated", "recorded", "created", "picked", "freeze", "stamp", "post", "close", "read", "lifting", "lifted"}
    Budgets <- Mixtures
CHECK_DEADLOCK FALSE
SPECIFICATION FairSpec
INVARIANTS BilledWasPaid BusinessFinal  FrozenForCause
PROPERTIES NotStuck
