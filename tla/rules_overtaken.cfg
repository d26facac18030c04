\* The cron posts a superseded change again and its answer is lost.
CONSTANTS
    p1 = p1  p2 = p2
    RuleSets = {"none", "a", "b"}  Empty = "none"  Callers = {p1, p2}
    Olds = {"o1"}  News = {"n1", "n2"}  Reasons = {"lost key", "order"}  Operators = {p1, p2}  Settled = TRUE
    Assets = {"a1", "a2"}  Targets = {"t1"}  Orders = {"x", "y"}  Funds = {"f1", "f2", "f3"}
    Keys = {"k1", "k2"}  Papers = {"x"}  Handlers = {p1, p2}
    Budgets <- Overtaken
CHECK_DEADLOCK FALSE
SPECIFICATION Spec
PROPERTIES HeadFollows
