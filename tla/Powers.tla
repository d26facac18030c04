------------------------------- MODULE Powers --------------------------------
(***************************************************************************)
(* What an issuer may do to a live asset: change its rules, take tokens    *)
(* back, freeze holders of a bearer asset, and admit or remove holders of  *)
(* a network-enforced one.  The four share no row and no lock, so a        *)
(* behaviour exercises one of them.                                        *)
(***************************************************************************)
EXTENDS Naturals

CONSTANTS RuleSets, Empty, Callers, Olds, News, Reasons, Operators, Settled,
          Assets, Targets, Orders, Funds, Keys, Papers, Handlers,
          Budgets    \* bounds on what may happen under each power: a behaviour keeps to one of them

ASSUME PowersAssumption ==
    Budgets \subseteq [power : {"rules", "reclaim", "freeze", "lists"},
                       may : [{"change", "lost", "crash", "ask", "run", "try", "node", "wish", "overlap"} -> Nat]]

VARIABLES onchain, muts, amends, rproc, rtodo,
          external, bal, source, builds, claws, rds, sent, arrived, oproc,
          ops, locks, spent, chain, known, sreq,
          published, preps, pops, wish, shown, lreq,
          power, budget

R == INSTANCE Rules
C == INSTANCE Reclaim
S == INSTANCE Supervision
L == INSTANCE Lists

ASSUME PartsAssumption == R!RulesAssumption /\ C!ReclaimAssumption

rules   == <<onchain, muts, amends, rproc, rtodo>>
reclaim == <<external, bal, source, builds, claws, rds, sent, arrived, oproc>>
freezes == <<ops, locks, spent, chain, known, sreq>>
lists   == <<published, preps, pops, wish, shown, lreq>>
vars    == <<rules, reclaim, freezes, lists, power, budget>>

\* What a behaviour does not exercise starts in one way only.
Init ==
    /\ \E b \in Budgets : power = b.power /\ budget = b.may
    /\ R!Init /\ (power # "rules" => onchain = Empty)
    /\ C!Init /\ (power # "reclaim" => external /\ \A o \in Olds : bal[o] = 0)
    /\ L!Init /\ (power # "lists" => published.keys = {})
    /\ S!Init

Next ==
    \/ power = "rules"   /\ R!Next /\ UNCHANGED <<reclaim, freezes, lists, power>>
    \/ power = "reclaim" /\ C!Next /\ UNCHANGED <<rules, freezes, lists, power>>
    \/ power = "freeze"  /\ S!Next /\ UNCHANGED <<rules, reclaim, lists, power>>
    \/ power = "lists"   /\ L!Next /\ UNCHANGED <<rules, reclaim, freezes, power>>

\* The handlers of a change run to their end, and the cron that finishes it comes round.
Fairness ==
    /\ \A p \in R!Procs : WF_<<rules, budget>>(R!Step(p))
    /\ WF_<<rules, budget>>(R!List) /\ SF_<<rules, budget>>(R!Take)

Spec == Init /\ [][Next]_vars /\ Fairness

HeadFollows     == R!HeadFollows
RedeliveredOnce == C!RedeliveredOnce
Liftable        == S!Liftable
IncludedTrue    == L!IncludedTrue
=============================================================================
