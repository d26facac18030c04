------------------------------ MODULE Platform -------------------------------
(***************************************************************************)
(* What the platform does beside an offering: the secondary market and     *)
(* receipts of an asset, its dividends and votes, the fees it collects,    *)
(* and the IDs people sign in to.  The four share no row and no lock, so a *)
(* behaviour exercises one of them.                                        *)
(***************************************************************************)
EXTENDS Naturals

CONSTANTS Transfers, Clicks, Mints, Redemptions, Payers, Rails, Prices,
          Wallets, Enclaves, Visits, Torn,
          Txs, Inputs, Outputs, Issuance, Atoms, KeyOf, Pool, Rate, ClaimIds,
          Budgets    \* bounds on what may happen in each part: a behaviour keeps to one of them

ASSUME PlatformAssumption ==
    /\ Mints \cap Redemptions = {} /\ Wallets \cap Enclaves = {}
    /\ {"none", "absent"} \cap (Wallets \cup Enclaves) = {}
    /\ Prices \subseteq Nat \ {0}
    /\ Pool \in Nat \ {0} /\ Issuance \in Txs /\ Inputs[Issuance] = {}
    /\ Budgets \subseteq [part : {"market", "fees", "accounts", "actions"},
          may : [{"click", "overlap", "wallet", "mint", "redeem", "unread", "lost", "crash",
                  "quote", "deposit", "visit", "challenge", "reissue", "move", "index", "dividend", "vote", "claim",
                  "refuse"} -> Nat]]

VARIABLES transfers, captured, builds, log, booked, clicks, cursor, poll, drops, minted, dr,
          invoice, addresses, told, held, checkouts, fees, asks, lockFee, watch, cron,
          accounts, wallets, proofs, visits, answer,
          made, tip, action, rows, snap, claims, claiming, payers, due, deposited, sent, paidFor, doubt,
          part, budget

M == INSTANCE Market
F == INSTANCE Fees
A == INSTANCE Accounts
C == INSTANCE Actions WITH asks <- claiming, booked <- paidFor

ASSUME HoldersAssumption == C!ActionsAssumption

market   == <<transfers, captured, builds, log, booked, clicks, cursor, poll, drops, minted, dr>>
billing  == <<invoice, addresses, told, held, checkouts, fees, asks, lockFee, watch, cron>>
identity == <<accounts, wallets, proofs, visits, answer>>
holding  == <<made, tip, action, rows, snap, claims, claiming, payers, due, deposited, sent, paidFor, doubt>>
vars     == <<market, billing, identity, holding, part, budget>>

Init ==
    /\ \E b \in Budgets : part = b.part /\ budget = b.may
    /\ M!Init /\ F!Init /\ A!Init /\ C!Init

Next ==
    \/ part = "market"   /\ M!Next /\ UNCHANGED <<billing, identity, holding, part>>
    \/ part = "fees"     /\ F!Next /\ UNCHANGED <<market, identity, holding, part>>
    \/ part = "accounts" /\ A!Next /\ UNCHANGED <<market, billing, holding, part>>
    \/ part = "actions"  /\ C!Next /\ UNCHANGED <<market, billing, identity, part>>

Spec == Init /\ [][Next]_vars /\ F!Fairness /\ C!Fairness

BookedOnce         == M!BookedOnce
BurnedOnce         == M!BurnedOnce
NoMoreThanItsShare == C!NoMoreThanItsShare
OneAnswer          == A!OneAnswer

\* Money that came in is acted on in the end.  A payer who sent what any quote asked for, to the
\* address it named, has the fee paid: whatever was quoted before, after or meanwhile, no address is
\* forgotten and no amount grows (feeQuoteFor: "every address this invoice hands out stays watched").
\* A claim of a dividend whose deposit came is paid: made before the deposit, with it, or tried before
\* in vain ("the resumable half of the fund-first pattern", payDueActionClaims).
Owing         == F!Stranded \/ C!Unpaid
NeverStranded == Owing ~> ~Owing
=============================================================================
