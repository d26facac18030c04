---------------------------- MODULE SettleClose ----------------------------
(***************************************************************************)
(* The close of subscriptions the platform itself holds the money of: the  *)
(* native bitcoin rail, and USDX paid into the escrow wallet before the    *)
(* covenant held it.  A settlement row is the only memory of what was done:*)
(* every close takes each subscription from where its row says it stopped. *)
(*                                                                          *)
(* One close runs at a time (LockIssuance); `pc` is the step it has        *)
(* reached in settleOne, settleOneAtomic or refundSubscription for the     *)
(* first subscription of `todo`.  The policy server and the wallets are    *)
(* called between two writes, and a call may be refused, may be carried    *)
(* out with its answer lost, and a question may go unanswered.             *)
(***************************************************************************)
EXTENDS Integers, FiniteSetsExt

CONSTANTS
    Subs,        \* subscriptions of the offering on these rails
    Investors,   \* investors who subscribe
    Investor,    \* the investor a subscription belongs to
    Order,       \* the order of created_at, in which a close takes subscriptions
    Rail,        \* "usdx" or "btc"
    Deposit,     \* deposited_atoms once the deposit is credited
    Atoms,       \* token_atoms to deliver
    MonthBps,    \* escrowRatePerMonthBps
    MonthDays,   \* escrowDaysPerMonth
    CapBps,      \* escrowCapBps
    MinimumFee,  \* the dollar minimum of a rail's fee, 0 on the bitcoin rail
    LastDay,     \* bound on the days a run covers
    MaxCrashes,  \* bound on restarts of the process
    MaxLost,     \* bound on calls carried out whose answer is lost
    MaxUnread    \* bound on questions about a past call that go unanswered

ASSUME SettleAssumption ==
    /\ IsFiniteSet(Subs)
    /\ Investor \in [Subs -> Investors]
    /\ Order \in [Subs -> Nat] /\ \A x, y \in Subs : Order[x] = Order[y] => x = y
    /\ Rail \in [Subs -> {"usdx", "btc"}]
    /\ Deposit \in [Subs -> Nat \ {0}] /\ Atoms \in [Subs -> Nat \ {0}]
    /\ MonthBps \in Nat /\ MonthDays \in Nat \ {0} /\ CapBps \in Nat
    /\ MinimumFee \in [{"usdx", "btc"} -> Nat]
    /\ LastDay \in Nat /\ MaxCrashes \in Nat /\ MaxLost \in Nat /\ MaxUnread \in Nat

VARIABLES
    day,      \* days since the first deposit
    tokens,   \* how many times a subscription's tokens were really transferred
    balance,  \* what an investor holds at the policy server
    sends,    \* what the wallets paid out of escrow, each with the marker it carries
    sub,      \* Subscription.state
    since,    \* Subscription.escrow_from
    row,      \* Settlement.state ("none": no row)
    dtx,      \* Settlement.delivery_txid is set
    rtx,      \* Settlement.release_txid is set
    booked,   \* the escrow_fee row of the ledger (0: none)
    ledger,   \* the other rows of the ledger
    pc,       \* where the close is
    todo,     \* subscriptions it has still to settle
    was,      \* the state settleOne read when it began with the current one
    amount,   \* what it is about to pay out
    halfway,  \* history: subscriptions whose refund a stop interrupted
    budget    \* faults the environment may still inject

world == <<tokens, balance, sends>>
rows  == <<sub, since, row, dtx, rtx, booked, ledger>>
job   == <<pc, todo, was, amount>>
vars  == <<day, world, rows, job, halfway, budget>>

Rows  == {"none", "pending", "settling", "delivering", "delivered", "releasing", "released",
          "settled", "refunding", "refunded", "failed"}
Steps == {"idle", "settle", "atomic", "complete", "torn", "landed", "deliver", "transfer",
          "undelivered", "record", "pay", "send", "sent", "book", "finish", "refund", "repay",
          "repaid", "returned", "mark"}
Decided == {"settled", "refunded", "failed"}

-----------------------------------------------------------------------------
(* The escrow fee, charged for time and fixed when it is first charged.     *)

\* publishedEscrowFees: the rate by days held, capped and then raised to the
\* minimum over all the money of the rail, apportioned by what each accrued.
Group(r)   == {s \in Subs : Rail[s] = r /\ sub[s] # "created"}
Accrued(s) == (Deposit[s] * MonthBps * (day - since[s])) \div (10000 * MonthDays)
Funds(r)   == MapThenSumSet(LAMBDA s : Deposit[s], Group(r))
AllAccrued(r) == MapThenSumSet(Accrued, Group(r))
Total(r)   == Max({MinimumFee[r], Min({AllAccrued(r), (Funds(r) * CapBps) \div 10000})})
Published(s) ==
    LET r    == Rail[s]
        owed == IF AllAccrued(r) > 0 THEN (Total(r) * Accrued(s)) \div AllAccrued(r)
                                     ELSE (Total(r) * Deposit[s]) \div Funds(r)
    IN  Min({owed, Deposit[s]})

\* Mutated: a retry prices the fee again.
FeeAgain(s) == Published(s)

\* escrowFeeFor and recordEscrowFee: the booked figure, or the published one, which
\* is booked now unless it is nothing.
Fee(s)    == IF booked[s] # 0 THEN booked[s] ELSE Published(s)
Net(s)    == Deposit[s] - Fee(s)
FixFee(s) == booked' = [booked EXCEPT ![s] = Fee(s)]

-----------------------------------------------------------------------------
(* What a close can find out about the calls of an earlier one.             *)

\* deliveryAlreadyDone: the balance of the investor, whatever it came from.
Holds(s) == balance[Investor[s]] >= Atoms[s]

\* escrowFindSend: a payment that carries the marker of s.
Sent(s, kind) == \E p \in sends : p.sub = s /\ p.kind = kind

Inject(fault) == budget[fault] > 0 /\ budget' = [budget EXCEPT ![fault] = @ - 1]

\* A question that cannot be asked, or is asked of a chain that lags, is answered no.
Answer(truth, answer) ==
    \/ answer = truth /\ UNCHANGED budget
    \/ truth /\ ~answer /\ Inject("unread")

PaidOut(s, kinds) == {p \in sends : p.sub = s /\ p.kind \in kinds}
PayOut(s, kind) ==
    sends' = sends \cup {[sub |-> s, kind |-> kind, amount |-> amount,
                          nth |-> Cardinality(PaidOut(s, {kind})) + 1]}

Transferred(s) ==
    /\ tokens' = [tokens EXCEPT ![s] = @ + 1]
    /\ balance' = [balance EXCEPT ![Investor[s]] = @ + Atoms[s]]

-----------------------------------------------------------------------------
Init ==
    /\ day = 0
    /\ tokens = [s \in Subs |-> 0] /\ balance = [i \in Investors |-> 0] /\ sends = {}
    /\ sub = [s \in Subs |-> "created"] /\ since = [s \in Subs |-> 0]
    /\ row = [s \in Subs |-> "none"] /\ dtx = [s \in Subs |-> FALSE] /\ rtx = [s \in Subs |-> FALSE]
    /\ booked = [s \in Subs |-> 0] /\ ledger = {}
    /\ pc = "idle" /\ todo = {} /\ was = "none" /\ amount = 0
    /\ halfway = {}
    /\ budget = [crash |-> MaxCrashes, lost |-> MaxLost, unread |-> MaxUnread]

\* creditSubscription: the deposit is confirmed and the clock of the fee starts.
Credit(s) ==
    /\ sub[s] = "created"
    /\ sub' = [sub EXCEPT ![s] = "in_escrow"] /\ since' = [since EXCEPT ![s] = day]
    /\ UNCHANGED <<day, world, row, dtx, rtx, booked, ledger, job, halfway, budget>>

NextDay == day < LastDay /\ day' = day + 1 /\ UNCHANGED <<world, rows, job, halfway, budget>>

\* The process stops and starts again: only the database survives.
Crash ==
    /\ Inject("crash")
    /\ pc' = "idle" /\ todo' = {} /\ was' = "none" /\ amount' = 0
    /\ halfway' = halfway \cup {s \in Subs : row[s] = "refunding"}
    /\ UNCHANGED <<day, world, rows>>

-----------------------------------------------------------------------------
(* handleClose, and settleOne as far as the choice of a path.               *)

Close ==
    /\ pc = "idle" /\ pc' = "settle"
    /\ todo' = {s \in Subs : sub[s] = "in_escrow"} /\ todo' # {}
    /\ UNCHANGED <<day, world, rows, was, amount, halfway, budget>>

CloseEnd ==
    /\ pc = "settle" /\ todo = {}
    /\ pc' = "idle" /\ was' = "none" /\ amount' = 0
    /\ UNCHANGED <<day, world, rows, todo, halfway, budget>>

\* The subscription the close is at, and the step it has reached with it.
First(s)    == s \in todo /\ \A x \in todo : Order[s] <= Order[x]
At(s, step) == pc = step /\ First(s)
Leave(s)    == pc' = "settle" /\ todo' = todo \ {s}
Go(step)    == pc' = step /\ UNCHANGED todo
Row(s, state) == row' = [row EXCEPT ![s] = state]

SettleDecided(s) ==
    /\ At(s, "settle") /\ row[s] \in Decided
    /\ Leave(s)
    /\ UNCHANGED <<day, world, rows, was, amount, halfway, budget>>

\* The row says where to resume; a fresh USDX settlement is atomic while the
\* platform runs with atomicClose, which a restart may change.
SettleResume(s) ==
    LET state     == IF row[s] = "none" THEN "pending" ELSE row[s]
        untouched == ~dtx[s] /\ ~rtx[s]
    IN  /\ At(s, "settle") /\ row[s] \notin Decided
        /\ Row(s, state) /\ was' = state
        /\ \/ /\ untouched
              /\ state = "settling" \/ (state = "pending" /\ Rail[s] = "usdx")
              /\ Go("atomic")
           \/ ~dtx[s] /\ ~(untouched /\ state = "settling") /\ Go("deliver")
           \/ dtx[s] /\ ~rtx[s] /\ Go("pay")
           \/ dtx[s] /\ rtx[s] /\ Go("finish")
        /\ UNCHANGED <<day, world, sub, since, dtx, rtx, booked, ledger, amount, halfway, budget>>

-----------------------------------------------------------------------------
(* settleOneAtomic: the tokens and the money in one transaction.            *)

\* recordAtomicSettled on a transaction found to have landed.
AtomicSettled(s) ==
    /\ dtx' = [dtx EXCEPT ![s] = TRUE] /\ rtx' = [rtx EXCEPT ![s] = TRUE] /\ Row(s, "settled")

\* Nothing may be built without a payout mandate; a policy server without the
\* payment leg sends a fresh settlement the other way and leaves one in flight.
AtomicOpen(s) ==
    /\ At(s, "atomic")
    /\ FixFee(s) /\ amount' = Net(s)
    /\ \E landed \in BOOLEAN :
          /\ Answer(was = "settling" /\ Holds(s), landed)
          /\ IF landed
             THEN AtomicSettled(s) /\ Go("mark")
             ELSE /\ \/ Row(s, "failed") /\ Leave(s)
                     \/ was = "settling" /\ Leave(s) /\ UNCHANGED row
                     \/ was # "settling" /\ Go("deliver") /\ UNCHANGED row
                     \/ Go("torn") /\ UNCHANGED row
                     \/ Row(s, "settling") /\ Go("complete")
                  /\ UNCHANGED <<dtx, rtx>>
    /\ UNCHANGED <<day, world, sub, since, ledger, was, halfway>>

\* completeAtomicTransfer.
AtomicComplete(s) ==
    /\ At(s, "complete")
    /\ \/ Transferred(s) /\ PayOut(s, "atomic") /\ Go("landed") /\ UNCHANGED budget
       \/ Transferred(s) /\ PayOut(s, "atomic") /\ Go("torn") /\ Inject("lost")
       \/ UNCHANGED <<world, budget>> /\ Go("torn")
    /\ UNCHANGED <<day, rows, was, amount, halfway>>

AtomicRecord(s) ==
    /\ At(s, "landed")
    /\ AtomicSettled(s) /\ Go("book")
    /\ UNCHANGED <<day, world, sub, since, booked, ledger, was, amount, halfway, budget>>

\* The build or its completion failed: settled after all, or the money goes back.
AtomicTorn(s) ==
    /\ At(s, "torn")
    /\ \E landed \in BOOLEAN :
          /\ Answer(Holds(s), landed)
          /\ IF landed THEN AtomicSettled(s) /\ Go("mark")
                       ELSE Go("refund") /\ UNCHANGED <<dtx, rtx, row>>
    /\ UNCHANGED <<day, world, sub, since, booked, ledger, was, amount, halfway>>

-----------------------------------------------------------------------------
(* settleOne: the delivery, then the release.                               *)

Delivered(s) == dtx' = [dtx EXCEPT ![s] = TRUE] /\ Row(s, "delivered")

\* Mutated: an interrupted delivery is begun again without looking.
DeliverBlindly(s) ==
    /\ At(s, "deliver")
    /\ Row(s, "delivering") /\ Go("transfer")
    /\ UNCHANGED <<day, world, sub, since, dtx, rtx, booked, ledger, was, amount, halfway, budget>>

Deliver(s) ==
    /\ At(s, "deliver")
    /\ \E landed \in BOOLEAN :
          /\ Answer(was = "delivering" /\ Holds(s), landed)
          /\ IF landed THEN Delivered(s) /\ Go("pay")
                       ELSE Row(s, "delivering") /\ Go("transfer") /\ UNCHANGED dtx
    /\ UNCHANGED <<day, world, sub, since, rtx, booked, ledger, was, amount, halfway>>

\* deliverFromEscrow.
Transfer(s) ==
    /\ At(s, "transfer")
    /\ \/ Transferred(s) /\ Go("record") /\ UNCHANGED budget
       \/ Transferred(s) /\ Go("undelivered") /\ Inject("lost")
       \/ UNCHANGED <<tokens, balance, budget>> /\ Go("undelivered")
    /\ UNCHANGED <<day, sends, rows, was, amount, halfway>>

DeliverRecord(s) ==
    /\ At(s, "record")
    /\ Delivered(s) /\ Go("book")
    /\ UNCHANGED <<day, world, sub, since, rtx, booked, ledger, was, amount, halfway, budget>>

\* Mutated: the money goes out whether or not the tokens arrived.
PayUndelivered(s) ==
    /\ At(s, "undelivered")
    /\ \E landed \in BOOLEAN :
          /\ Answer(Holds(s), landed)
          /\ IF landed THEN Delivered(s) ELSE UNCHANGED <<dtx, row>>
    /\ Go("pay")
    /\ UNCHANGED <<day, world, sub, since, rtx, booked, ledger, was, amount, halfway>>

\* The call failed: delivered after all, or the money goes back.
Undelivered(s) ==
    /\ At(s, "undelivered")
    /\ \E landed \in BOOLEAN :
          /\ Answer(Holds(s), landed)
          /\ IF landed THEN Delivered(s) /\ Go("pay")
                       ELSE Go("refund") /\ UNCHANGED <<dtx, row>>
    /\ UNCHANGED <<day, world, sub, since, rtx, booked, ledger, was, amount, halfway>>

\* The ledger rows that follow a recorded delivery, release or atomic settlement.
Book(s) ==
    /\ At(s, "book")
    /\ ledger' = ledger \cup [sub : {s}, kind : (IF row[s] # "released" THEN {"delivery"} ELSE {})
                                           \cup (IF row[s] # "delivered" THEN {"release"} ELSE {})]
    /\ Go(IF row[s] = "delivered" THEN "pay" ELSE IF row[s] = "released" THEN "finish" ELSE "mark")
    /\ UNCHANGED <<day, world, sub, since, row, dtx, rtx, booked, was, amount, halfway, budget>>

\* Mutated: a release a stop interrupted is not looked for.
PayBlindly(s) ==
    /\ At(s, "pay")
    /\ FixFee(s) /\ amount' = Net(s)
    /\ Row(s, "releasing") /\ Go("send")
    /\ UNCHANGED <<day, world, sub, since, dtx, rtx, ledger, was, halfway, budget>>

\* The intent is written before the payment; an interrupted one is looked for.
Pay(s) ==
    /\ At(s, "pay")
    /\ FixFee(s) /\ amount' = Net(s)
    /\ \E found \in BOOLEAN :
          /\ Answer(was = "releasing" /\ Sent(s, "release"), found)
          /\ IF found THEN rtx' = [rtx EXCEPT ![s] = TRUE] /\ Row(s, "released") /\ Go("finish")
                      ELSE Row(s, "releasing") /\ Go("send") /\ UNCHANGED rtx
    /\ UNCHANGED <<day, world, sub, since, dtx, ledger, was, halfway>>

\* releasePayment: the wallet refuses to send nothing.
PaySend(s) ==
    /\ At(s, "send")
    /\ \/ amount > 0 /\ PayOut(s, "release") /\ Go("sent") /\ UNCHANGED <<row, budget>>
       \/ amount > 0 /\ PayOut(s, "release") /\ Row(s, "failed") /\ Leave(s) /\ Inject("lost")
       \/ UNCHANGED <<sends, budget>> /\ Row(s, "failed") /\ Leave(s)
    /\ UNCHANGED <<day, tokens, balance, sub, since, dtx, rtx, booked, ledger, was, amount, halfway>>

PayRecord(s) ==
    /\ At(s, "sent")
    /\ rtx' = [rtx EXCEPT ![s] = TRUE] /\ Row(s, "released") /\ Go("book")
    /\ UNCHANGED <<day, world, sub, since, dtx, booked, ledger, was, amount, halfway, budget>>

Finish(s) ==
    /\ At(s, "finish")
    /\ Row(s, "settled") /\ Go("mark")
    /\ UNCHANGED <<day, world, sub, since, dtx, rtx, booked, ledger, was, amount, halfway, budget>>

\* The subscription follows its settlement, in a write of its own.
Mark(s) ==
    /\ At(s, "mark")
    /\ sub' = [sub EXCEPT ![s] = row[s]]
    /\ Leave(s)
    /\ UNCHANGED <<day, world, since, row, dtx, rtx, booked, ledger, was, amount, halfway, budget>>

-----------------------------------------------------------------------------
(* refundSubscription.                                                      *)

Refund(s) ==
    /\ At(s, "refund")
    /\ FixFee(s) /\ amount' = Net(s)
    /\ \E found \in BOOLEAN :
          /\ Answer(was = "refunding" /\ Sent(s, "refund"), found)
          /\ IF found THEN ledger' = ledger \cup {[sub |-> s, kind |-> "refund"]}
                           /\ Go("returned") /\ UNCHANGED row
                      ELSE Row(s, "refunding") /\ UNCHANGED ledger
                           /\ Go(IF Net(s) > 0 THEN "repay" ELSE "returned")
    /\ UNCHANGED <<day, world, sub, since, dtx, rtx, was, halfway>>

\* Mutated: a send that failed is booked all the same.
RepayRegardless(s) ==
    /\ At(s, "repay")
    /\ \/ PayOut(s, "refund") /\ Go("repaid") /\ UNCHANGED budget
       \/ UNCHANGED <<sends, budget>> /\ Go("repaid")
    /\ UNCHANGED <<day, tokens, balance, rows, was, amount, halfway>>

RefundSend(s) ==
    /\ At(s, "repay")
    /\ \/ PayOut(s, "refund") /\ Go("repaid") /\ UNCHANGED <<row, budget>>
       \/ PayOut(s, "refund") /\ Row(s, "failed") /\ Leave(s) /\ Inject("lost")
       \/ UNCHANGED <<sends, budget>> /\ Row(s, "failed") /\ Leave(s)
    /\ UNCHANGED <<day, tokens, balance, sub, since, dtx, rtx, booked, ledger, was, amount, halfway>>

RefundBook(s) ==
    /\ At(s, "repaid")
    /\ ledger' = ledger \cup {[sub |-> s, kind |-> "refund"]}
    /\ Go("returned")
    /\ UNCHANGED <<day, world, sub, since, row, dtx, rtx, booked, was, amount, halfway, budget>>

RefundRecord(s) ==
    /\ At(s, "returned")
    /\ Row(s, "refunded") /\ Go("mark")
    /\ UNCHANGED <<day, world, sub, since, dtx, rtx, booked, ledger, was, amount, halfway, budget>>

-----------------------------------------------------------------------------
Settle(s) ==
    \/ SettleDecided(s) \/ SettleResume(s)
    \/ AtomicOpen(s) \/ AtomicComplete(s) \/ AtomicRecord(s) \/ AtomicTorn(s)
    \/ Deliver(s) \/ Transfer(s) \/ DeliverRecord(s) \/ Undelivered(s) \/ Book(s)
    \/ Pay(s) \/ PaySend(s) \/ PayRecord(s) \/ Finish(s) \/ Mark(s)
    \/ Refund(s) \/ RefundSend(s) \/ RefundBook(s) \/ RefundRecord(s)

Next == Close \/ CloseEnd \/ NextDay \/ Crash \/ \E s \in Subs : Credit(s) \/ Settle(s)

Spec == Init /\ [][Next]_vars
-----------------------------------------------------------------------------
(* Properties.                                                              *)

\* Every variable stays in the range its column or its step can hold.
TypeOK ==
    /\ day \in 0..LastDay
    /\ tokens \in [Subs -> Nat] /\ balance \in [Investors -> Nat]
    /\ sends \subseteq [sub : Subs, kind : {"atomic", "release", "refund"}, amount : Nat, nth : Nat \ {0}]
    /\ sub \in [Subs -> {"created", "in_escrow", "settled", "refunded"}]
    /\ since \in [Subs -> 0..LastDay]
    /\ row \in [Subs -> Rows] /\ dtx \in [Subs -> BOOLEAN] /\ rtx \in [Subs -> BOOLEAN]
    /\ booked \in [Subs -> Nat]
    /\ ledger \subseteq [sub : Subs, kind : {"delivery", "release", "refund"}]
    /\ pc \in Steps /\ todo \subseteq Subs /\ was \in Rows /\ amount \in Nat
    /\ halfway \subseteq Subs
    /\ budget \in [{"crash", "lost", "unread"} -> Nat]

\* However a close is interrupted and repeated, and whichever answers are lost, the
\* tokens of a subscription go out at most once ("never double-deliver",
\* M5-CONTRACT.md), as long as every question about a balance was answered.
NoDoubleDelivery == budget.unread = MaxUnread => \A s \in Subs : tokens[s] <= 1

\* A subscription's money leaves escrow at most once and one way, to the issuer or
\* back, and back only to a subscriber without the tokens, as long as every question
\* was answered and no stop hit its refund.
PaidOnce ==
    budget.unread = MaxUnread =>
        \A s \in Subs \ halfway :
            /\ Cardinality(PaidOut(s, {"atomic", "release", "refund"})) <= 1
            /\ PaidOut(s, {"refund"}) # {} => tokens[s] = 0

\* An investor holds at least the tokens of the subscriptions whose money went to
\* the issuer (the delivery comes first, settleOne).
InvestorWhole ==
    \A i \in Investors :
        MapThenSumSet(LAMBDA s : Atoms[s],
                      {s \in Subs : Investor[s] = i /\ PaidOut(s, {"atomic", "release"}) # {}})
            <= balance[i]

\* The books never show a release, a refund or a settlement the wallets and the
\* policy server did not make.
BookedWasDone ==
    \A s \in Subs :
        /\ [sub |-> s, kind |-> "release"] \in ledger => PaidOut(s, {"atomic", "release"}) # {}
        /\ [sub |-> s, kind |-> "refund"] \in ledger => PaidOut(s, {"refund"}) # {}
        /\ sub[s] = "settled" => PaidOut(s, {"atomic", "release"}) # {}

\* The fee is fixed when it is first charged (escrowFeeFor): whatever leaves a deposit
\* leaves exactly the booked fee behind, however late the retry that pays it comes. A
\* fee that was nothing is not booked; a payment that withheld nothing is left out.
FeeFixed ==
    \A p \in sends : p.amount = Deposit[p.sub] \/ p.amount + booked[p.sub] = Deposit[p.sub]
=============================================================================
