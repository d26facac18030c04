-------------------------------- MODULE Fees ---------------------------------
(***************************************************************************)
(* One fee invoice, which gates a mint or a check: it is raised once,      *)
(* quoted on any rail as often as the payer asks, and paid by whichever    *)
(* deposit or simulated checkout comes first.                              *)
(* Source: platform.go, money_store.go, moneywatch.go, fiat.go.            *)
(***************************************************************************)
EXTENDS Naturals, Sequences, SequencesExt

CONSTANTS Payers,   \* requests for a quote that may be in flight together
          Rails,    \* the rails with a chain
          Prices    \* what a rail may be quoted at, as prices move

VARIABLES
    invoice,    \* the FeeInvoice row: state and the quote of each rail
    addresses,  \* how many addresses were derived
    told,       \* the quotes payers were given: address and amount
    held,       \* what each address holds, confirmed
    checkouts,  \* FiatPayment rows, oldest first
    fees,       \* ledger rows of this fee
    asks,       \* the requests in flight
    lockFee,    \* LockFee
    watch,      \* the watcher: the copy of the row it works on
    cron,       \* settleFiatDue: the checkouts it has yet to settle, and its step
    budget

store == <<invoice, checkouts, fees>>
chain == <<addresses, told, held>>
fvars == <<store, chain, asks, lockFee, watch, cron>>

NoQuote == [addr |-> 0, amount |-> 0]
Nobody  == [pc |-> "idle"]
Idle    == [pc |-> "idle", due |-> <<>>]

Spent(k) == budget[k] > 0 /\ budget' = [budget EXCEPT ![k] = @ - 1]

Init ==
    /\ invoice = [state |-> "none", quotes |-> [r \in Rails |-> NoQuote]]
    /\ addresses = 0 /\ told = {} /\ held = <<>>
    /\ checkouts = <<>> /\ fees = 0
    /\ asks = [p \in Payers |-> Nobody] /\ lockFee = "free"
    /\ watch = Nobody /\ cron = Idle

At(p, pc)   == asks[p].pc = pc
Goes(p, pc) == asks' = [asks EXCEPT ![p].pc = pc]
Leaves(p)   == asks' = [asks EXCEPT ![p] = Nobody]

-----------------------------------------------------------------------------
(* Raising and quoting.                                                    *)

Ask(p, r) ==
    /\ At(p, "idle") /\ Spent("quote")
    /\ asks' = [asks EXCEPT ![p] = [pc |-> IF invoice.state = "none" THEN "raise" ELSE "lock",
                                    rail |-> r, seen |-> NoQuote]]
    /\ UNCHANGED <<store, chain, lockFee, watch, cron>>

\* The index lets one of two concurrent raises through; the other reads its row.
Raise(p) ==
    /\ At(p, "raise") /\ Goes(p, "lock")
    /\ invoice' = IF invoice.state = "none" THEN [invoice EXCEPT !.state = "unpaid"] ELSE invoice
    /\ UNCHANGED <<checkouts, fees, chain, lockFee, watch, cron, budget>>

\* One quote at a time on one invoice.
LockedNot == FALSE
Locked    == lockFee # "free"

Enter(p) ==
    /\ At(p, "lock") /\ ~Locked
    /\ IF invoice.state = "paid" THEN Leaves(p) /\ UNCHANGED lockFee
       ELSE /\ lockFee' = p
            /\ asks' = [asks EXCEPT ![p].pc = "derive",
                  ![p].seen = IF asks[p].rail \in Rails THEN invoice.quotes[asks[p].rail] ELSE NoQuote]
    /\ UNCHANGED <<store, chain, watch, cron, budget>>

\* The address a rail has is kept.
Derive(p) ==
    /\ At(p, "derive") /\ asks[p].rail \in Rails
    /\ IF asks[p].seen.addr # 0 THEN Goes(p, "quote") /\ UNCHANGED <<addresses, held>>
       ELSE /\ addresses' = addresses + 1 /\ held' = Append(held, 0)
            /\ asks' = [asks EXCEPT ![p].pc = "quote", ![p].seen.addr = addresses']
    /\ UNCHANGED <<store, told, lockFee, watch, cron, budget>>

\* The smallest amount a rail was ever quoted at is the one that is credited.
Amount(was, now) == IF was = 0 \/ now < was THEN now ELSE was

\* feeQuoteFor and SetFeeQuote, onto what the row holds of the other rails.
Quote(p) ==
    /\ At(p, "quote")
    /\ \E price \in Prices :
         LET q == [addr |-> asks[p].seen.addr, amount |-> Amount(asks[p].seen.amount, price)]
         IN  /\ invoice' = [invoice EXCEPT !.quotes[asks[p].rail] = q]
             /\ told' = told \cup {q}
    /\ Leaves(p) /\ lockFee' = "free"
    /\ UNCHANGED <<checkouts, fees, addresses, held, watch, cron, budget>>

\* A card or a bank: a simulated checkout.
Checkout(p) ==
    /\ At(p, "derive") /\ asks[p].rail \notin Rails
    /\ checkouts' = Append(checkouts, "pending")
    /\ Leaves(p) /\ lockFee' = "free"
    /\ UNCHANGED <<invoice, fees, chain, watch, cron, budget>>

-----------------------------------------------------------------------------
(* Paying.                                                                 *)

Pay(q, n) ==
    /\ q \in told /\ Spent("deposit") /\ held' = [held EXCEPT ![q.addr] = @ + n]
    /\ UNCHANGED <<store, addresses, told, asks, lockFee, watch, cron>>

\* UnpaidOnchainFees: copies of the rows.
WatchBegin ==
    /\ watch.pc = "idle" /\ invoice.state = "unpaid" /\ \E r \in Rails : invoice.quotes[r].addr # 0
    /\ watch' = [pc |-> "look", left |-> {r \in Rails : invoice.quotes[r].addr # 0},
                 quotes |-> invoice.quotes]
    /\ UNCHANGED <<store, chain, asks, lockFee, cron, budget>>

Covers(q, n) == n >= q.amount

\* watchFeeDeposits over the rails of one row, in any order.
WatchLook ==
    /\ watch.pc = "look"
    /\ IF watch.left = {} THEN watch' = Nobody
       ELSE \E r \in watch.left :
              watch' = IF Covers(watch.quotes[r], held[watch.quotes[r].addr])
                       THEN [watch EXCEPT !.pc = "paid"] ELSE [watch EXCEPT !.left = @ \ {r}]
    /\ UNCHANGED <<store, chain, asks, lockFee, cron, budget>>

RecordFeePaid == invoice' = [invoice EXCEPT !.state = "paid"]

\* onFeeDepositConfirmed asks the copy whether the fee is paid.
WatchPaid ==
    /\ watch.pc = "paid" /\ RecordFeePaid /\ watch' = [pc |-> "book"]
    /\ UNCHANGED <<checkouts, fees, chain, asks, lockFee, cron, budget>>

WatchBook ==
    /\ watch.pc = "book" /\ fees' = fees + 1 /\ watch' = Nobody
    /\ UNCHANGED <<invoice, checkouts, chain, asks, lockFee, cron, budget>>

CronBegin ==
    /\ cron = Idle
    /\ LET due == {i \in DOMAIN checkouts : checkouts[i] = "pending"}
       IN  due # {} /\ cron' = [pc |-> "settle", due |-> SetToSortSeq(due, <)]
    /\ UNCHANGED <<store, chain, asks, lockFee, watch, budget>>

CronSettle ==
    /\ cron.pc = "settle" /\ cron.due # <<>>
    /\ checkouts' = [checkouts EXCEPT ![Head(cron.due)] = "settled"]
    /\ cron' = [cron EXCEPT !.pc = "fee"]
    /\ UNCHANGED <<invoice, fees, chain, asks, lockFee, watch, budget>>

\* onFiatFeeSettled reads the row again.
CronFee ==
    /\ cron.pc = "fee"
    /\ IF invoice.state = "paid"
       THEN cron' = [pc |-> "settle", due |-> Tail(cron.due)] /\ UNCHANGED invoice
       ELSE cron' = [cron EXCEPT !.pc = "book"] /\ RecordFeePaid
    /\ UNCHANGED <<checkouts, fees, chain, asks, lockFee, watch, budget>>

CronBook ==
    /\ cron.pc = "book" /\ fees' = fees + 1
    /\ cron' = [pc |-> "settle", due |-> Tail(cron.due)]
    /\ UNCHANGED <<invoice, checkouts, chain, asks, lockFee, watch, budget>>

CronEnd ==
    /\ cron.pc = "settle" /\ cron.due = <<>> /\ cron' = Idle
    /\ UNCHANGED <<store, chain, asks, lockFee, watch, budget>>

Crash ==
    /\ Spent("crash")
    /\ asks' = [p \in Payers |-> Nobody] /\ lockFee' = "free" /\ watch' = Nobody /\ cron' = Idle
    /\ UNCHANGED <<store, chain>>

-----------------------------------------------------------------------------
Quoting == \E p \in Payers :
    \/ \E r \in Rails \cup {"card"} : Ask(p, r)
    \/ Raise(p) \/ Enter(p) \/ Derive(p) \/ Quote(p) \/ Checkout(p)
Watching == WatchBegin \/ WatchLook \/ WatchPaid \/ WatchBook
Settling == CronBegin \/ CronSettle \/ CronFee \/ CronBook \/ CronEnd

Next ==
    \/ Quoting \/ Watching \/ Settling \/ Crash
    \/ \E q \in told, n \in Prices : Pay(q, n)

\* The watcher ticks for ever.
Fairness == WF_<<fvars, budget>>(Watching)

-----------------------------------------------------------------------------
\* A payer sent what a quote asked for, to the address it named, and the fee is not paid.
Stranded == \E q \in told : held[q.addr] >= q.amount /\ invoice.state # "paid"
=============================================================================
