----------------------------- MODULE Servicing -----------------------------
(***************************************************************************)
(* Paying holders and subscribers.  A distribution run snapshots the       *)
(* register and is paid in one of three ways: by one transaction the       *)
(* issuer's wallet signs, by one send per holder out of a deposit (runs    *)
(* opened before that), or by one payment of a service to the holders'     *)
(* wallets.  The last also refunds subscribers whose money was released.   *)
(*                                                                          *)
(* `ex` is the handler that holds the lock of the run (distMu) and `po` the *)
(* one that holds the lock of the offering (LockIssuance): the two locks   *)
(* do not exclude each other.  The database outlives a stop of the process.*)
(***************************************************************************)
EXTENDS Integers, Sequences, FiniteSetsExt

CONSTANTS
    Payees,      \* accounts on the register; for a refund, settled subscriptions
    Account,     \* the investor account a payee belongs to
    Rank,        \* the order of account ids, and of created_at
    Key,         \* the wallet key an account is named by ("none": it has none)
    Address,     \* its payout mandate: "ok", "none" or "enclave"
    Registers,   \* what the policy server may answer for the balances of record
    Pool,        \* pool_atoms
    Bps,         \* the withholding rate of each payee
    MinLeaf,     \* the smallest allocation the payment service makes
    Deposited,   \* deposited_atoms of a settled subscription
    Payouts,     \* payouts that may be planned
    Refs,        \* payments the issuer's wallet may make through the service
    MaxTx,       \* bound on transactions the issuer signs
    Overlap,     \* the issuer may ask for both ways of paying a run at once
    Stops,       \* the steps of a handler during which the process may stop
    MaxCrashes,  \* bound on restarts of the process
    MaxLost,     \* bound on broadcasts whose answer is lost
    MaxUnchecked,\* bound on address checks of a plan the policy server does not answer
    MaxBlurred   \* bound on sends of the servicing wallet whose answer is lost, and on
                 \* address checks before one that are not answered

ASSUME ServicingAssumption ==
    /\ IsFiniteSet(Payees) /\ Rank \in [Payees -> Nat]
    /\ \A x, y \in Payees : Rank[x] = Rank[y] => x = y
    /\ Address \in [Payees -> {"ok", "none", "enclave"}]
    /\ Registers \subseteq [Payees -> Nat] /\ Pool \in Nat \ {0} /\ MinLeaf \in Nat
    /\ Bps \in [Payees -> 0..10000] /\ Deposited \in [Payees -> Nat \ {0}]
    /\ Overlap \in BOOLEAN /\ MaxTx \in Nat /\ MaxCrashes \in Nat /\ MaxLost \in Nat /\ MaxUnchecked \in Nat
    /\ MaxBlurred \in Nat
    /\ IsFiniteSet(Payouts) /\ Payouts # {} /\ "none" \notin Payouts \cup Refs

VARIABLES
    kind,     \* what the payouts of this behaviour pay: "distribution" or "refund"
    funded,   \* the run was opened with a deposit address (DepositAddress)
    run,      \* Distribution.state
    ptx,      \* Distribution.payout_tx, as an index into signed (0: none)
    pay,      \* DistPayment: its state, gross and net
    payout,   \* Payout: its state and reference, and of each row the state and claim_index
    ledger,   \* how many times a payee's payment is in the ledger
    returns,  \* how many times its return is
    signed,   \* the transactions the issuer signed: whom each pays
    landed,   \* those the network has
    sends,    \* sends of the servicing wallet to a payee
    service,  \* the payments of the service: state, claim index and state of each payee
    ex, po,   \* the two handlers
    budget    \* faults the environment may still inject

state == <<run, ptx, pay, payout, ledger, returns>>
world == <<signed, landed, sends, service>>
vars  == <<kind, funded, state, world, ex, po, budget>>

NoPay    == [st |-> "none", gross |-> 0, net |-> 0]
NoRow    == [st |-> "none", idx |-> 0]
NoPayout == [st |-> "none", ref |-> "none", rows |-> [x \in Payees |-> NoRow]]
NoClaims == [st |-> "none", for |-> "none", idx |-> [x \in Payees |-> 0], claim |-> [x \in Payees |-> "none"]]
Idle     == [pc |-> "idle", todo |-> {}, was |-> {}, tx |-> 0, at |-> "none"]
Still    == [pc |-> "idle", p |-> "none", todo |-> {}]

Terminal == {"paid", "skipped", "no_payment"}
RowsIn(states) == {x \in Payees : pay[x].st \in states}
SetPay(x, st)  == pay' = [pay EXCEPT ![x].st = st]
Inject(fault)  == budget[fault] > 0 /\ budget' = [budget EXCEPT ![fault] = @ - 1]

-----------------------------------------------------------------------------
Init ==
    /\ kind \in {"distribution", "refund"}
    /\ funded \in (IF kind = "refund" THEN {FALSE} ELSE BOOLEAN)
    /\ run = IF funded THEN "awaiting_funding" ELSE "none"
    /\ ptx = 0 /\ pay = [x \in Payees |-> NoPay]
    /\ payout = [p \in Payouts |-> NoPayout]
    /\ ledger = [x \in Payees |-> 0] /\ returns = [x \in Payees |-> 0]
    /\ signed = <<>> /\ landed = {} /\ sends = [x \in Payees |-> 0]
    /\ service = [r \in Refs |-> NoClaims]
    /\ ex = Idle /\ po = Still
    /\ budget = [crash |-> MaxCrashes, lost |-> MaxLost, check |-> MaxUnchecked, blurred |-> MaxBlurred]

\* handleCreateDistribution: nothing is deposited with the platform.
Create ==
    /\ kind = "distribution" /\ run = "none" /\ run' = "open"
    /\ UNCHANGED <<kind, funded, ptx, pay, payout, ledger, returns, world, ex, po, budget>>

\* watchDistributionDeposits: the deposit of an older run covers its pool.
Fund ==
    /\ run = "awaiting_funding" /\ run' = "funded"
    /\ UNCHANGED <<kind, funded, ptx, pay, payout, ledger, returns, world, ex, po, budget>>

\* Everything a handler holds in memory is lost, and both locks with it.
Crash ==
    /\ {ex.pc, po.pc} \subseteq Stops \cup {"idle"}
    /\ Inject("crash")
    /\ ex' = Idle /\ po' = Still
    /\ UNCHANGED <<kind, funded, state, world>>

-----------------------------------------------------------------------------
(* The record-date snapshot.                                                *)

Held(reg)      == MapThenSumSet(LAMBDA x : reg[x], Payees)
Gross(reg, x)  == (Pool * reg[x]) \div Held(reg)
Withheld(x, g) == (g * Bps[x]) \div 10000

Snapshotted(reg, x) == [st |-> "pending", gross |-> Gross(reg, x),
                        net |-> Gross(reg, x) - Withheld(x, Gross(reg, x))]

\* Mutated: an interrupted snapshot is filled up from a new reading.
UnrecordedAnew(reg) == {x \in RowsIn({"none"}) : reg[x] > 0}

\* The shares of one reading of the register, unless an earlier attempt left rows:
\* then those rows are the snapshot.
Unrecorded(reg) == IF RowsIn({"none"}) # Payees THEN {} ELSE {x \in Payees : reg[x] > 0}

SnapshotBegin ==
    /\ ex.pc = "idle" /\ run \in {"open", "funded"}
    /\ \E reg \in Registers :
          /\ Held(reg) > 0
          /\ ex' = [Idle EXCEPT !.pc = "snapshot",
                                !.todo = {<<x, Snapshotted(reg, x)>> : x \in Unrecorded(reg)}]
    /\ UNCHANGED <<kind, funded, state, world, po, budget>>

\* InsertDistPaymentIfAbsent, one holder at a time.
SnapshotRow ==
    /\ ex.pc = "snapshot"
    /\ \E row \in ex.todo :
          /\ pay' = [pay EXCEPT ![row[1]] = row[2]]
          /\ ex' = [ex EXCEPT !.todo = @ \ {row}]
    /\ UNCHANGED <<kind, funded, run, ptx, payout, ledger, returns, world, po, budget>>

SnapshotDone ==
    /\ ex.pc = "snapshot" /\ ex.todo = {}
    /\ run' = "snapshotted" /\ ex' = Idle
    /\ UNCHANGED <<kind, funded, ptx, pay, payout, ledger, returns, world, po, budget>>

-----------------------------------------------------------------------------
(* Paying the run on chain.                                                 *)

\* handleExecuteDistribution: the run and its payout are read, and the rest works on
\* what was read.
ExecuteBegin ==
    /\ ex.pc = "idle" /\ run \in {"snapshotted", "paying"}
    /\ kind = "distribution" /\ \A p \in Payouts : payout[p].st = "none"
    /\ Overlap \/ po.pc = "idle"
    /\ ex' = [Idle EXCEPT !.pc = IF funded THEN "each" ELSE IF run = "paying" /\ ptx # 0
                                                       THEN "broadcast" ELSE "one",
                          !.tx = IF run = "paying" THEN ptx ELSE 0,
                          !.todo = IF funded THEN RowsIn({"pending", "planned", "paying", "failed", "returned"})
                                             ELSE {},
                          !.was = IF funded THEN RowsIn({"paying"}) ELSE {}]
    /\ run' = IF funded THEN "paying" ELSE run
    /\ UNCHANGED <<kind, funded, ptx, pay, payout, ledger, returns, world, po, budget>>

\* What becomes of a holder's row when it is to be paid on chain.
Routed(x) == CASE pay[x].net = 0          -> "no_payment"
               [] Address[x] # "ok"       -> "skipped"
               [] OTHER                   -> "planned"

\* writePayoutPlan: the rows still to route, and the address check of one may go
\* unanswered.
PlanRows ==
    /\ ex.pc = "one"
    /\ \E failed \in SUBSET {x \in RowsIn({"pending", "failed"}) : Routed(x) # "no_payment" /\ Address[x] # "none"} :
          /\ failed = {} \/ Cardinality(failed) = 1
          /\ IF failed = {} THEN UNCHANGED budget ELSE Inject("check")
          /\ pay' = [x \in Payees |-> IF pay[x].st \notin {"pending", "failed"} THEN pay[x]
                                      ELSE [pay[x] EXCEPT !.st = IF x \in failed THEN "failed" ELSE Routed(x)]]
    /\ ex' = Idle
    /\ UNCHANGED <<kind, funded, run, ptx, payout, ledger, returns, world, po>>

\* A transaction with exactly one output per planned row, which the node would accept:
\* the intent is recorded before the broadcast.
Submit ==
    /\ ex.pc = "one" /\ RowsIn({"planned"}) # {} /\ Len(signed) < MaxTx
    /\ signed' = Append(signed, RowsIn({"planned"}))
    /\ run' = "paying" /\ ptx' = Len(signed')
    /\ ex' = [ex EXCEPT !.pc = "mark", !.todo = RowsIn({"planned"}), !.was = RowsIn({"planned"}), !.tx = Len(signed')]
    /\ UNCHANGED <<kind, funded, pay, payout, ledger, returns, landed, sends, service, po, budget>>

MarkPaying ==
    /\ ex.pc = "mark"
    /\ \E x \in ex.todo :
          /\ SetPay(x, "paying")
          /\ ex' = [ex EXCEPT !.todo = @ \ {x}, !.pc = IF ex.todo = {x} THEN "broadcast" ELSE @]
    /\ UNCHANGED <<kind, funded, run, ptx, payout, ledger, returns, world, po, budget>>

\* The first attempt the node refuses is undone, row by row.
Undone == ex' = [ex EXCEPT !.pc = "undo", !.todo = ex.was] /\ run' = "snapshotted" /\ ptx' = 0

\* Mutated: a broadcast that was not answered is undone like one that was refused.
UnansweredUndone == IF ex.was = {} THEN ex' = Idle /\ UNCHANGED <<run, ptx>> ELSE Undone

\* Mutated: it is taken to have gone out.
UnansweredPaid == ex' = [ex EXCEPT !.pc = "paid", !.todo = RowsIn({"paying"})] /\ UNCHANGED <<run, ptx>>

\* A broadcast that was not answered may have gone out: everything stays as recorded.
Unanswered == ex' = Idle /\ UNCHANGED <<run, ptx>>

\* broadcastPayout: the node has the transaction, and answers so, or the answer is lost.
Broadcast ==
    /\ ex.pc = "broadcast"
    /\ landed' = landed \cup {ex.tx}
    /\ \/ /\ ex' = [ex EXCEPT !.pc = "paid", !.todo = RowsIn({"paying"})]
          /\ UNCHANGED <<run, ptx, budget>>
       \/ Inject("lost") /\ Unanswered
    /\ UNCHANGED <<kind, funded, pay, payout, ledger, returns, signed, sends, service, po>>

\* The node was not reached.
Unreached ==
    /\ ex.pc = "broadcast" /\ ex.tx \notin landed /\ Inject("lost") /\ Unanswered
    /\ UNCHANGED <<kind, funded, pay, payout, ledger, returns, world, po>>

\* The node refuses a transaction it accepted a moment ago: a first attempt is undone,
\* the attempt to send it again is only reported.
Refused ==
    /\ ex.pc = "broadcast" /\ ex.tx \notin landed /\ Inject("lost")
    /\ IF ex.was = {} THEN Unanswered ELSE Undone
    /\ UNCHANGED <<kind, funded, pay, payout, ledger, returns, world, po>>

UndoRow ==
    /\ ex.pc = "undo"
    /\ \E x \in ex.todo :
          SetPay(x, "planned") /\ ex' = IF ex.todo = {x} THEN Idle ELSE [ex EXCEPT !.todo = @ \ {x}]
    /\ UNCHANGED <<kind, funded, run, ptx, payout, ledger, returns, world, po, budget>>

\* Each row that was paying is paid and booked.
PaidRow ==
    /\ ex.pc = "paid"
    /\ \E x \in ex.todo :
          /\ SetPay(x, "paid") /\ ledger' = [ledger EXCEPT ![x] = @ + 1]
          /\ ex' = [ex EXCEPT !.todo = @ \ {x}]
    /\ UNCHANGED <<kind, funded, run, ptx, payout, returns, world, po, budget>>

\* Holders left to pay bring the run back to its snapshot; otherwise it is complete.
PaidAll ==
    /\ ex.pc = "paid" /\ ex.todo = {} /\ ex' = Idle
    /\ IF \A x \in Payees : pay[x].st \in Terminal \cup {"none"}
       THEN run' = "complete" /\ UNCHANGED ptx
       ELSE run' = "snapshotted" /\ ptx' = 0
    /\ UNCHANGED <<kind, funded, pay, payout, ledger, returns, world, po, budget>>

-----------------------------------------------------------------------------
(* Paying an older run out of its deposit, one send per holder (payOneHolder). *)

\* The row of one holder is routed; a row an earlier attempt left paying is looked for
\* by its marker first, and one that is to be paid is written paying before the send.
Routes(x) == IF Routed(x) # "planned" THEN Routed(x)
             ELSE IF x \in ex.was /\ sends[x] > 0 THEN "paid" ELSE "paying"

EachHolder ==
    /\ ex.pc = "each"
    /\ \E x \in ex.todo :
          \/ /\ SetPay(x, Routes(x))
             /\ ex' = IF Routes(x) = "paying" THEN [ex EXCEPT !.pc = "send", !.at = x, !.todo = @ \ {x}]
                                              ELSE [ex EXCEPT !.todo = @ \ {x}]
             /\ UNCHANGED budget
          \/ /\ Routed(x) # "no_payment" /\ Address[x] # "none" /\ Inject("blurred")
             /\ SetPay(x, "failed") /\ ex' = [ex EXCEPT !.todo = @ \ {x}]
    /\ UNCHANGED <<kind, funded, run, ptx, payout, ledger, returns, world, po>>

\* releaseUSDX: carried out, refused, or carried out with its answer lost.
Send ==
    /\ ex.pc = "send"
    /\ \/ /\ sends' = [sends EXCEPT ![ex.at] = @ + 1] /\ ex' = [ex EXCEPT !.pc = "sent"]
          /\ UNCHANGED <<pay, budget>>
       \/ /\ SetPay(ex.at, "failed") /\ ex' = [ex EXCEPT !.pc = "each"]
          /\ \/ UNCHANGED <<sends, budget>>
             \/ sends' = [sends EXCEPT ![ex.at] = @ + 1] /\ Inject("blurred")
    /\ UNCHANGED <<kind, funded, run, ptx, payout, ledger, returns, signed, landed, service, po>>

SentRow ==
    /\ ex.pc = "sent"
    /\ SetPay(ex.at, "paid") /\ ledger' = [ledger EXCEPT ![ex.at] = @ + 1]
    /\ ex' = [ex EXCEPT !.pc = "each"]
    /\ UNCHANGED <<kind, funded, run, ptx, payout, returns, world, po, budget>>

EachDone ==
    /\ ex.pc = "each" /\ ex.todo = {} /\ ex' = Idle
    /\ run' = IF \A x \in Payees : pay[x].st \in Terminal \cup {"none"} THEN "complete" ELSE run
    /\ UNCHANGED <<kind, funded, ptx, pay, payout, ledger, returns, world, po, budget>>

-----------------------------------------------------------------------------
(* Planning one payment to many wallets.                                    *)

Owed(x) == IF kind = "refund" THEN Deposited[x] ELSE pay[x].net

\* planRows: whom a payout can name; of two accounts with one key the first.
Fits(x) == Owed(x) > 0 /\ Key[x] # "none" /\ Owed(x) >= MinLeaf
Named(wanted, x) == Fits(x) /\ ~\E y \in wanted : Fits(y) /\ Key[y] = Key[x] /\ Rank[y] < Rank[x]
PlannedRows(wanted) ==
    [x \in Payees |-> IF x \notin wanted THEN NoRow
                      ELSE [NoRow EXCEPT !.st = IF Named(wanted, x) THEN "planned" ELSE "left_out"]]

RowsOf(p, states) == {x \in Payees : payout[p].rows[x].st \in states}
Listed(p) == {x \in Payees : payout[p].rows[x].st \notin {"none", "left_out"}}
Free      == CHOOSE p \in Payouts : payout[p].st = "none"
SetRow(p, x, st, i) == payout' = [payout EXCEPT ![p].rows[x] = [st |-> st, idx |-> i]]
RowsDone(x, next)   == po' = IF po.todo # {x} THEN [po EXCEPT !.todo = @ \ {x}]
                             ELSE IF next = "idle" THEN Still ELSE [po EXCEPT !.todo = {}, !.pc = next]

\* handleDistributionPayout: the run is snapshotted and has no payout yet.
ListBegin ==
    /\ po.pc = "idle" /\ kind = "distribution" /\ run = "snapshotted"
    /\ Overlap \/ ex.pc = "idle"
    /\ \A p \in Payouts : payout[p].st = "none"
    /\ po' = [Still EXCEPT !.pc = "list"]
    /\ UNCHANGED <<kind, funded, state, world, ex, budget>>

\* InsertPayout: the payout and a row for every holder of the run, at once.
ListInsert ==
    /\ po.pc = "list"
    /\ LET holders == {x \in Payees : pay[x].st # "none"}
           rows    == PlannedRows(holders)
       IN  IF \A x \in Payees : rows[x].st # "planned" THEN po' = Still /\ UNCHANGED payout
           ELSE /\ payout' = [payout EXCEPT ![Free] = [NoPayout EXCEPT !.st = "planned", !.rows = rows]]
                /\ po' = [pc |-> "rows", p |-> Free, todo |-> holders]
    /\ UNCHANGED <<kind, funded, run, ptx, pay, ledger, returns, world, ex, budget>>

ListRow ==
    /\ po.pc = "rows"
    /\ \E x \in po.todo :
          /\ SetPay(x, IF pay[x].net = 0 THEN "no_payment"
                       ELSE IF payout[po.p].rows[x].st = "left_out" THEN "skipped" ELSE "planned")
          /\ RowsDone(x, "taken")
    /\ UNCHANGED <<kind, funded, run, ptx, payout, ledger, returns, world, ex, budget>>

ListDone ==
    /\ po.pc = "taken" /\ run' = "paying" /\ po' = Still
    /\ UNCHANGED <<kind, funded, ptx, pay, payout, ledger, returns, world, ex, budget>>

\* Mutated: a refund that went out no longer holds them.
InRefundUnpaid == UNION {RowsOf(p, {"planned", "pending"}) : p \in Payouts}

\* The subscriptions a refund that may still be collected holds (idx_payout_rows_refund).
InRefund == UNION {RowsOf(p, {"planned", "pending", "paid", "collected"}) : p \in Payouts}

\* handleCreateRefund: a payout has one row for each account, and a subscription is in
\* one refund at a time; otherwise nothing is recorded.
RefundPlan ==
    /\ po.pc = "idle" /\ kind = "refund" /\ \E p \in Payouts : payout[p].st = "none"
    /\ \E wanted \in SUBSET Payees :
          LET rows  == PlannedRows(wanted)
              named == {x \in wanted : rows[x].st = "planned"}
          IN  /\ named # {} /\ named \cap InRefund = {}
              /\ \A x, y \in wanted : Account[x] = Account[y] => x = y
              /\ payout' = [payout EXCEPT ![Free] = [NoPayout EXCEPT !.st = "planned", !.rows = rows]]
    /\ UNCHANGED <<kind, funded, run, ptx, pay, ledger, returns, world, ex, po, budget>>

-----------------------------------------------------------------------------
(* The payment service, and the issuer's wallet that pays through it.       *)

\* The wallet pays a payout's list, or all but one line of it, in an order of its own,
\* unless a payment it made for the payout still stands.
WalletPays(p, r) ==
    /\ payout[p].st = "planned" /\ service[r].st = "none"
    /\ \A q \in Refs : service[q].for = p => service[q].st = "void"
    /\ \E lines \in SUBSET Listed(p) : \E idx \in [Payees -> 0..Cardinality(Payees)] :
          /\ lines # {} /\ Cardinality(Listed(p) \ lines) <= 1
          /\ \A x \in Payees : idx[x] # 0 <=> x \in lines
          /\ {idx[x] : x \in lines} = 1..Cardinality(lines)
          /\ service' = [service EXCEPT ![r] = [NoClaims EXCEPT !.st = "pending", !.for = p, !.idx = idx]]
    /\ UNCHANGED <<kind, funded, state, signed, landed, sends, ex, po, budget>>

\* The payment goes out, or never will.
Settles(r) ==
    /\ service[r].st = "pending"
    /\ \/ service' = [service EXCEPT ![r].st = "void"]
       \/ service' = [service EXCEPT ![r].st = "released",
                         ![r].claim = [x \in Payees |-> IF service[r].idx[x] # 0 THEN "open" ELSE "none"]]
    /\ UNCHANGED <<kind, funded, state, signed, landed, sends, ex, po, budget>>

\* A wallet collects its allocation, or the deadline returns it.
Resolves(r, x) ==
    /\ service[r].claim[x] = "open"
    /\ \E c \in {"claimed", "returned"} : service' = [service EXCEPT ![r].claim[x] = c]
    /\ UNCHANGED <<kind, funded, state, signed, landed, sends, ex, po, budget>>

-----------------------------------------------------------------------------
(* The reference, and following it.                                         *)

\* Mutated: a payment that names only listed wallets is taken.
Within(p, r) == {x \in Payees : service[r].idx[x] # 0} \subseteq Listed(p)

\* matchPayment: the payment names exactly the list.
Exact(p, r) == {x \in Payees : service[r].idx[x] # 0} = Listed(p)

\* handlePayoutReference: recorded against one payout only, before its rows.
Reference(p, r) ==
    /\ po.pc = "idle" /\ payout[p].st = "planned"
    /\ service[r].st \in {"pending", "released"} /\ Exact(p, r)
    /\ \A q \in Payouts : payout[q].ref # r
    /\ payout' = [payout EXCEPT ![p].st = "paying", ![p].ref = r]
    /\ LET planned == RowsOf(p, {"planned"})
       IN  po' = [pc |-> IF planned = {} THEN "follow" ELSE "index", p |-> p, todo |-> planned]
    /\ UNCHANGED <<kind, funded, run, ptx, pay, ledger, returns, world, ex, budget>>

IndexRow ==
    /\ po.pc = "index"
    /\ \E x \in po.todo :
          SetRow(po.p, x, "pending", service[payout[po.p].ref].idx[x]) /\ RowsDone(x, "follow")
    /\ UNCHANGED <<kind, funded, run, ptx, pay, ledger, returns, world, ex, budget>>

\* followPayout, by the watcher.
FollowBegin(p) ==
    /\ po.pc = "idle" /\ payout[p].st \in {"paying", "paid"}
    /\ po' = [pc |-> "follow", p |-> p, todo |-> {}]
    /\ UNCHANGED <<kind, funded, state, world, ex, budget>>

Status == service[payout[po.p].ref].st

\* Nothing to record yet, or the service is not reached.
FollowLater ==
    /\ po.pc = "follow" /\ Status = "pending"
    /\ po' = Still
    /\ UNCHANGED <<kind, funded, state, world, ex, budget>>

\* The payment never went out: the list stands, and can be paid again.
FollowVoid ==
    /\ po.pc = "follow" /\ Status = "void"
    /\ payout' = [payout EXCEPT ![po.p].st = "planned", ![po.p].ref = "none"]
    /\ LET pending == RowsOf(po.p, {"pending"})
       IN  po' = IF pending = {} THEN Still ELSE [po EXCEPT !.pc = "void", !.todo = pending]
    /\ UNCHANGED <<kind, funded, run, ptx, pay, ledger, returns, world, ex, budget>>

VoidRow ==
    /\ po.pc = "void"
    /\ \E x \in po.todo : SetRow(po.p, x, "planned", 0) /\ RowsDone(x, "idle")
    /\ UNCHANGED <<kind, funded, run, ptx, pay, ledger, returns, world, ex, budget>>

\* The payment is out: the payout is written paid, and then payoutWentOut writes its rows.
FollowOut ==
    /\ po.pc = "follow" /\ Status = "released"
    /\ IF payout[po.p].st = "paying"
       THEN /\ payout' = [payout EXCEPT ![po.p].st = "paid"]
            /\ LET pending == RowsOf(po.p, {"pending"})
               IN  po' = [po EXCEPT !.pc = IF pending = {} THEN "out" ELSE "went", !.todo = pending]
       ELSE po' = [po EXCEPT !.pc = "claims"] /\ UNCHANGED payout
    /\ UNCHANGED <<kind, funded, run, ptx, pay, ledger, returns, world, ex, budget>>

WentRow ==
    /\ po.pc = "went"
    /\ \E x \in po.todo :
          /\ SetRow(po.p, x, "paid", payout[po.p].rows[x].idx) /\ RowsDone(x, "out")
          /\ ledger' = [ledger EXCEPT ![x] = @ + 1]
          /\ IF kind = "distribution" THEN SetPay(x, "paid") ELSE UNCHANGED pay
    /\ UNCHANGED <<kind, funded, run, ptx, returns, world, ex, budget>>

WentOut ==
    /\ po.pc = "out" /\ po' = [po EXCEPT !.pc = "claims"]
    /\ run' = IF kind = "distribution" THEN "complete" ELSE run
    /\ UNCHANGED <<kind, funded, ptx, pay, payout, ledger, returns, world, ex, budget>>

\* byIndex: of two rows with one index, the last of the list.
RowAt(p, i) == {x \in Payees : /\ payout[p].rows[x].idx = i /\ i # 0
                               /\ \A y \in Payees : payout[p].rows[y].idx = i => Rank[y] <= Rank[x]}

\* Mutated: whenever it is seen.
UnbookedOrBooked(p, back) == back

\* A return is booked when its row first says returned.
Unbooked(p, back) == {x \in back : payout[p].rows[x].st # "returned"}

\* Each claim is written to the row of its index: collected, or returned and booked; the
\* payout is complete when no claim of a row is open.
FollowClaims ==
    /\ po.pc = "claims" /\ po' = Still
    /\ LET r == payout[po.p].ref
           seen(st) == UNION {RowAt(po.p, service[r].idx[y]) : y \in {z \in Payees : service[r].claim[z] = st}}
           back == Unbooked(po.p, seen("returned"))
       IN  /\ payout' = [payout EXCEPT
                 ![po.p].st = IF seen("open") = {} THEN "complete" ELSE @,
                 ![po.p].rows = [x \in Payees |-> IF x \in seen("claimed") THEN [@[x] EXCEPT !.st = "collected"]
                                                  ELSE IF x \in back THEN [@[x] EXCEPT !.st = "returned"]
                                                  ELSE @[x]]]
           /\ returns' = [x \in Payees |-> IF x \in back THEN returns[x] + 1 ELSE returns[x]]
           /\ pay' = [x \in Payees |-> IF x \in back /\ kind = "distribution" THEN [pay[x] EXCEPT !.st = "returned"]
                                       ELSE pay[x]]
    /\ UNCHANGED <<kind, funded, run, ptx, ledger, world, ex, budget>>

-----------------------------------------------------------------------------
Chain   == SnapshotBegin \/ SnapshotRow \/ SnapshotDone \/ ExecuteBegin \/ PlanRows \/ Submit \/ MarkPaying
           \/ Broadcast \/ Unreached \/ Refused \/ UndoRow \/ PaidRow \/ PaidAll
           \/ EachHolder \/ Send \/ SentRow \/ EachDone
Follow  == IndexRow \/ FollowLater \/ FollowVoid \/ VoidRow \/ FollowOut \/ WentRow \/ WentOut \/ FollowClaims
Wallets == ListBegin \/ ListInsert \/ ListRow \/ ListDone \/ RefundPlan
           \/ \E p \in Payouts, r \in Refs : Reference(p, r)
Service == \/ \E p \in Payouts, r \in Refs : WalletPays(p, r)
           \/ \E r \in Refs : Settles(r) \/ \E x \in Payees : Resolves(r, x)

Next == Create \/ Fund \/ Crash \/ Chain \/ Wallets \/ Follow \/ Service \/ \E p \in Payouts : FollowBegin(p)
Spec == Init /\ [][Next]_vars

-----------------------------------------------------------------------------
PayStates == {"none", "pending", "planned", "paying", "paid", "skipped", "no_payment", "failed", "returned"}

\* The rows hold the states the code names, and the two handlers steps of theirs.
TypeOK ==
    /\ run \in {"none", "awaiting_funding", "funded", "open", "snapshotted", "paying", "complete"}
    /\ ptx \in 0..Len(signed) /\ Len(signed) <= MaxTx /\ landed \subseteq 1..Len(signed)
    /\ pay \in [Payees -> [st : PayStates, gross : 0..Pool, net : 0..Pool]]
    /\ payout \in [Payouts -> [st : {"none", "planned", "paying", "paid", "complete"}, ref : Refs \cup {"none"},
                               rows : [Payees -> [st : {"none", "left_out", "planned", "pending", "paid",
                                                        "collected", "returned"}, idx : 0..Cardinality(Payees)]]]]
    /\ ledger \in [Payees -> Nat] /\ returns \in [Payees -> Nat] /\ sends \in [Payees -> Nat]
    /\ ex.todo = {} \/ ex.pc \in {"snapshot", "mark", "broadcast", "undo", "paid", "each", "send", "sent"}
    /\ po.todo = {} \/ po.pc \in {"rows", "index", "void", "went"}

\* What reached a payee: on chain, and through payments recorded here.
OnChain(x)   == Cardinality({t \in landed : x \in signed[t]}) + sends[x]
Recorded     == {r \in Refs : \E p \in Payouts : payout[p].ref = r}
WentTo(x)    == {r \in Recorded : service[r].claim[x] # "none"}
Returned(x)  == {r \in Recorded : service[r].claim[x] = "returned"}
ByWallet(x)  == Cardinality(WentTo(x) \ Returned(x))

\* The transactions and sends of a run pay a holder at most once: answers are lost, the
\* node refuses, addresses cannot be checked, and each attempt starts from the rows.
ChainOnce == \A x \in Payees : OnChain(x) <= 1

\* The payments recorded here leave a holder, or a subscription, one allocation at most,
\* returned ones apart: payments are made void, and lists paid and refunded again.
WalletOnce == \A x \in Payees : ByWallet(x) <= 1

\* However it is paid, a holder is paid once: a run paid to wallets is not paid on chain
\* as well (distribution.go:426-429).
PaidOnce == \A x \in Payees : OnChain(x) + ByWallet(x) <= 1

\* A holder's row says paid only of a payment that went out, whoever found it: the first
\* attempt, a later one, or the watcher.
PaidWasPaid == \A x \in Payees : pay[x].st = "paid" => OnChain(x) > 0 \/ WentTo(x) # {}

\* The rows of a payout say of each wallet what its own allocation did, and a complete
\* payout has heard of every wallet on its list.
RowsTrue ==
    \A p \in Payouts : \A x \in Payees :
        LET row == payout[p].rows[x] IN
        /\ row.st = "collected" => service[payout[p].ref].claim[x] = "claimed"
        /\ row.st = "returned"  => service[payout[p].ref].claim[x] = "returned"
        /\ row.st = "paid"      => service[payout[p].ref].claim[x] # "none"
        /\ payout[p].st = "complete" => row.st \in {"none", "left_out", "collected", "returned"}

\* The ledger books no payment and no return that did not happen, and none twice.
BooksTrue ==
    \A x \in Payees : /\ ledger[x] <= OnChain(x) + Cardinality(WentTo(x))
                      /\ returns[x] <= Cardinality(Returned(x))

\* The shares of a run, with what is withheld, never exceed its pool, also when the
\* register changes between two attempts at its snapshot.
PoolCovers == MapThenSumSet(LAMBDA x : pay[x].gross, Payees) <= Pool
=============================================================================
