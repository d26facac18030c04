---------------------------- MODULE EscrowClose ----------------------------
(***************************************************************************)
(* The subscription escrow of one offering on the USDX rail: subscriptions *)
(* paid into the covenant, the close that delivers their tokens, and the   *)
(* three kinds of transaction (release, cancel, refund) that spend their   *)
(* coins.                                                                   *)
(*                                                                          *)
(* Two goroutines share the database.  A handler of the issuer, or the     *)
(* watcher when it heals or refunds, holds the offering's lock             *)
(* (LockIssuance): `pc` is the step that holder has reached and "idle" is  *)
(* the free lock.  The watcher's deposit pass takes no lock: `seen` is the *)
(* list of subscriptions it read as 'created' and found paid, and has not  *)
(* credited yet.  The chain and the policy server move on their own.       *)
(***************************************************************************)
EXTENDS Integers, FiniteSetsExt

CONSTANTS
    Subs,          \* subscriptions of the offering, one escrow address each
    Investors,     \* investors who subscribe
    Coins,         \* payments that may reach an escrow address
    Investor,      \* the investor a subscription belongs to
    Owner,         \* the subscription whose address a coin pays
    Atoms,         \* the amount of a coin
    Order,         \* the order of created_at, in which a close takes subscriptions
    Pay,           \* pay_amount, the price of a subscription
    Minimum,       \* MINIMUM of the terms, the least a release pays the issuer
    EscrowFee,     \* the platform's escrow fee for one subscription
    FeeCap,        \* FEE_CAP of the terms, what one coin may keep back
    Floors,        \* network fees per coin the node's floor may ask for
    OutsideFrom,   \* clock from which coins may be returned without the platform
    LastClock,     \* bound on the time a run covers
    MaxCrashes,    \* bound on restarts of the process
    MaxReorgs,     \* bound on deposits a reorganisation undoes
    MaxEvictions,  \* bound on accepted transactions the chain drops again
    MaxLost        \* bound on policy-server transfers whose answer is lost

ASSUME EscrowAssumption ==
    /\ IsFiniteSet(Subs) /\ IsFiniteSet(Coins)
    /\ Investor \in [Subs -> Investors]
    /\ Owner \in [Coins -> Subs]
    /\ Atoms \in [Coins -> Nat \ {0}]
    /\ Order \in [Subs -> Nat] /\ \A x, y \in Subs : Order[x] = Order[y] => x = y
    /\ Pay \in [Subs -> Nat \ {0}]
    /\ Minimum \in Nat /\ EscrowFee \in Nat /\ FeeCap \in Nat
    /\ Floors \subseteq Nat /\ Floors # {}
    /\ OutsideFrom \in 0..3 /\ LastClock \in 0..3
    /\ MaxCrashes \in Nat /\ MaxReorgs \in Nat /\ MaxEvictions \in Nat /\ MaxLost \in Nat

VARIABLES
    clock,    \* 0 open, 1 CLOSE reached, 2 too near DEADLINE to close, 3 DEADLINE reached
    paid,     \* coins confirmed on chain at an escrow address
    txs,      \* transactions over escrow coins the network has accepted
    floor,    \* the network fee per coin the node now asks for
    tokens,   \* how many times a subscription's tokens were really transferred
    balance,  \* the deliveries an investor's balance at the policy server shows
    sub,      \* Subscription.state ("none": no row)
    st,       \* Settlement.state ("none": no row)
    dtx,      \* Settlement.delivery_txid is set
    ledger,   \* release and refund rows of the ledger: the transaction and the subscription
    spends,   \* escrow_spends rows that are built, broadcasting or broadcast
    seen,     \* the deposit pass: paid subscriptions still to credit
    pc,       \* where the holder of the offering's lock is
    actor,    \* who holds the lock
    work,     \* the subscriptions the holder's operation is over
    todo,     \* those of them it has not handled yet
    who,      \* the subscriptions its current step is over
    failed,   \* failedOnce of closeCovenant
    cur,      \* the transaction being broadcast
    named,    \* history: delivered subscriptions the issuer asked to cancel by name
    budget    \* faults the environment may still inject

policy == <<tokens, balance>>
chain == <<clock, paid, txs, floor>>
rows  == <<sub, st, dtx, ledger, spends>>
job   == <<pc, actor, work, todo, who, failed, cur>>
vars  == <<chain, policy, rows, seen, job, named, budget>>

Kinds     == {"release", "cancel", "refund"}
Txs       == [kind : Kinds \cup {"outside", "none"}, coins : SUBSET Coins, rate : Floors \cup {0}]
NoTx      == [kind |-> "none", coins |-> {}, rate |-> 0]
Spends    == [tx : Txs, subs : SUBSET Subs, state : {"built", "broadcasting", "broadcast"}]
SubStates == {"none", "created", "in_escrow", "settled", "refunded"}
StStates  == {"none", "pending", "delivering", "awaiting_release", "delivery_failed",
              "awaiting_cancel", "settled", "refunded"}
Steps     == {"idle", "deliver", "transfer", "record", "stamp", "release", "cancel", "mark",
              "refund", "send", "sent", "apply"}

-----------------------------------------------------------------------------
(* What the code reads before it acts.                                      *)

SpentCoins == UNION {t.coins : t \in txs}

\* liveEscrowCoins: the unspent coins at the escrow addresses of S.
Live       == paid \ SpentCoins
CoinsOf(S) == {c \in Live : Owner[c] \in S}
PaidBy(s)  == MapThenSumSet(LAMBDA c : Atoms[c], CoinsOf({s}))

\* Mutated: delivered and waiting for the release does not count.
DeliveringOnly(s) == st[s] \in {"delivering", "settled"}

\* escrowDeliveredOrDelivering: the money of s is not the watcher's to refund.
DeliveredOrDelivering(s) ==
    \/ st[s] \in {"delivering", "awaiting_release", "settled"}
    \/ dtx[s] /\ st[s] # "refunded"

\* Mutated: a spend sent and not yet seen accepted holds nothing.
HoldersAccepted(kind) == {sp \in spends : sp.state = "broadcast"}

\* heldCoins: the spends whose coins a new spend of this kind must leave alone.
\* A built spend of the same kind is superseded instead, and an unsigned cancel
\* does not hold a coin against a refund.
Holders(kind) ==
    {sp \in spends : \/ sp.state # "built"
                     \/ /\ sp.tx.kind # kind
                        /\ ~(kind = "refund" /\ sp.tx.kind = "cancel")}
Held(kind) == UNION {sp.tx.coins : sp \in Holders(kind)}

\* buildReleaseSpend: what a release over S would leave the issuer, each
\* subscriber's excess, the escrow fee and the network fee taken off.
Excess(s)   == IF PaidBy(s) > Pay[s] THEN PaidBy(s) - Pay[s] ELSE 0
ToIssuer(S) == MapThenSumSet(LAMBDA c : Atoms[c] - floor, CoinsOf(S))
               - MapThenSumSet(LAMBDA s : Excess(s) + EscrowFee, S)

Releasable(S) ==
    /\ CoinsOf(S) # {}
    /\ CoinsOf(S) \cap Held("release") = {}
    /\ ToIssuer(S) >= Minimum

\* buildReturnSpend: every coin of S goes back, less its share of the fee.
Returnable(kind, S) ==
    /\ CoinsOf(S) # {}
    /\ CoinsOf(S) \cap Held(kind) = {}
    /\ floor <= FeeCap
    /\ \A c \in CoinsOf(S) : Atoms[c] > floor

\* InsertEscrowSpend, then supersedeBuilt: the new spend replaces the unsigned
\* one of its kind.  A superseded or failed row is never read again, so it is
\* dropped here.
Unsigned(kind) == {sp \in spends : sp.state = "built" /\ sp.tx.kind = kind}
NewSpend(kind, S) ==
    [tx |-> [kind |-> kind, coins |-> CoinsOf(S), rate |-> floor], subs |-> S, state |-> "built"]
Insert(kind, S) == (spends \ Unsigned(kind)) \cup {NewSpend(kind, S)}

\* currentOrNewSpend: a live spend of the kind that covers exactly S.
Current(kind, S) == \E sp \in spends : sp.tx.kind = kind /\ sp.subs = S

\* UpdateEscrowSpendFields and TransitionEscrowSpend on the spend of t.
Without(t)     == {sp \in spends : sp.tx # t}
Moved(t, to)   == Without(t) \cup {[sp EXCEPT !.state = to] : sp \in spends \ Without(t)}

\* escrowDeliveryLanded: the investor holds every token delivered or being
\* delivered to them under this offering, s included.
SubsOf(i)     == {s \in Subs : Investor[s] = i}
\* Mutated: the balance need only cover this delivery.
LandedAlone(s) == balance[Investor[s]] >= 1
Owed(s)       == Cardinality({x \in SubsOf(Investor[s]) : x = s \/ dtx[x] \/ st[x] = "delivering"})
Landed(s)     == balance[Investor[s]] >= Owed(s)

-----------------------------------------------------------------------------
Init ==
    /\ clock = 0 /\ paid = {} /\ txs = {} /\ floor \in Floors
    /\ tokens = [s \in Subs |-> 0] /\ balance = [i \in Investors |-> 0]
    /\ sub = [s \in Subs |-> "none"] /\ st = [s \in Subs |-> "none"]
    /\ dtx = [s \in Subs |-> FALSE] /\ ledger = {} /\ spends = {}
    /\ seen = {}
    /\ pc = "idle" /\ actor = "nobody" /\ work = {} /\ todo = {} /\ who = {}
    /\ failed = FALSE /\ cur = NoTx
    /\ named = {}
    /\ budget = [crash |-> MaxCrashes, reorg |-> MaxReorgs, evict |-> MaxEvictions, lost |-> MaxLost]

Free == /\ pc' = "idle" /\ actor' = "nobody" /\ work' = {} /\ todo' = {} /\ who' = {}
        /\ failed' = FALSE /\ cur' = NoTx

Inject(fault) == budget[fault] > 0 /\ budget' = [budget EXCEPT ![fault] = @ - 1]

(* The subscriber and the chain.                                            *)

\* handleSubscribe, usdx: refused from the close on.
Subscribe(s) ==
    /\ clock = 0 /\ sub[s] = "none"
    /\ \A x \in Subs : Order[x] < Order[s] => sub[x] # "none"
    /\ sub' = [sub EXCEPT ![s] = "created"]
    /\ UNCHANGED <<chain, policy, st, dtx, ledger, spends, seen, job, named, budget>>

Deposit(c) ==
    /\ sub[Owner[c]] # "none" /\ c \notin paid
    /\ paid' = paid \cup {c}
    /\ UNCHANGED <<clock, txs, floor, policy, rows, seen, job, named, budget>>

\* A day's margin before the deadline outlasts any one close.
Advance ==
    /\ clock < LastClock
    /\ clock = 2 => actor # "issuer"
    /\ clock' = clock + 1
    /\ UNCHANGED <<paid, txs, floor, policy, rows, seen, job, named, budget>>

\* The least fee the node takes goes up: a spend built before may be refused now.
FloorRises ==
    /\ floor' \in Floors /\ floor' > floor
    /\ UNCHANGED <<clock, paid, txs, policy, rows, seen, job, named, budget>>

\* The issuer's own cancel, or anybody's keyless refund from the deadline.
OutsideReturn(c) ==
    /\ clock >= OutsideFrom /\ c \in Live
    /\ txs' = txs \cup {[kind |-> "outside", coins |-> {c}, rate |-> 0]}
    /\ UNCHANGED <<clock, paid, floor, policy, rows, seen, job, named, budget>>

DepositReorg(c) ==
    /\ Inject("reorg") /\ c \in Live
    /\ paid' = paid \ {c}
    /\ UNCHANGED <<clock, txs, floor, policy, rows, seen, job, named>>

Evict(t) ==
    /\ Inject("evict") /\ t.kind # "outside"
    /\ txs' = txs \ {t}
    /\ UNCHANGED <<clock, paid, floor, policy, rows, seen, job, named>>

-----------------------------------------------------------------------------
(* The watcher's deposit pass, which takes no lock.                         *)

\* Mutated: the sufficiency gate is gone.
WatchScanAny ==
    /\ seen = {} /\ actor # "watcher"
    /\ seen' = {s \in Subs : sub[s] = "created"}
    /\ seen' # {}
    /\ UNCHANGED <<chain, policy, rows, job, named, budget>>

\* SubscriptionsByState('created') and the scan of the UTXO set.
WatchScan ==
    /\ seen = {} /\ actor # "watcher"
    /\ seen' = {s \in Subs : sub[s] = "created" /\ CoinsOf({s}) # {} /\ PaidBy(s) >= Pay[s]}
    /\ seen' # {}
    /\ UNCHANGED <<chain, policy, rows, job, named, budget>>

\* creditSubscription writes the state whatever it has become since the scan.
Credit(s) ==
    /\ s \in seen
    /\ seen' = seen \ {s}
    /\ sub' = [sub EXCEPT ![s] = "in_escrow"]
    /\ UNCHANGED <<chain, policy, st, dtx, ledger, spends, job, named, budget>>

-----------------------------------------------------------------------------
(* The close: handleClose, prepareEscrowClose and closeCovenant.            *)

InEscrow == {s \in Subs : sub[s] = "in_escrow"}

Close ==
    LET toRelease == {s \in InEscrow : st[s] \notin {"delivery_failed", "awaiting_cancel", "refunded"}}
    IN  /\ pc = "idle" /\ clock = 1 /\ InEscrow # {}
        /\ toRelease # {} => Releasable(toRelease)
        /\ pc' = "deliver" /\ actor' = "issuer"
        /\ work' = InEscrow /\ todo' = InEscrow
        /\ UNCHANGED <<chain, policy, rows, seen, who, failed, cur, named, budget>>

\* Mutated: what this close failed to deliver is counted too.
MayDeliverCountingFailed ==
    failed => Releasable(todo \cup {s \in work \ todo : st[s] \in {"awaiting_release", "delivery_failed"}})

\* After a failed delivery the rest is delivered only while it can be released.
MayDeliver ==
    failed => Releasable(todo \cup {s \in work \ todo : st[s] = "awaiting_release"})

\* closeCovenant takes the subscriptions in the order they were created.
First(s) == s \in todo /\ \A x \in todo : Order[s] <= Order[x]

\* deliverForEscrow on a subscription already decided: nothing is done again.
DeliverDecided(s) ==
    /\ pc = "deliver" /\ First(s) /\ MayDeliver
    /\ st[s] \in {"awaiting_release", "settled", "refunded", "delivery_failed", "awaiting_cancel"}
    /\ todo' = todo \ {s}
    /\ failed' = (failed \/ st[s] = "delivery_failed")
    /\ UNCHANGED <<chain, policy, rows, seen, pc, actor, work, who, cur, named, budget>>

\* Settlements deliverForEscrow starts a delivery for.  Mutated: one a
\* stop interrupted, too.
UndecidedOrDelivering == {"none", "pending", "delivering"}
Undecided             == {"none", "pending"}

\* The intent is written before the transfer.
DeliverBegin(s) ==
    /\ pc = "deliver" /\ First(s) /\ MayDeliver
    /\ st[s] \in Undecided
    /\ IF dtx[s]
       THEN pc' = "stamp" /\ UNCHANGED st
       ELSE pc' = "transfer" /\ st' = [st EXCEPT ![s] = "delivering"]
    /\ who' = {s}
    /\ UNCHANGED <<chain, policy, sub, dtx, ledger, spends, seen, actor, work, todo, failed, cur, named, budget>>

\* A delivery a stop interrupted: recorded already, visible on the balance, or
\* ambiguous (the balance may also be unreadable) and left delivering.
DeliverResume(s) ==
    /\ pc = "deliver" /\ First(s) /\ MayDeliver
    /\ st[s] = "delivering"
    /\ \/ /\ dtx[s] \/ Landed(s)
          /\ dtx' = [dtx EXCEPT ![s] = TRUE]
          /\ pc' = "stamp" /\ who' = {s} /\ UNCHANGED todo
       \/ /\ ~dtx[s]
          /\ todo' = todo \ {s}
          /\ UNCHANGED <<dtx, pc, who>>
    /\ UNCHANGED <<chain, policy, sub, st, ledger, spends, seen, actor, work, failed, cur, named, budget>>

Transferred(s) ==
    /\ tokens' = [tokens EXCEPT ![s] = @ + 1]
    /\ balance' = [balance EXCEPT ![Investor[s]] = @ + 1]

\* deliverFromEscrow: the policy server transfers the tokens and answers.
TransferDone(s) ==
    /\ pc = "transfer" /\ who = {s}
    /\ Transferred(s)
    /\ pc' = "record"
    /\ UNCHANGED <<chain, rows, seen, actor, work, todo, who, failed, cur, named, budget>>

TransferFailedWith(s) ==
    /\ st' = [st EXCEPT ![s] = "delivery_failed"]
    /\ pc' = "deliver" /\ todo' = todo \ {s} /\ who' = {} /\ failed' = TRUE

TransferRefused(s) ==
    /\ pc = "transfer" /\ who = {s}
    /\ TransferFailedWith(s)
    /\ UNCHANGED <<chain, policy, sub, dtx, ledger, spends, seen, actor, work, cur, named, budget>>

\* The transfer went out and its answer did not come back: an error like any other.
TransferLost(s) ==
    /\ pc = "transfer" /\ who = {s} /\ Inject("lost")
    /\ Transferred(s)
    /\ TransferFailedWith(s)
    /\ UNCHANGED <<chain, sub, dtx, ledger, spends, seen, actor, work, cur, named>>

DeliverRecord(s) ==
    /\ pc = "record" /\ who = {s}
    /\ dtx' = [dtx EXCEPT ![s] = TRUE]
    /\ pc' = "stamp"
    /\ UNCHANGED <<chain, policy, sub, st, ledger, spends, seen, actor, work, todo, who, failed, cur, named, budget>>

DeliverStamp(s) ==
    /\ pc = "stamp" /\ who = {s}
    /\ st' = [st EXCEPT ![s] = "awaiting_release"]
    /\ pc' = "deliver" /\ todo' = todo \ {s} /\ who' = {}
    /\ UNCHANGED <<chain, policy, sub, dtx, ledger, spends, seen, actor, work, failed, cur, named, budget>>

\* Every subscription is handled, or the dry run refuses (or cannot be made).
DeliverEnd ==
    /\ pc = "deliver" /\ (todo = {} \/ failed)
    /\ pc' = "release" /\ todo' = {}
    /\ UNCHANGED <<chain, policy, rows, seen, actor, work, who, failed, cur, named, budget>>

\* The release over what was delivered; an error of the node leaves it unbuilt.
CloseRelease ==
    LET deliver == {s \in work : st[s] = "awaiting_release"}
    IN  /\ pc = "release"
        /\ \/ /\ deliver # {} /\ ~Current("release", deliver) /\ Releasable(deliver)
              /\ spends' = Insert("release", deliver)
           \/ UNCHANGED spends
        /\ pc' = "cancel"
        /\ UNCHANGED <<chain, policy, sub, st, dtx, ledger, seen, actor, work, todo, who, failed, cur, named, budget>>

\* The cancel over what could not be delivered.
CloseCancel ==
    LET undelivered == {s \in work : st[s] \in {"delivery_failed", "awaiting_cancel"}}
    IN  /\ pc = "cancel"
        /\ \/ /\ undelivered # {}
              /\ \/ Current("cancel", undelivered) /\ UNCHANGED spends
                 \/ /\ ~Current("cancel", undelivered) /\ Returnable("cancel", undelivered)
                    /\ spends' = Insert("cancel", undelivered)
              /\ pc' = "mark" /\ who' = undelivered
              /\ UNCHANGED <<actor, work, todo, failed, cur>>
           \/ /\ undelivered = {} \/ ~Current("cancel", undelivered)
              /\ Free /\ UNCHANGED spends
        /\ UNCHANGED <<chain, policy, sub, st, dtx, ledger, seen, named, budget>>

-----------------------------------------------------------------------------
(* handleEscrowCancel, with the subscriptions the issuer names (none: all). *)

\* Mutated: a delivered subscription need not be named.
CancellableUnnamed(s, names) ==
    /\ sub[s] \in {"created", "in_escrow"}
    /\ names # {} => s \in names
    /\ st[s] # "delivering"

Cancellable(s, names) ==
    /\ sub[s] \in {"created", "in_escrow"}
    /\ names # {} => s \in names
    /\ DeliveredOrDelivering(s) => s \in names /\ st[s] # "delivering"

CancelRequest(names) ==
    LET S == {s \in Subs : Cancellable(s, names)}
    IN  /\ pc = "idle"
        /\ Returnable("cancel", S)
        /\ spends' = Insert("cancel", S)
        /\ named' = named \cup {s \in S \cap names : DeliveredOrDelivering(s)}
        /\ pc' = "mark" /\ actor' = "issuer" /\ who' = S
        /\ UNCHANGED <<chain, policy, sub, st, dtx, ledger, seen, work, todo, failed, cur, budget>>

MarkCancel ==
    /\ pc = "mark"
    /\ st' = [s \in Subs |-> IF s \in who THEN "awaiting_cancel" ELSE st[s]]
    /\ Free
    /\ UNCHANGED <<chain, policy, sub, dtx, ledger, spends, seen, named, budget>>

-----------------------------------------------------------------------------
(* Signing, healing and the refund from the deadline.                       *)

BeginSend(t, by) ==
    /\ pc' = "send" /\ actor' = by /\ cur' = t
    /\ UNCHANGED <<work, todo, who, failed>>

\* handleEscrowSpendSign on a built release or cancel: the signed bytes and the
\* intent are written before the broadcast.
Sign(sp) ==
    /\ pc = "idle" /\ sp.state = "built"
    /\ sp.tx.kind \in {"release", "cancel"}
    /\ sp.tx.kind = "release" => clock >= 1
    /\ spends' = Moved(sp.tx, "broadcasting")
    /\ BeginSend(sp.tx, "issuer")
    /\ UNCHANGED <<chain, policy, sub, st, dtx, ledger, seen, named, budget>>

\* handleEscrowSpendSign on a spend already broadcasting.
SignAgain(sp) ==
    /\ pc = "idle" /\ sp.state = "broadcasting"
    /\ BeginSend(sp.tx, "issuer")
    /\ UNCHANGED <<chain, policy, rows, seen, named, budget>>

\* Mutated: what nobody signed is not sent again.
HealSigned(sp) ==
    /\ pc = "idle" /\ seen = {} /\ sp.state = "broadcasting" /\ sp.tx.kind # "refund"
    /\ BeginSend(sp.tx, "watcher")
    /\ UNCHANGED <<chain, policy, rows, seen, named, budget>>

\* healBroadcast, from the watcher's tick.
Heal(sp) ==
    /\ pc = "idle" /\ seen = {} /\ sp.state = "broadcasting"
    /\ BeginSend(sp.tx, "watcher")
    /\ UNCHANGED <<chain, policy, rows, seen, named, budget>>

\* refundAfterDeadline: the subscriptions with coins none of which is held, but
\* for an unsigned cancel; the delivered ones are the issuer's to release.
Blocking == {sp \in spends : sp.state # "built" \/ sp.tx.kind # "cancel"}
Due ==
    {s \in Subs : /\ ~(sub[s] \in {"created", "in_escrow"} /\ DeliveredOrDelivering(s))
                  /\ CoinsOf({s}) # {}
                  /\ \A sp \in Blocking : sp.tx.coins \cap CoinsOf({s}) = {}}

RefundBuild ==
    /\ pc = "idle" /\ seen = {} /\ clock = 3
    /\ Due # {} /\ Returnable("refund", Due)
    /\ spends' = Insert("refund", Due)
    /\ pc' = "refund" /\ actor' = "watcher" /\ cur' = NewSpend("refund", Due).tx
    /\ UNCHANGED <<chain, policy, sub, st, dtx, ledger, seen, work, todo, who, failed, named, budget>>

RefundArm ==
    /\ pc = "refund"
    /\ spends' = Moved(cur, "broadcasting") \ Unsigned("cancel")
    /\ pc' = "send"
    /\ UNCHANGED <<chain, policy, sub, st, dtx, ledger, seen, actor, work, todo, who, failed, cur, named, budget>>

-----------------------------------------------------------------------------
(* finishBroadcast and applyEscrowSpend.                                    *)

\* The node takes the transaction, or has it already.
SendAccepted ==
    /\ pc = "send"
    /\ cur \in txs \/ (cur.coins \subseteq Live /\ cur.rate >= floor)
    /\ txs' = txs \cup {cur}
    /\ pc' = "sent"
    /\ UNCHANGED <<clock, paid, floor, policy, rows, seen, actor, work, todo, who, failed, cur, named, budget>>

\* Another transaction took a coin: this one can never be mined.
SendGone ==
    /\ pc = "send" /\ cur \notin txs /\ ~(cur.coins \subseteq Live)
    /\ spends' = Without(cur)
    /\ Free
    /\ UNCHANGED <<chain, policy, sub, st, dtx, ledger, seen, named, budget>>

\* The node refuses the fee: a refund is set aside, a keyed spend goes back to
\* built.  Mutated: every spend goes back.
BackToBuilt(t) == Moved(t, "built")
AfterRefusal(t) == IF t.kind = "refund" THEN Without(t) ELSE Moved(t, "built")
SendRefused ==
    /\ pc = "send" /\ cur \notin txs /\ cur.coins \subseteq Live /\ cur.rate < floor
    /\ spends' = AfterRefusal(cur)
    /\ Free
    /\ UNCHANGED <<chain, policy, sub, st, dtx, ledger, seen, named, budget>>

\* Mutated: no answer is taken for an acceptance.
SendAssumed ==
    /\ pc = "send" /\ pc' = "sent"
    /\ UNCHANGED <<chain, policy, rows, seen, actor, work, todo, who, failed, cur, named, budget>>

\* The node cannot be reached, before or after it took the transaction.
SendUnanswered ==
    /\ pc = "send"
    /\ \/ UNCHANGED txs
       \/ cur.coins \subseteq Live /\ cur.rate >= floor /\ txs' = txs \cup {cur}
    /\ Free
    /\ UNCHANGED <<clock, paid, floor, policy, rows, seen, named, budget>>

\* TransitionEscrowSpend, the conditional update that lets the books be applied once.
MoveToBroadcast ==
    /\ pc = "sent"
    /\ spends' = Moved(cur, "broadcast")
    /\ pc' = "apply" /\ todo' = {Owner[c] : c \in cur.coins}
    /\ UNCHANGED <<chain, policy, sub, st, dtx, ledger, seen, actor, work, who, failed, cur, named, budget>>

\* applyEscrowSpend, one subscription at a time.  Mutated: the state name of the
\* rails without a covenant.
OutcomeElsewhere == IF cur.kind = "release" THEN "released" ELSE "refunded"
Outcome == IF cur.kind = "release" THEN "settled" ELSE "refunded"
Apply(s) ==
    /\ pc = "apply" /\ s \in todo
    /\ todo' = todo \ {s}
    /\ IF cur.kind = "release" \/ sub[s] \notin {"settled", "refunded"}
       THEN /\ st' = [st EXCEPT ![s] = Outcome]
            /\ sub' = [sub EXCEPT ![s] = Outcome]
       ELSE /\ st' = [st EXCEPT ![s] = IF @ = "none" THEN "pending" ELSE @]
            /\ UNCHANGED sub
    /\ ledger' = ledger \cup {[tx |-> cur, sub |-> s]}
    /\ UNCHANGED <<chain, policy, dtx, spends, seen, pc, actor, work, who, failed, cur, named, budget>>

\* Mutated: the loop may end early.
ApplyCutShort ==
    /\ pc = "apply"
    /\ Free
    /\ UNCHANGED <<chain, policy, rows, seen, named, budget>>

ApplyDone ==
    /\ pc = "apply" /\ todo = {}
    /\ Free
    /\ UNCHANGED <<chain, policy, rows, seen, named, budget>>

\* The process stops and starts again: only the database survives.
Crash ==
    /\ Inject("crash")
    /\ Free /\ seen' = {}
    /\ UNCHANGED <<chain, policy, rows, named>>

-----------------------------------------------------------------------------
Environment ==
    \/ \E s \in Subs : Subscribe(s)
    \/ \E c \in Coins : Deposit(c) \/ OutsideReturn(c) \/ DepositReorg(c)
    \/ \E t \in txs : Evict(t)
    \/ Advance \/ FloorRises \/ Crash

DepositPass == WatchScan \/ \E s \in Subs : Credit(s)

Deliver(s) ==
    \/ DeliverDecided(s) \/ DeliverBegin(s) \/ DeliverResume(s)
    \/ TransferDone(s) \/ TransferRefused(s) \/ TransferLost(s)
    \/ DeliverRecord(s) \/ DeliverStamp(s)

SendAnswered == SendAccepted \/ SendGone \/ SendRefused

\* The next step of whoever holds the lock.
HolderStep ==
    \/ \E s \in Subs : Deliver(s) \/ Apply(s)
    \/ DeliverEnd \/ CloseRelease \/ CloseCancel \/ MarkCancel
    \/ RefundArm \/ SendAnswered \/ SendUnanswered \/ MoveToBroadcast \/ ApplyDone

Issuer ==
    \/ Close
    \/ \E names \in SUBSET Subs : CancelRequest(names)
    \/ \E sp \in spends : Sign(sp) \/ SignAgain(sp)

Next == Environment \/ DepositPass \/ HolderStep \/ Issuer \/ RefundBuild \/ \E sp \in spends : Heal(sp)

Spec == Init /\ [][Next]_vars

\* A handler that holds the lock runs on; the watcher ticks for ever and the
\* lock is a Go mutex, which starves no waiter; each tick heals every spend
\* left broadcasting, and a node that does not answer is reached in the end.
\* Nothing is assumed of the issuer or the subscribers.
Fairness ==
    /\ WF_vars(DepositPass)
    /\ WF_vars(HolderStep)
    /\ SF_vars(RefundBuild)
    /\ \A c \in Coins :
          /\ SF_vars(\E sp \in spends : c \in sp.tx.coins /\ Heal(sp))
          /\ SF_vars(c \in cur.coins /\ SendAnswered)

FairSpec == Spec /\ Fairness
-----------------------------------------------------------------------------
(* Properties.                                                              *)

\* Every variable stays in the range its column or its step can hold.
TypeOK ==
    /\ clock \in 0..3 /\ paid \subseteq Coins /\ txs \subseteq Txs /\ floor \in Floors
    /\ tokens \in [Subs -> Nat] /\ balance \in [Investors -> Nat]
    /\ sub \in [Subs -> SubStates] /\ st \in [Subs -> StStates] /\ dtx \in [Subs -> BOOLEAN]
    /\ ledger \subseteq [tx : Txs, sub : Subs] /\ spends \subseteq Spends
    /\ seen \subseteq Subs
    /\ pc \in Steps /\ actor \in {"nobody", "issuer", "watcher"}
    /\ work \subseteq Subs /\ todo \subseteq Subs /\ who \subseteq Subs
    /\ failed \in BOOLEAN /\ cur \in Txs
    /\ named \subseteq Subs
    /\ budget \in [{"crash", "reorg", "evict", "lost"} -> Nat]

Taken(s, kinds) == \E t \in txs : t.kind \in kinds /\ s \in {Owner[c] : c \in t.coins}

\* The order of the close (escrow_close.go:11) keeps a subscriber from holding
\* neither the tokens nor the money: an investor has received at least as many
\* deliveries as the subscriptions of theirs this platform released.
InvestorWhole ==
    \A i \in Investors :
        Cardinality({s \in SubsOf(i) : Taken(s, {"release"})}) <= balance[i]

\* However often a close is repeated or interrupted, deliverForEscrow transfers
\* the tokens of a subscription at most once.
NoDoubleDelivery == \A s \in Subs : tokens[s] <= 1

\* No coin is in two spends that were sent to the node (heldCoins): a spend the
\* platform broadcasts is never broadcast over by another of its own.
SentOnce ==
    \A x, y \in spends :
        /\ x.state # "built" /\ y.state # "built"
        /\ x.tx.coins \cap y.tx.coins # {}
        => x = y

\* While nothing crashes and no transfer's answer is lost, the money of a delivered
\* subscription is in a cancel, signed or not, only if the issuer named it, and in a
\* refund only if it had already settled and the coin came late (handleEscrowCancel,
\* refundAfterDeadline).
DeliveredNotReturned ==
    \A sp \in spends : \A c \in sp.tx.coins :
        tokens[Owner[c]] > 0 =>
            /\ sp.tx.kind = "cancel" => Owner[c] \in named
            /\ sp.tx.kind = "refund" => sub[Owner[c]] \in {"settled", "refunded"}

\* While the chain has dropped nothing, the books say settled or refunded only of
\* a subscription whose coins a transaction of that kind really took, and every
\* ledger row names a transaction the network has (finishBroadcast, applyEscrowSpend).
BooksMatchChain ==
    budget.evict = MaxEvictions =>
        /\ \A s \in Subs : /\ sub[s] = "settled" => Taken(s, {"release"})
                           /\ sub[s] = "refunded" => Taken(s, {"cancel", "refund"})
        /\ \A row \in ledger : row.tx \in txs

\* Tokens leave the escrow enclave only for a subscription whose whole price is
\* at its escrow address at that moment.
DeliveredWasPaid ==
    [][\A s \in Subs : tokens'[s] > tokens[s] => PaidBy(s) >= Pay[s]]_vars

\* Nothing is delivered unless the release that would follow pays the issuer at
\* least the minimum (escrow_close.go:14): what is delivered and what this close
\* may still deliver can be released at the moment of every transfer.
GivenUp == {"delivery_failed", "awaiting_cancel", "refunded"}
DeliveryReleasable ==
    [][\A s \in Subs : tokens'[s] > tokens[s] =>
         Releasable({x \in work : (x \in todo /\ st[x] \notin GivenUp) \/ st[x] = "awaiting_release"})]_vars

\* Once the deadline has passed, every coin of a subscription not delivered
\* leaves escrow without anyone's help (watchEscrowSpends), if it is worth more
\* than the covenant lets the fee take of it.
RefundedAtDeadline ==
    \A c \in Coins : Atoms[c] > FeeCap =>
        ((clock = 3 /\ c \in Live /\ ~DeliveredOrDelivering(Owner[c])) ~> (c \notin Live))

\* A spend left broadcasting does not stay so: it is sent until the node answers
\* (healBroadcast).
BroadcastResolves ==
    \A c \in Coins :
        LET Pending == \E sp \in spends : sp.state = "broadcasting" /\ c \in sp.tx.coins
        IN  Pending ~> ~Pending

\* What the platform's spend of a coin did reaches the ledger of its subscription
\* (watchEscrowSpends "heals lost writes").
BooksFollow ==
    \A c \in Coins :
        (\E t \in txs : t.kind \in Kinds /\ c \in t.coins)
            ~> (\E row \in ledger : c \in row.tx.coins /\ row.sub = Owner[c])
-----------------------------------------------------------------------------
(* The escrow promises what EscrowPromise says.                             *)

Promise == INSTANCE EscrowPromise WITH
    money <- [c \in Coins |->
                IF c \in Live THEN "escrow"
                ELSE IF c \notin paid THEN "absent"
                ELSE IF \E t \in txs : c \in t.coins /\ t.kind = "release" THEN "issuer"
                ELSE "subscriber"],
    delivered <- {s \in Subs : tokens[s] > 0},
    consent <- named

\* While nothing crashes and the chain takes nothing back, every step of the
\* platform, the issuer, the subscribers and the chain keeps the promise.
KeepsPromise == Promise!Spec
=============================================================================
