------------------------------- MODULE Market --------------------------------
(***************************************************************************)
(* The secondary market of one asset: transfers a holder signs in the      *)
(* browser, transfers wallets make without the platform and a poller finds *)
(* in the policy server's log, and the mints and burns of a receipt        *)
(* programme.  Every move is of one holder and one amount: the case in     *)
(* which the log cannot tell them apart.                                   *)
(* Source: secondary.go, walletpoll.go, dr.go.                             *)
(***************************************************************************)
EXTENDS Naturals, Sequences, FiniteSets, SequencesExt

CONSTANTS Transfers,   \* rows a browser may initiate
          Clicks,      \* requests to complete one that may be in flight together
          Mints,       \* request_ids of a receipt programme: mints,
          Redemptions  \*   and redemptions

VARIABLES
    transfers,  \* P2PTransfer rows of source "browser"
    captured,   \* txids of the rows of source "wallet"
    builds,     \* builds the policy server still holds
    log,        \* its log; a txid is a position in it
    booked,     \* txids of the ledger rows of kind p2p_transfer
    clicks,     \* the requests in flight
    cursor,     \* kv: the last line polled
    poll,       \* the poller
    drops,      \* DROp rows by request_id
    minted,     \* request_ids the policy server has reissued for
    dr,         \* the holder of drMu
    budget

rows  == <<transfers, captured, booked, cursor, drops>>
world == <<builds, log, minted>>

Requests == Mints \cup Redemptions
None     == 0
Nobody   == [pc |-> "idle"]
Browser  == {"awaiting_signature", "completing", "settled", "refused", "failed"}

Spent(k) == budget[k] > 0 /\ budget' = [budget EXCEPT ![k] = @ - 1]

Init ==
    /\ transfers = [t \in Transfers |-> [state |-> "none", txid |-> None]]
    /\ captured = {} /\ builds = {} /\ log = <<>> /\ booked = <<>> /\ cursor = 0 /\ minted = {}
    /\ clicks = [c \in Clicks |-> Nobody]
    /\ poll = Nobody /\ dr = Nobody
    /\ drops = [r \in Requests |-> [state |-> "none", txid |-> None]]

Moved(action, of) == Append(log, [action |-> action, of |-> of])

\* logFindMoved: the newest line of an action, or none.
InLog(action) == LET S == {i \in DOMAIN log : log[i].action = action}
                 IN  IF S = {} THEN None ELSE CHOOSE i \in S : \A j \in S : j <= i

\* The log, when it can be read.
Scanned(action, found) == \/ found = InLog(action) /\ UNCHANGED budget
                          \/ found = None /\ Spent("unread")

\* idx_p2p_txid: at most one row has a txid.
Claimed(txid) == txid \in captured \/ \E t \in Transfers : transfers[t].txid = txid
ClaimedByOther(txid, t) == txid \in captured \/ \E o \in Transfers \ {t} : transfers[o].txid = txid

-----------------------------------------------------------------------------
(* Transfers in the browser.                                               *)

Initiate(t) ==
    /\ transfers[t].state = "none"
    /\ transfers' = [transfers EXCEPT ![t].state = "awaiting_signature"]
    /\ builds' = builds \cup {t}
    /\ UNCHANGED <<captured, booked, cursor, drops, log, minted, clicks, poll, dr, budget>>

At(c, pc)    == clicks[c].pc = pc
Goes(c, pc)  == clicks' = [clicks EXCEPT ![c].pc = pc]
Leaves(c)    == clicks' = [clicks EXCEPT ![c] = Nobody]
Write(c, st) == transfers' = [transfers EXCEPT ![clicks[c].row].state = st]
StoresKept   == UNCHANGED <<captured, booked, cursor, drops, world, poll, dr>>

\* The row is read once; a settled or refused one is answered from it.
Read(c, t) ==
    /\ At(c, "idle") /\ Spent("click")
    /\ budget.overlap = 0 => \A o \in Clicks : At(o, "idle")
    /\ transfers[t].state \in Browser \ {"settled", "refused"}
    /\ clicks' = [clicks EXCEPT ![c] = [pc |-> "intend", row |-> t, txid |-> None]]
    /\ UNCHANGED <<rows, world, poll, dr>>

Intend(c) ==
    /\ At(c, "intend") /\ Write(c, "completing") /\ Goes(c, "call")
    /\ StoresKept /\ UNCHANGED budget

\* The policy server takes the build off its list whatever comes of it.
Consumes(c) == builds' = builds \ {clicks[c].row}

CallMoves(c) ==
    /\ At(c, "call") /\ clicks[c].row \in builds /\ Consumes(c)
    /\ log' = Moved("transfer", clicks[c].row)
    /\ \/ clicks' = [clicks EXCEPT ![c].pc = "moved", ![c].txid = Len(log')] /\ UNCHANGED budget
       \/ Spent("lost") /\ Goes(c, "unsure")
    /\ UNCHANGED <<rows, minted, poll, dr>>

CallRefused(c) ==
    /\ At(c, "call") /\ clicks[c].row \in builds /\ Consumes(c) /\ Goes(c, "refused")
    /\ UNCHANGED <<rows, log, minted, poll, dr, budget>>

CallFails(c) ==
    /\ At(c, "call") /\ Consumes(c) /\ Goes(c, "unsure")
    /\ UNCHANGED <<rows, log, minted, poll, dr, budget>>

\* recordP2PSettled: a write the index refuses is passed over.
Settled(c, txid) ==
    transfers' = IF ClaimedByOther(txid, clicks[c].row) THEN transfers
                 ELSE [transfers EXCEPT ![clicks[c].row] = [state |-> "settled", txid |-> txid]]

RecordMoved(c) ==
    /\ At(c, "moved") /\ Settled(c, clicks[c].txid) /\ Goes(c, "book")
    /\ StoresKept /\ UNCHANGED budget

Book(c) ==
    /\ At(c, "book") /\ booked' = Append(booked, clicks[c].txid) /\ Leaves(c)
    /\ UNCHANGED <<transfers, captured, cursor, drops, world, poll, dr, budget>>

RecordRefused(c) ==
    /\ At(c, "refused") /\ Write(c, "refused") /\ Leaves(c)
    /\ StoresKept /\ UNCHANGED budget

\* findTransferInLog and txidUnclaimed.
Reconcile(c) ==
    /\ At(c, "unsure")
    /\ \E found \in {None, InLog("transfer")} :
         /\ Scanned("transfer", found)
         /\ clicks' = [clicks EXCEPT ![c].txid = found,
                ![c].pc = IF found # None /\ ~ClaimedByOther(found, clicks[c].row)
                          THEN "found" ELSE "failing"]
    /\ UNCHANGED <<rows, world, poll, dr>>

RecordFound(c) ==
    /\ At(c, "found") /\ Settled(c, clicks[c].txid) /\ Leaves(c)
    /\ StoresKept /\ UNCHANGED budget

RecordFailed(c) ==
    /\ At(c, "failing") /\ Write(c, "failed") /\ Leaves(c)
    /\ StoresKept /\ UNCHANGED budget

-----------------------------------------------------------------------------
(* Transfers wallets make, and the poller that finds them.                 *)

WalletMoves ==
    /\ Spent("wallet") /\ log' = Moved("transfer", "wallet")
    /\ UNCHANGED <<rows, builds, minted, clicks, poll, dr>>

PollKeeps == UNCHANGED <<transfers, drops, world, clicks, dr, budget>>

PollBegin ==
    /\ poll.pc = "idle" /\ Len(log) > cursor
    /\ poll' = [pc |-> "line", at |-> cursor + 1, upto |-> Len(log)]
    /\ PollKeeps /\ UNCHANGED <<captured, booked, cursor>>

\* P2PBrowserExistsForMove: a row of the browser stands for the move.
OwnedSettled == \E t \in Transfers : transfers[t].state \in {"awaiting_signature", "settled"}
Owned == \E t \in Transfers : transfers[t].state \in {"awaiting_signature", "completing", "settled"}

\* captureWalletTransfer, up to its reads of the explorer.
PollLine ==
    /\ poll.pc = "line" /\ poll.at <= poll.upto
    /\ poll' = IF log[poll.at].action # "transfer" \/ Claimed(poll.at) \/ Owned
               THEN [poll EXCEPT !.at = @ + 1] ELSE [poll EXCEPT !.pc = "capture"]
    /\ PollKeeps /\ UNCHANGED <<captured, booked, cursor>>

PollCapture ==
    /\ poll.pc = "capture"
    /\ IF Claimed(poll.at)
       THEN poll' = [poll EXCEPT !.pc = "line", !.at = @ + 1] /\ UNCHANGED captured
       ELSE poll' = [poll EXCEPT !.pc = "book"] /\ captured' = captured \cup {poll.at}
    /\ PollKeeps /\ UNCHANGED <<booked, cursor>>

PollBook ==
    /\ poll.pc = "book" /\ booked' = Append(booked, poll.at)
    /\ poll' = [poll EXCEPT !.pc = "line", !.at = @ + 1]
    /\ PollKeeps /\ UNCHANGED <<captured, cursor>>

PollEnd ==
    /\ poll.pc = "line" /\ poll.at > poll.upto
    /\ cursor' = poll.upto /\ poll' = Nobody
    /\ PollKeeps /\ UNCHANGED <<captured, booked>>

-----------------------------------------------------------------------------
(* The receipt programme, one operation at a time under drMu.              *)

Op(r, st)      == drops' = [drops EXCEPT ![r].state = st]
OpDone(r, txid) == drops' = [drops EXCEPT ![r] = [state |-> "broadcast", txid |-> txid]]
DrKeeps        == UNCHANGED <<transfers, captured, booked, cursor, clicks, poll>>
DrGoes(pc)     == dr' = [dr EXCEPT !.pc = pc]

Mint(r) ==
    /\ dr.pc = "idle" /\ Spent("mint") /\ drops[r].state \in {"none", "pending", "failed"}
    /\ drops' = IF drops[r].state = "none" THEN [drops EXCEPT ![r].state = "pending"] ELSE drops
    /\ dr' = [pc |-> "reissue", req |-> r, txid |-> None]
    /\ DrKeeps /\ UNCHANGED world

\* mintRefusal, readSupply and the reissue; the policy server answers a request it knows with
\* what it did.
Reissue ==
    /\ dr.pc = "reissue"
    /\ \/ minted' = minted \cup {dr.req} /\ DrGoes("minted") /\ UNCHANGED budget
       \/ minted' = minted \cup {dr.req} /\ Spent("lost") /\ DrGoes("failing")
       \/ UNCHANGED <<minted, budget>> /\ DrGoes("failing")
    /\ DrKeeps /\ UNCHANGED <<drops, builds, log>>

MintRecord ==
    /\ dr.pc = "minted" /\ Op(dr.req, "broadcast") /\ dr' = Nobody
    /\ DrKeeps /\ UNCHANGED <<world, budget>>

\* An operation found past "pending" without a txid may have burned.
Redeem(r) ==
    /\ dr.pc = "idle" /\ Spent("redeem") /\ drops[r].state # "broadcast"
    /\ drops' = IF drops[r].state = "none" THEN [drops EXCEPT ![r].state = "pending"] ELSE drops
    /\ dr' = [pc |-> IF drops[r].state \in {"none", "pending"} THEN "build" ELSE "look",
              req |-> r, txid |-> None]
    /\ DrKeeps /\ UNCHANGED world

RedeemLook(from, missing) ==
    /\ dr.pc = from
    /\ \E found \in {None, InLog("burn")} :
         /\ Scanned("burn", found)
         /\ dr' = [dr EXCEPT !.txid = found, !.pc = IF found # None THEN "burned" ELSE missing]
    /\ DrKeeps /\ UNCHANGED <<drops, world>>

BuildFails ==
    /\ dr.pc = "build" /\ DrGoes("failing")
    /\ DrKeeps /\ UNCHANGED <<drops, world, budget>>

\* The intent is written before the burn is completed.
BurningUnwritten == "pending"
Burning == "burning"

BurnIntend ==
    /\ dr.pc = "build" /\ Op(dr.req, Burning) /\ DrGoes("burn")
    /\ DrKeeps /\ UNCHANGED <<world, budget>>

Burn ==
    /\ dr.pc = "burn"
    /\ \/ /\ log' = Moved("burn", dr.req)
          /\ \/ dr' = [dr EXCEPT !.pc = "burned", !.txid = Len(log')] /\ UNCHANGED budget
             \/ Spent("lost") /\ DrGoes("unsure")
       \/ DrGoes("unsure") /\ UNCHANGED <<log, budget>>
    /\ DrKeeps /\ UNCHANGED <<drops, builds, minted>>

BurnRecord ==
    /\ dr.pc = "burned" /\ OpDone(dr.req, dr.txid) /\ dr' = Nobody
    /\ DrKeeps /\ UNCHANGED <<world, budget>>

DrFails ==
    /\ dr.pc = "failing" /\ Op(dr.req, "failed") /\ dr' = Nobody
    /\ DrKeeps /\ UNCHANGED <<world, budget>>

-----------------------------------------------------------------------------
Crash ==
    /\ Spent("crash")
    /\ clicks' = [c \in Clicks |-> Nobody] /\ poll' = Nobody /\ dr' = Nobody
    /\ UNCHANGED <<rows, world>>

Complete(c) ==
    \/ \E t \in Transfers : Read(c, t)
    \/ Intend(c) \/ CallMoves(c) \/ CallRefused(c) \/ CallFails(c)
    \/ RecordMoved(c) \/ Book(c) \/ RecordRefused(c)
    \/ Reconcile(c) \/ RecordFound(c) \/ RecordFailed(c)

Poll == PollBegin \/ PollLine \/ PollCapture \/ PollBook \/ PollEnd

Receipts ==
    \/ \E r \in Mints : Mint(r)
    \/ \E r \in Redemptions : Redeem(r)
    \/ Reissue \/ MintRecord \/ BuildFails \/ BurnIntend \/ Burn \/ BurnRecord \/ DrFails
    \/ RedeemLook("look", "build") \/ RedeemLook("unsure", "failing")

Next ==
    \/ \E t \in Transfers : Initiate(t)
    \/ \E c \in Clicks : Complete(c)
    \/ WalletMoves \/ Poll \/ Receipts \/ Crash

-----------------------------------------------------------------------------
\* However completes, repeated clicks, the poller and restarts interleave, the ledger has at most
\* one row for a transfer (recordP2PSettled, captureWalletTransfer).
BookedOnce == IsInjective(booked)

\* A redemption burns at most once, though its answer is lost and its request retried
\* (handleDRRedeem: "reconciled from openampd's log, never double-burned").
BurnedOnce == \A i, j \in DOMAIN log :
    log[i].action = "burn" /\ log[j].action = "burn" /\ log[i].of = log[j].of => i = j
=============================================================================
