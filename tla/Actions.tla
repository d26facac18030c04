------------------------------- MODULE Actions -------------------------------
(***************************************************************************)
(* One corporate action of an asset, a dividend or a vote: the holders are *)
(* the coins a watcher found on the chain, a holder claims by the key of   *)
(* its coins, and a dividend is paid by the request that claims or by the  *)
(* money watcher, with no lock between the two.                            *)
(* Source: actions.go, actions_snapshot.go, m10store.go.                   *)
(***************************************************************************)
EXTENDS Naturals, FiniteSets, FiniteSetsExt

CONSTANTS
    Txs, Inputs, Outputs,  \* what the chain may see of the asset; a transaction without inputs issues
    Issuance,              \* the one the offering began with: the others are reissues
    Atoms, KeyOf,          \* of each coin: how much, and whose key
    Pool,                  \* div_total_atoms
    Rate,                  \* what is withheld from a holder, in percent
    ClaimIds               \* claims a holder may make; the id of the row each may leave

VARIABLES
    made,      \* transactions on the chain
    tip,       \* 0 before the record height, 1 from it, 2 from the close of the vote
    action,    \* the CorporateAction row
    rows,      \* SnapshotRow rows: coins
    snap,      \* the watcher that takes the snapshot
    claims,    \* ActionClaim rows
    asks,      \* the requests in flight, up to the insert
    payers,    \* payActionClaim, called by a request or by the money watcher
    due,       \* payDueActionClaims: the copies of rows it has yet to pay
    deposited, \* the issuer's deposit covers the pool and is confirmed
    sent,      \* sends of each claim out of the escrow wallet
    booked,    \* ledger rows of each claim, and of the deposit
    doubt,     \* history: claims whose payment the code cannot be sure of, and a snapshot it cannot
    budget

chain == <<made, tip, deposited>>
store == <<action, rows, claims>>
cvars == <<chain, store, snap, asks, payers, due, sent, booked, doubt>>

Cron   == "cron"
Callers == ClaimIds \cup {Cron}
Idle   == [pc |-> "idle"]
NoRow  == [st |-> "none", coins |-> {}, net |-> 0, txid |-> FALSE]

Spent(k) == budget[k] > 0 /\ budget' = [budget EXCEPT ![k] = @ - 1]

Issues   == {t \in Txs : Inputs[t] = {}}
Spender(coin)   == {t \in made : coin \in Inputs[t]}
Unspent(t)      == {c \in Outputs[t] : Spender(c) = {}}
Weight(coins)   == MapThenSumSet(LAMBDA c : Atoms[c], coins)

\* A coin is one output of one transaction; a transaction gives out what it takes in, but that an issue
\* takes nothing; withholdingFor keeps every rate within the whole.
ActionsAssumption ==
    /\ IsFiniteSet(Txs) /\ Issuance \in Issues
    /\ IsFiniteSet(ClaimIds) /\ {Cron, "pool", "snapshot"} \cap ClaimIds = {}
    /\ \A t \in Txs : /\ IsFiniteSet(Outputs[t]) /\ Inputs[t] \subseteq UNION {Outputs[u] : u \in Txs}
                      /\ \A c \in Outputs[t] : Atoms[c] \in Nat \ {0} /\ Rate[KeyOf[c]] \in 0..100
                      /\ t \notin Issues => Weight(Outputs[t]) = Weight(Inputs[t])
    /\ \A t, u \in Txs : t # u => Outputs[t] \cap Outputs[u] = {}

Init ==
    /\ made = {Issuance} /\ tip = 0 /\ deposited = FALSE
    /\ action = [st |-> "none", kind |-> "none", funded |-> FALSE, total |-> 0]
    /\ rows = {} /\ snap = Idle
    /\ claims = [r \in ClaimIds |-> NoRow] /\ asks = [r \in ClaimIds |-> Idle]
    /\ payers = [p \in Callers |-> Idle] /\ due = {}
    /\ sent = [r \in ClaimIds |-> 0] /\ booked = [b \in ClaimIds \cup {"pool"} |-> 0]
    /\ doubt = {}

-----------------------------------------------------------------------------
(* The chain and the issuer.                                               *)

\* What is reissued is, here, there before the action.
Reissue(t) ==
    /\ t \in Issues \ made /\ action.st = "none" /\ Spent("reissue")
    /\ made' = made \cup {t}
    /\ UNCHANGED <<tip, deposited, store, snap, asks, payers, due, sent, booked, doubt>>

Move(t) ==
    /\ t \notin made \cup Issues /\ Spent("move")
    /\ Inputs[t] \subseteq UNION {Unspent(u) : u \in made}
    /\ made' = made \cup {t}
    /\ UNCHANGED <<tip, deposited, store, snap, asks, payers, due, sent, booked, doubt>>

\* A vote ends one height after the record, a dividend never.
Height ==
    /\ tip < IF action.kind = "vote" THEN 2 ELSE 1
    /\ tip' = tip + 1
    /\ UNCHANGED <<made, deposited, store, snap, asks, payers, due, sent, booked, doubt, budget>>

Create(kind) ==
    /\ action.st = "none" /\ Spent(kind)
    /\ action' = [action EXCEPT !.st = "awaiting_snapshot", !.kind = kind]
    /\ UNCHANGED <<rows, claims, chain, snap, asks, payers, due, sent, booked, doubt>>

Deposit ==
    /\ action.kind = "dividend" /\ ~deposited /\ deposited' = TRUE
    /\ UNCHANGED <<made, tip, store, snap, asks, payers, due, sent, booked, doubt, budget>>

-----------------------------------------------------------------------------
(* The snapshot.                                                           *)

Watches == UNCHANGED <<chain, claims, asks, payers, due, sent, booked>>

\* Rows frozen before are summed, never walked again.
SnapBegin ==
    /\ snap = Idle /\ action.st = "awaiting_snapshot" /\ tip > 0
    /\ snap' = IF rows # {} THEN [pc |-> "sum"]
               ELSE [pc |-> "index", left |-> made \cap Issues, found |-> {}]
    /\ UNCHANGED <<action, rows, doubt, budget>> /\ Watches

ToWalk(found, failed) ==
    snap' = [pc |-> "walk", found |-> found, failed |-> failed,
             frontier |-> {Issuance}, seen |-> {}, walked |-> {}]

\* assetUTXOsViaIndex: the index lists issues only, and is asked of one at a time.
SnapIndex ==
    /\ snap.pc = "index"
    /\ IF snap.left = {} THEN ToWalk(snap.found, FALSE)
       ELSE \E t \in snap.left :
              snap' = [snap EXCEPT !.left = @ \ {t}, !.found = @ \cup Unspent(t)]
    /\ UNCHANGED <<action, rows, doubt, budget>> /\ Watches

SnapIndexFails ==
    /\ snap.pc = "index" /\ Spent("index") /\ ToWalk({}, TRUE)
    /\ UNCHANGED <<action, rows, doubt>> /\ Watches

\* assetUTXOsViaWalk: each spent output leads to the transaction that spent it, while others move.
SnapWalk ==
    /\ snap.pc = "walk" /\ snap.frontier # {}
    /\ \E t \in snap.frontier :
         LET next == UNION {Spender(c) : c \in Outputs[t]}
         IN  snap' = [snap EXCEPT !.seen = @ \cup {t}, !.walked = @ \cup Unspent(t),
                                  !.frontier = (@ \cup next) \ (snap.seen \cup {t})]
    /\ UNCHANGED <<action, rows, doubt, budget>> /\ Watches

\* assetUTXOs gives up only when neither source spoke.
Gather(coins, whole) ==
    /\ snap' = IF coins = {} THEN Idle ELSE [pc |-> "insert", coins |-> coins]
    /\ doubt' = IF whole \/ coins = {} THEN doubt ELSE doubt \cup {"snapshot"}

SnapWalked ==
    /\ snap.pc = "walk" /\ snap.frontier = {}
    /\ Gather(snap.found \cup snap.walked, ~snap.failed)
    /\ UNCHANGED <<action, rows, budget>> /\ Watches

SnapWalkFails ==
    /\ snap.pc = "walk" /\ Spent("index") /\ Gather(snap.found, FALSE)
    /\ UNCHANGED <<action, rows>> /\ Watches

SnapInsert ==
    /\ snap.pc = "insert"
    /\ IF snap.coins = {} THEN snap' = [pc |-> "sum"] /\ UNCHANGED rows
       ELSE \E c \in snap.coins :
              rows' = rows \cup {c} /\ snap' = [snap EXCEPT !.coins = @ \ {c}]
    /\ UNCHANGED <<action, doubt, budget>> /\ Watches

SnapSum ==
    /\ snap.pc = "sum" /\ snap' = Idle
    /\ action' = [action EXCEPT !.st = "snapshotted", !.total = Weight(rows)]
    /\ UNCHANGED <<rows, doubt, budget>> /\ Watches

-----------------------------------------------------------------------------
(* Claiming.                                                               *)

\* The proof is of one key, and binds the coins; the row of the action is a copy from here on.
Claim(r, coins) ==
    /\ asks[r] = Idle /\ claims[r] = NoRow
    /\ action.st = "snapshotted" /\ (action.kind = "vote" => tip < 2)
    /\ coins # {} /\ coins \subseteq rows /\ Cardinality({KeyOf[c] : c \in coins}) = 1
    /\ Spent("claim")
    /\ asks' = [asks EXCEPT ![r] = [pc |-> "insert", coins |-> coins, funded |-> action.funded]]
    /\ UNCHANGED <<chain, store, snap, payers, due, sent, booked, doubt>>

\* One claim for each coin of an action.
Claimed == UNION {claims[r].coins : r \in ClaimIds}

\* withholdingFor, on the claim's part of the pool.
Gross(coins) == IF action.kind = "vote" THEN 0 ELSE (Pool * Weight(coins)) \div action.total
Net(coins)   == LET rate == Rate[KeyOf[CHOOSE c \in coins : TRUE]]
                IN  Gross(coins) - (Gross(coins) * rate) \div 100

\* payActionClaim begins with a row as its caller read it.
Begins(p, r, row) ==
    /\ payers' = [payers EXCEPT ![p] = [pc |-> "begin", claim |-> r, was |-> row]]
    /\ doubt' = IF row # claims'[r] \/ \E o \in Callers \ {p} : payers[o] # Idle /\ payers[o].claim = r
                THEN doubt \cup {r} ELSE doubt

InsertActionClaim(r) ==
    /\ asks[r].pc = "insert" /\ asks' = [asks EXCEPT ![r] = [pc |-> "done"]]
    /\ LET ask == asks[r]
           row == [st    |-> IF action.kind = "dividend" /\ ~ask.funded THEN "awaiting_funding" ELSE "registered",
                   coins |-> ask.coins, net |-> Net(ask.coins), txid |-> FALSE]
       IN  IF ask.coins \cap Claimed # {} THEN UNCHANGED <<claims, payers, doubt>>
           ELSE /\ claims' = [claims EXCEPT ![r] = row]
                /\ IF action.kind = "dividend" /\ ask.funded THEN Begins(r, r, row)
                   ELSE UNCHANGED <<payers, doubt>>
    /\ UNCHANGED <<chain, action, rows, snap, due, sent, booked, budget>>

-----------------------------------------------------------------------------
(* Paying a claim.                                                         *)

At(p, pc)     == payers[p].pc = pc
Goes(p, pc)   == payers' = [payers EXCEPT ![p].pc = pc]
Leaves(p)     == payers' = [payers EXCEPT ![p] = Idle]
Writes(p, st) == claims' = [claims EXCEPT ![payers[p].claim].st = st]
Pays == UNCHANGED <<chain, action, rows, snap, asks, due>>

\* A payment begun and not recorded may have been sent.
ReconcilesFailed(row) == row.st = "failed" /\ ~row.txid
Reconciles(row) == row.st = "paying" /\ ~row.txid

Begin(p) ==
    /\ At(p, "begin")
    /\ LET row == payers[p].was
       IN  IF row.net = 0 THEN Writes(p, "no_payment") /\ Leaves(p)
           ELSE Goes(p, IF Reconciles(row) THEN "look" ELSE "intent") /\ UNCHANGED claims
    /\ UNCHANGED <<sent, booked, doubt, budget>> /\ Pays

Adopted(p) ==
    /\ claims' = [claims EXCEPT ![payers[p].claim].st = "paid", ![payers[p].claim].txid = TRUE]

\* escrowFindSend, which says no as well when the wallet cannot be read.
Look(p) ==
    /\ At(p, "look")
    /\ \/ sent[payers[p].claim] > 0 /\ Adopted(p) /\ Leaves(p) /\ UNCHANGED <<doubt, budget>>
       \/ sent[payers[p].claim] = 0 /\ Goes(p, "intent") /\ UNCHANGED <<claims, doubt, budget>>
       \/ /\ sent[payers[p].claim] > 0 /\ Spent("unread") /\ Goes(p, "intent")
          /\ doubt' = doubt \cup {payers[p].claim} /\ UNCHANGED claims
    /\ UNCHANGED <<sent, booked>> /\ Pays

Intent(p) ==
    /\ At(p, "intent") /\ Writes(p, "paying") /\ Goes(p, "send")
    /\ UNCHANGED <<sent, booked, doubt, budget>> /\ Pays

Send(p) ==
    /\ At(p, "send")
    /\ sent' = [sent EXCEPT ![payers[p].claim] = @ + 1] /\ Goes(p, "record")
    /\ UNCHANGED <<claims, booked, doubt, budget>> /\ Pays

\* The wallet refuses; or it sends, and its answer is lost.
SendFails(p) ==
    /\ At(p, "send") /\ Goes(p, "fail")
    /\ \/ Spent("refuse") /\ UNCHANGED <<sent, doubt>>
       \/ /\ Spent("lost") /\ sent' = [sent EXCEPT ![payers[p].claim] = @ + 1]
          /\ doubt' = doubt \cup {payers[p].claim}
    /\ UNCHANGED <<claims, booked>> /\ Pays

Fail(p) ==
    /\ At(p, "fail") /\ Writes(p, "failed") /\ Leaves(p)
    /\ UNCHANGED <<sent, booked, doubt, budget>> /\ Pays

Record(p) ==
    /\ At(p, "record") /\ Adopted(p) /\ Goes(p, "book")
    /\ UNCHANGED <<sent, booked, doubt, budget>> /\ Pays

Book(p) ==
    /\ At(p, "book") /\ booked' = [booked EXCEPT ![payers[p].claim] = @ + 1] /\ Leaves(p)
    /\ UNCHANGED <<claims, sent, doubt, budget>> /\ Pays

payActionClaim(p) ==
    Begin(p) \/ Look(p) \/ Intent(p) \/ Send(p) \/ SendFails(p) \/ Fail(p) \/ Record(p) \/ Book(p)

-----------------------------------------------------------------------------
(* The money watcher: the deposit, then what it made payable.              *)

Free == payers[Cron] = Idle /\ due = {}

Fund ==
    /\ Free /\ ~action.funded /\ deposited
    /\ action' = [action EXCEPT !.funded = TRUE]
    /\ payers' = [payers EXCEPT ![Cron] = [pc |-> "pool", claim |-> Cron]]
    /\ UNCHANGED <<chain, rows, claims, snap, asks, due, sent, booked, doubt, budget>>

BookPool ==
    /\ At(Cron, "pool") /\ booked' = [booked EXCEPT !["pool"] = @ + 1] /\ Leaves(Cron)
    /\ UNCHANGED <<claims, sent, doubt, budget>> /\ Pays

Payable(row) == row.st \in {"registered", "awaiting_funding", "paying", "failed"}

DueBegin ==
    /\ Free /\ action.funded
    /\ due' = {[claim |-> r, row |-> claims[r]] : r \in {q \in ClaimIds : Payable(claims[q])}}
    /\ due' # {}
    /\ UNCHANGED <<chain, store, snap, asks, payers, sent, booked, doubt, budget>>

DueNext ==
    /\ payers[Cron] = Idle
    /\ UNCHANGED <<chain, store, snap, asks, sent, booked, budget>>
    /\ \E d \in due : due' = due \ {d} /\ Begins(Cron, d.claim, d.row)

-----------------------------------------------------------------------------
\* Between two inserts a stop leaves rows that will pass for the whole of the snapshot.
Crash ==
    /\ Spent("crash")
    /\ snap' = Idle /\ asks' = [r \in ClaimIds |-> IF asks[r] = Idle THEN Idle ELSE [pc |-> "done"]]
    /\ payers' = [p \in Callers |-> Idle] /\ due' = {}
    /\ doubt' = IF snap.pc = "insert" /\ rows # {} /\ snap.coins # {} THEN doubt \cup {"snapshot"} ELSE doubt
    /\ UNCHANGED <<chain, store, sent, booked>>

Snapshotting == SnapBegin \/ SnapIndex \/ SnapIndexFails \/ SnapWalk \/ SnapWalked \/ SnapWalkFails
                \/ SnapInsert \/ SnapSum
Paying == /\ action.kind = "dividend"
          /\ Fund \/ BookPool \/ DueBegin \/ DueNext \/ payActionClaim(Cron)

Next ==
    \/ \E t \in Txs : Move(t) \/ Reissue(t)
    \/ Height \/ Deposit \/ (\E kind \in {"dividend", "vote"} : Create(kind))
    \/ Snapshotting \/ Paying \/ Crash
    \/ \E r \in ClaimIds : (\E coins \in SUBSET rows : Claim(r, coins)) \/ InsertActionClaim(r) \/ payActionClaim(r)

\* The money watcher ticks for ever.
Fairness == WF_<<cvars, budget>>(Paying)

-----------------------------------------------------------------------------
Supply == Weight(UNION {Outputs[t] : t \in made \cap Issues})

\* Claims are never sent more, one by one or together, than the part of the pool that their coins are
\* of all that was issued: coins move while the watcher walks them, the process stops at any step, one
\* coin is claimed twice, and payments are found again by their marker.  Left out: a snapshot the code
\* took from one source or half wrote, and a payment with a lost answer, an unreadable wallet or two payers.
NoMoreThanItsShare ==
    "snapshot" \notin doubt =>
        \A S \in SUBSET (ClaimIds \ doubt) :
            MapThenSumSet(LAMBDA r : sent[r] * claims[r].net, S) * Supply
                <= Pool * Weight(UNION {claims[r].coins : r \in S})

\* A claim of a dividend that was paid for, and is not paid.
Unpaid == deposited /\ \E r \in ClaimIds : claims[r].st \notin {"none", "paid", "no_payment"}
=============================================================================
