------------------------------- MODULE Deploy -------------------------------
(***************************************************************************)
(* Deployment: what a draft becomes when its issuer asks for the mint, by  *)
(* each of the three elections (serviced at the policy server, enforced by *)
(* the network, or a bearer asset minted through the node), and the        *)
(* watcher that mirrors the minted transaction from then on.               *)
(*                                                                          *)
(* A deploy holds the lock of its issuance from the look-up of its         *)
(* idempotency key to its answer.  The election is written outside it,     *)
(* by a row read earlier.                                                  *)
(***************************************************************************)
EXTENDS Integers, FiniteSets

CONSTANTS
    Issuances,   \* drafts of one account
    Terms,       \* the terms an issuer may submit; a draft's ticker goes with them
    Ticker,      \* the ticker of a draft with those terms
    Kinds,       \* the elections on offer: subset of {"serviced", "network", "bearer"}
    Requests,    \* deploys that may be in flight at once
    Coins,       \* coins of the node's escrow wallet
    Budgets      \* bounds on deploys asked, restarts, unanswered calls, and transactions entering and
                 \* leaving blocks: a behaviour keeps to one of them

ASSUME DeployAssumption ==
    /\ Kinds \subseteq {"serviced", "network", "bearer"}
    /\ Budgets \subseteq [{"ask", "crash", "lost", "block", "reorg"} -> Nat]

VARIABLES
    row,       \* the issuance: status, elected enforcement, terms, asset
    deploys,   \* deploy records of an issuance
    prep,      \* damp_prepares: the preparation of an issuance, or none
    req,       \* the deploys in flight
    prepared,  \* preparations the policy server made
    assets,    \* assets that exist; those of the policy server are listed by it
    held,      \* coins the node's wallet keeps locked
    sent,      \* recorded bearer mints the node has
    watch,     \* the watch row of an issuance, or none
    tick,      \* the ticks in flight: the periodic one and the one a deploy starts
    mined,     \* the issuance transactions in blocks of the active chain, anchored or not
    fork,      \* reorganisations so far: a block is named by the fork it was made on
    stopped,   \* restarts so far
    budget     \* what may still happen

store  == <<row, deploys, prep, watch>>
server == <<prepared, assets, held, sent>>
chain  == <<mined, fork>>
procs  == <<req, tick>>
vars   == <<store, server, procs, mined, fork, stopped, budget>>

None     == [asset |-> "none"]
Idle     == [pc |-> "idle"]
Ticks    == {"cron", "first"}
Unseen(a) == [asset |-> a, status |-> "broadcast", block |-> 0]

Spent(what) == budget[what] > 0 /\ budget' = [budget EXCEPT ![what] = @ - 1]

Init ==
    /\ row = [i \in Issuances |-> [status |-> "draft", kind |-> "none", terms |-> CHOOSE t \in Terms : TRUE, asset |-> None]]
    /\ deploys = [i \in Issuances |-> {}] /\ prep = [i \in Issuances |-> None]
    /\ req = [r \in Requests |-> Idle]
    /\ prepared = {} /\ assets = {} /\ held = {} /\ sent = {}
    /\ watch = [i \in Issuances |-> None]
    /\ tick = [k \in Ticks |-> Idle]
    /\ mined = {} /\ fork = 0
    /\ stopped = 0 /\ budget \in Budgets

--------------------------------------------------------------------------
(* The request, up to the lock.                                            *)

Move(r, pc) == req' = [req EXCEPT ![r].pc = pc]
End(r)      == req' = [req EXCEPT ![r] = Idle]

\* The row is read once and kept; everything the request does later goes by it.
Ask(r, i, kind, terms) ==
    /\ req[r] = Idle /\ Spent("ask")
    /\ req' = [req EXCEPT ![r] = [pc |-> "read", i |-> i, kind |-> kind, terms |-> terms,
                                  seen |-> row[i].status, asset |-> None]]
    /\ UNCHANGED <<store, server, tick, chain, stopped>>

\* The election is recorded on the draft even when the deploy is then refused.
Elect(r) ==
    /\ req[r].pc = "read" /\ Move(r, "elected")
    /\ row' = IF req[r].seen = "live" THEN row ELSE [row EXCEPT ![req[r].i].kind = req[r].kind]
    /\ UNCHANGED <<deploys, prep, watch, server, tick, chain, stopped, budget>>

\* The canonical terms select a bearer charter of their own; the other two kinds share theirs.
Idem(kind, terms) == <<kind = "bearer", terms>>
LockedNot(i) == FALSE                     \* mutant: two deploys of one issuance at once
Locked(i)  == \E r \in Requests : req[r].pc \notin {"idle", "read", "elected"} /\ req[r].i = i

\* Terms, documents, filing, attestation or setup fee are not in order; or a record answers.
Replayed(r) == \E d \in deploys[req[r].i] : d.idem = Idem(req[r].kind, req[r].terms)
Refuse(r)   ==
    /\ req[r].pc \in {"elected", "admitted", "preparing", "minting"} /\ End(r)
    /\ UNCHANGED <<store, server, tick, chain, stopped, budget>>

Admit(r) ==
    /\ req[r].pc = "elected" /\ ~Locked(req[r].i) /\ ~Replayed(r)
    /\ Move(r, "admitted")
    /\ UNCHANGED <<store, server, tick, chain, stopped, budget>>

\* The live assets the policy server lists; it knows nothing of the bearer assets.
Taken(ticker) == \E a \in assets : a.kind # "bearer" /\ Ticker[a.terms] = ticker

CheckTicker(r) ==
    /\ req[r].pc = "admitted" /\ ~Taken(Ticker[req[r].terms])
    /\ Move(r, CASE req[r].kind = "serviced" -> "minting"
                 [] req[r].kind = "network"  -> "preparing"
                 [] req[r].kind = "bearer"   -> "funding")
    /\ UNCHANGED <<store, server, tick, chain, stopped, budget>>

--------------------------------------------------------------------------
(* The three mints.                                                        *)

Minted(i, kind, terms, coin) ==
    [asset |-> Cardinality({a \in assets : a.i = i}) + 1, i |-> i, kind |-> kind, terms |-> terms, coin |-> coin]
Got(r, pc, a) == req' = [req EXCEPT ![r].pc = pc, ![r].asset = a]

MintServiced(r) ==
    /\ req[r].pc = "minting"
    /\ LET a == Minted(req[r].i, "serviced", req[r].terms, "none")
       IN  assets' = assets \cup {a} /\ Got(r, "minted", a)
    /\ UNCHANGED <<store, prepared, held, sent, tick, chain, stopped, budget>>

\* The policy server does not answer; it may have minted.
MintUnanswered(r) ==
    /\ req[r].pc = "minting" /\ Spent("lost") /\ End(r)
    /\ \/ assets' = assets \cup {Minted(req[r].i, "serviced", req[r].terms, "none")}
       \/ UNCHANGED assets
    /\ UNCHANGED <<store, prepared, held, sent, tick, chain, stopped>>

\* One preparation per issuance: a retry resumes it, whatever terms it now sends.
Prepare(r) ==
    /\ req[r].pc = "preparing" /\ prep[req[r].i] = None
    /\ LET p == [asset |-> Cardinality(prepared) + 1, i |-> req[r].i, terms |-> req[r].terms]
       IN  /\ prepared' = prepared \cup {p}
           /\ \/ Got(r, "prepared", p) /\ UNCHANGED budget
              \/ End(r) /\ Spent("lost")
    /\ UNCHANGED <<store, assets, held, sent, tick, chain, stopped>>

\* Recorded, and refused until the registrar's values come with another request.
PutPrepare(r) ==
    /\ req[r].pc = "prepared" /\ prep' = [prep EXCEPT ![req[r].i] = req[r].asset] /\ End(r)
    /\ UNCHANGED <<row, deploys, watch, server, tick, chain, stopped, budget>>

\* The policy server completes a preparation once, and says the same to whoever asks again.
Completed(p) ==
    LET done == {a \in assets : a.kind = "network" /\ a.coin = p.asset}
    IN  IF done = {} THEN Minted(p.i, "network", p.terms, p.asset) ELSE CHOOSE a \in done : TRUE

Complete(r) ==
    /\ req[r].pc = "preparing" /\ prep[req[r].i] # None
    /\ LET a == Completed(prep[req[r].i])
       IN  /\ assets' = assets \cup {a}
           /\ \/ Got(r, "minted", a) /\ UNCHANGED budget
              \/ End(r) /\ Spent("lost")
    /\ UNCHANGED <<store, prepared, held, sent, tick, chain, stopped>>

\* fundrawtransaction picks coins nobody holds and locks them.
Spendable == Coins \ (held \cup {a.coin : a \in sent})

Fund(r) ==
    /\ req[r].pc = "funding"
    /\ \E c \in Spendable :
        /\ held' = held \cup {c}
        /\ Got(r, "building", [asset |-> c, i |-> req[r].i, kind |-> "bearer", terms |-> req[r].terms, coin |-> c])
    /\ UNCHANGED <<store, prepared, assets, sent, tick, chain, stopped, budget>>
\* No coins, or no node.
FundFails(r) ==
    /\ req[r].pc = "funding" /\ End(r)
    /\ UNCHANGED <<store, server, tick, chain, stopped, budget>>

\* Derivation, signing or preflight fails: the coins are freed.
FreedNot(r) == held                                           \* mutant: the coins stay locked
Freed(r) == held \ {req[r].asset.coin}
BuildFails(r) ==
    /\ req[r].pc = "building" /\ held' = Freed(r) /\ End(r)
    /\ UNCHANGED <<store, prepared, assets, sent, tick, chain, stopped, budget>>

--------------------------------------------------------------------------
(* The record, the broadcast of a bearer mint, and the issuance going live. *)

Record(r) ==
    /\ req[r].pc \in {"minted", "building"}
    /\ deploys' = [deploys EXCEPT ![req[r].i] = @ \cup {[idem |-> Idem(req[r].kind, req[r].terms), asset |-> req[r].asset]}]
    /\ Move(r, IF req[r].kind = "bearer" THEN "sending" ELSE "recorded")
    /\ UNCHANGED <<row, prep, watch, server, tick, chain, stopped, budget>>

Accept(a) == sent' = sent \cup {a} /\ assets' = assets \cup {a} /\ held' = held
Kept(r)   == held

Send(r) ==
    /\ req[r].pc = "sending" /\ Move(r, "recorded") /\ Accept(req[r].asset)
    /\ UNCHANGED <<store, prepared, tick, chain, stopped, budget>>

\* No answer, and the node may have it: the coins stay locked for the operator to send it again.
SendFails(r) ==
    /\ req[r].pc = "sending" /\ Spent("lost") /\ End(r)
    /\ held' = Kept(r)
    /\ \/ sent' = sent \cup {req[r].asset} /\ assets' = assets \cup {req[r].asset}
       \/ UNCHANGED <<sent, assets>>
    /\ UNCHANGED <<store, prepared, tick, chain, stopped>>

SendAgain(d) ==
    /\ d.kind = "bearer" /\ d \notin sent
    /\ \A a \in sent : a.coin # d.coin
    /\ Accept(d)
    /\ UNCHANGED <<store, prepared, procs, chain, stopped, budget>>

\* A serviced deploy leaves the election as the row has it; the other two write theirs.
GoLive(r) ==
    /\ req[r].pc = "recorded" /\ Move(r, "live")
    /\ row' = [row EXCEPT ![req[r].i] =
                [status |-> "live", asset |-> req[r].asset, terms |-> req[r].terms,
                 kind |-> IF req[r].kind = "serviced" THEN @.kind ELSE req[r].kind]]
    /\ UNCHANGED <<deploys, prep, watch, server, tick, chain, stopped, budget>>

\* The transaction watched is the new one, wherever its issuance stood before.
OnDeployed(r) ==
    /\ req[r].pc = "live" /\ End(r)
    /\ prep' = IF req[r].kind = "network" THEN [prep EXCEPT ![req[r].i] = None] ELSE prep
    /\ watch' = [watch EXCEPT ![req[r].i] = Unseen(req[r].asset)]
    /\ tick' = IF tick["first"] = Idle
               THEN [tick EXCEPT !["first"] = [pc |-> "due", i |-> req[r].i]] ELSE tick
    /\ UNCHANGED <<row, deploys, server, chain, stopped, budget>>

--------------------------------------------------------------------------
(* The chain and the watcher.                                              *)

Confirm(a) ==
    /\ (\A m \in mined : m.asset # a) /\ Spent("block")
    /\ mined' = mined \cup {[asset |-> a, block |-> fork + 1, anchored |-> FALSE]}
    /\ UNCHANGED <<store, server, procs, fork, stopped>>
Anchor(m) ==
    /\ ~m.anchored /\ mined' = (mined \ {m}) \cup {[m EXCEPT !.anchored = TRUE]}
    /\ UNCHANGED <<store, server, procs, fork, stopped, budget>>
Reorg(m) ==
    /\ Spent("reorg") /\ mined' = mined \ {m} /\ fork' = fork + 1
    /\ UNCHANGED <<store, server, procs, stopped>>

\* Every pass first gives each live issuance the row it lacks.
Seed(i) ==
    /\ tick["cron"] = Idle /\ row[i].status = "live" /\ watch[i] = None
    /\ tick' = [tick EXCEPT !["cron"] = [pc |-> "seed", i |-> i, asset |-> row[i].asset]]
    /\ UNCHANGED <<store, server, req, chain, stopped, budget>>
Seeded ==
    /\ tick["cron"].pc = "seed" /\ tick' = [tick EXCEPT !["cron"] = Idle]
    /\ watch' = [watch EXCEPT ![tick["cron"].i] = Unseen(tick["cron"].asset)]
    /\ UNCHANGED <<row, deploys, prep, server, req, chain, stopped, budget>>

\* The block is asked of the node once and then held to, until its header says it left the chain.
Block(w)  == IF w.block # 0 THEN w.block
             ELSE IF \E m \in mined : m.asset = w.asset
                  THEN (CHOOSE m \in mined : m.asset = w.asset).block ELSE 0
ComputedKeeping(w) ==                    \* mutant: the block that left the chain is kept
    LET here == {m \in mined : m.asset = w.asset /\ m.block = Block(w)}
    IN  CASE Block(w) = 0 -> [w EXCEPT !.status = "broadcast"]
          [] here = {} -> [w EXCEPT !.status = "regressed", !.block = Block(w)]
          [] OTHER -> [w EXCEPT !.block = Block(w), !.status = "confirmed"]
Computed(w) ==
    LET here == {m \in mined : m.asset = w.asset /\ m.block = Block(w)}
    IN  CASE Block(w) = 0 -> [w EXCEPT !.status = "broadcast"]
          [] here = {} -> [w EXCEPT !.status = "regressed", !.block = 0]
          [] OTHER -> [w EXCEPT !.block = Block(w),
                                !.status = IF \E m \in here : m.anchored THEN "anchored" ELSE "confirmed"]
\* A row is written back whole, and only when something in it changed.
Tick(k, i) ==
    /\ tick[k] = IF k = "cron" THEN Idle ELSE [pc |-> "due", i |-> i]
    /\ watch[i] # None
    /\ tick' = [tick EXCEPT ![k] = IF Computed(watch[i]) = watch[i] THEN Idle
                                   ELSE [pc |-> "write", i |-> i, row |-> Computed(watch[i])]]
    /\ UNCHANGED <<store, server, req, chain, stopped, budget>>
\* The node does not answer: the row stays as it was.
TickFails ==
    /\ tick["first"].pc = "due" /\ Spent("lost") /\ tick' = [tick EXCEPT !["first"] = Idle]
    /\ UNCHANGED <<store, server, req, chain, stopped>>
TickWrite(k) ==
    /\ tick[k].pc = "write" /\ tick' = [tick EXCEPT ![k] = Idle]
    /\ watch' = [watch EXCEPT ![tick[k].i] = tick[k].row]
    /\ UNCHANGED <<row, deploys, prep, server, req, chain, stopped, budget>>

\* The locks of the node's wallet outlive the process.
Crash ==
    /\ Spent("crash") /\ stopped' = stopped + 1
    /\ req' = [r \in Requests |-> Idle] /\ tick' = [k \in Ticks |-> Idle]
    /\ UNCHANGED <<store, server, chain>>

Deploying(r) ==
    \/ \E i \in Issuances, kind \in Kinds, t \in Terms : Ask(r, i, kind, t)
    \/ Elect(r) \/ Refuse(r) \/ Admit(r) \/ CheckTicker(r)
    \/ MintServiced(r) \/ MintUnanswered(r) \/ Prepare(r) \/ PutPrepare(r) \/ Complete(r)
    \/ Fund(r) \/ FundFails(r) \/ BuildFails(r) \/ Record(r) \/ Send(r) \/ SendFails(r)
    \/ GoLive(r) \/ OnDeployed(r)
Watching ==
    \/ Seeded \/ TickFails \/ (\E i \in Issuances : Seed(i))
    \/ \E k \in Ticks : TickWrite(k) \/ (\E i \in Issuances : Tick(k, i))
Next ==
    \/ \E r \in Requests : Deploying(r)
    \/ Watching \/ Crash
    \/ \E i \in Issuances : \E d \in deploys[i] : SendAgain(d.asset)
    \/ \E a \in assets : Confirm(a)
    \/ \E m \in mined : Anchor(m) \/ Reorg(m)

Spec == Init /\ [][Next]_vars

\* The watcher's loop visits every row for as long as the process runs; nothing else is promised.
Fairness ==
    /\ WF_vars(Seeded)
    /\ \A k \in Ticks : WF_vars(TickWrite(k))
    /\ \A i \in Issuances : SF_vars(Seed(i)) /\ SF_vars(Tick("cron", i))
FairSpec == Spec /\ Fairness

--------------------------------------------------------------------------
(* Properties.                                                             *)

TypeOK ==
    /\ \A i \in Issuances : row[i].status \in {"draft", "live"} /\ row[i].kind \in Kinds \cup {"none"}
    /\ held \subseteq Coins /\ sent \subseteq assets

\* "A replay of the SAME issuance ... never mints twice" (M1-CONTRACT.md:82-84): whatever two
\* requests in flight, lost answers and restarts do, one election over one set of terms of an
\* issuance exists at most once on the chain.
MintedOnce == \A a, b \in assets : a.i = b.i /\ a.kind = b.kind /\ a.terms = b.terms => a = b

\* A recorded bearer mint can always be broadcast again: its coin is locked for it, so no other
\* deploy signs it away, and a deploy that came to nothing leaves no coin locked (a restart does).
Building(c) == \E r \in Requests : req[r].pc \in {"building", "sending", "recorded", "live"} /\ req[r].asset.coin = c
Recorded    == {d.asset : d \in UNION {deploys[i] : i \in Issuances}}
CoinsAccounted ==
    /\ \A a, b \in Recorded : a.kind = "bearer" /\ b.kind = "bearer" /\ a.coin = b.coin => a = b
    /\ \A a \in Recorded : a.kind = "bearer" /\ a \notin sent => a.coin \in held
    /\ stopped = 0 => \A c \in held : Building(c) \/ \E a \in Recorded : a.coin = c

\* The watcher never loses a live issuance, and once the chain rests its row says what the chain
\* says, though two ticks write whole rows over each other and blocks leave the chain.
Agrees(w) ==
    LET here == {m \in mined : m.asset = w.asset}
    IN  IF here = {} THEN w.block = 0 /\ w.status \in {"broadcast", "regressed"}
        ELSE \A m \in here : w.block = m.block /\ w.status = IF m.anchored THEN "anchored" ELSE "confirmed"
WatchFollows ==
    \A i \in Issuances : <>[](row[i].status = "live" => watch[i] # None /\ Agrees(watch[i]))
=============================================================================
