---------------------------- MODULE Verification ----------------------------
(***************************************************************************)
(* Who may hold: the identity check of one account and the business check  *)
(* of one entity it controls, both decided by an outside provider; the     *)
(* categories and the freeze this leaves at the policy server; and the     *)
(* freeze a reorganised bitcoin deposit causes on the same account.        *)
(*                                                                          *)
(* Handlers run concurrently.  A submission holds verifyMu from its gate   *)
(* to its end; a category write holds catMu; the provider's callback, the  *)
(* reconciling poll, the investor statement, the expiry cron and the       *)
(* reorganisation watcher hold nothing while they read and write claims.   *)
(***************************************************************************)
EXTENDS Integers, Sequences, FiniteSetsExt

CONSTANTS
    Requests,    \* submissions that may be in flight at once
    Subs,        \* settled bitcoin subscriptions of the account
    Decisions,   \* what the provider may say
    Stops,       \* the steps of a handler during which the process may stop
    Budgets      \* bounds on checks submitted, fees paid, restarts, unanswered calls of the
                 \* policy server, deposits reorganised away, statements, expiries and freezes by the
                 \* owner: a behaviour keeps to one of them

ASSUME VerificationAssumption ==
    /\ "clear" \in Decisions /\ Decisions \subseteq {"clear", "reject", "resubmission"}
    /\ Budgets \subseteq [{"check", "pay", "crash", "down", "reorg", "state", "expire", "console"} -> Nat]

VARIABLES
    claims,    \* Claims: its status, and whether valid_until has passed
    checks,    \* VerificationCheck rows, oldest first
    invoices,  \* FeeInvoice rows of the account, oldest first
    carried,   \* the policy server has categories for the account
    frozen,    \* the account is frozen there
    treasury,  \* the account of the entity there: "none", "open" or "frozen"
    console,   \* the owner of an offering froze the account and did not unfreeze it
    deposit,   \* the deposits the bitcoin chain still has
    hold,      \* ReorgHold.state of a subscription
    req,       \* the submissions
    adj,       \* the two ways a decision arrives: "callback" and "poll"
    stmt,      \* the investor statement, and
    cron,      \*   the expiry cron: each rewrites categories
    watch,     \* the reorganisation watcher
    stopped,   \* restarts so far
    budget     \* what may still happen

rows   == <<claims, checks, invoices, hold>>
server == <<carried, frozen, treasury, console>>
chain  == <<deposit, stopped>>
procs  == <<req, adj, stmt, cron, watch>>
vars   == <<rows, server, deposit, procs, stopped, budget>>

Subjects == {"self", "firm"}
Arrivals == {"callback", "poll"}
Asking   == [pc |-> "idle", of |-> "self", inv |-> 0, chk |-> 0, open |-> FALSE]
Deciding == [pc |-> "idle", chk |-> 0, gives |-> FALSE]
Writing  == [pc |-> "idle", gives |-> FALSE]
Watching == [pc |-> "idle", sub |-> "none"]

Spent(what) == budget[what] > 0 /\ budget' = [budget EXCEPT ![what] = @ - 1]

\* A new account, or one verified by an earlier check.
Init ==
    /\ \/ /\ claims = [st |-> "none", old |-> FALSE] /\ carried = FALSE
          /\ checks = <<>> /\ invoices = <<>>
       \/ /\ claims = [st |-> "verified", old |-> FALSE] /\ carried = TRUE
          /\ checks = <<[of |-> "self", st |-> "complete", res |-> "clear", says |-> "clear", billed |-> TRUE]>>
          /\ invoices = <<[of |-> "self", st |-> "paid", chk |-> 1]>>
    /\ frozen = FALSE /\ treasury = "none" /\ console = FALSE
    /\ deposit = Subs /\ hold = [s \in Subs |-> "none"]
    /\ req = [r \in Requests |-> Asking] /\ adj = [a \in Arrivals |-> Deciding]
    /\ stmt = Writing /\ cron = Writing /\ watch = Watching
    /\ stopped = 0 /\ budget \in Budgets

Crash ==
    /\ {req[r].pc : r \in Requests} \cup {adj[a].pc : a \in Arrivals}
          \cup {stmt.pc, cron.pc, watch.pc} \subseteq Stops \cup {"idle"}
    /\ Spent("crash") /\ stopped' = stopped + 1
    /\ req' = [r \in Requests |-> Asking] /\ adj' = [a \in Arrivals |-> Deciding]
    /\ stmt' = Writing /\ cron' = Writing /\ watch' = Watching
    /\ UNCHANGED <<rows, server, deposit>>

-----------------------------------------------------------------------------
(* The fee of a check.                                                      *)

\* Mutated: a payment stays good after it bought a check.
UnspentOrSpent(s) == {i \in DOMAIN invoices : invoices[i].of = s}

\* AccountFee: at most one invoice of a subject has bought nothing yet.
Unspent(s) == {i \in DOMAIN invoices : invoices[i].of = s /\ invoices[i].chk = 0}

\* ensureVerificationFee.
Raised(s, st) == IF Unspent(s) = {} THEN Append(invoices, [of |-> s, st |-> st, chk |-> 0]) ELSE invoices

\* handlePayVerificationFee, and the payment confirming on its rail.
Pay(s) ==
    /\ \A i \in Unspent(s) : invoices[i].st = "unpaid"
    /\ Spent("pay")
    /\ LET up == Raised(s, "unpaid")
       IN invoices' = [i \in DOMAIN up |-> IF up[i].of = s /\ up[i].chk = 0
                                           THEN [up[i] EXCEPT !.st = "paid"] ELSE up[i]]
    /\ UNCHANGED <<claims, checks, hold, server, chain, procs>>

-----------------------------------------------------------------------------
(* Submitting.                                                              *)

ChecksOf(s)   == {i \in DOMAIN checks : checks[i].of = s}
Is(s, st, res) == /\ ChecksOf(s) # {}
                  /\ checks[Max(ChecksOf(s))].st = st /\ checks[Max(ChecksOf(s))].res \in res

Live        == claims.st = "verified" /\ ~claims.old
Continues(s) == Is(s, "complete", {"resubmission"})

\* Mutated: the signature of the controller buys another check.
RecordsNever(s) == FALSE

\* A business already with the provider: the call records the UBO signature only.
RecordsOnly(s) == s = "firm" /\ Is(s, "submitted", {"none"})

SetReq(r, rec)  == req' = [req EXCEPT ![r] = rec]
Locked          == {r \in Requests : req[r].pc \notin {"idle", "waiting"}}

\* handleIDVerify up to the lock: the claims are read before it.
SubmitIdentity(r) ==
    /\ req[r].pc = "idle" /\ claims.st \notin {"submitted", "refused"}
    /\ SetReq(r, [Asking EXCEPT !.pc = "waiting"])
    /\ UNCHANGED <<rows, server, chain, adj, stmt, cron, watch, budget>>

\* handleEntityVerify up to the lock.
SubmitBusiness(r) ==
    /\ req[r].pc = "idle" /\ Live
    /\ SetReq(r, [Asking EXCEPT !.pc = "waiting", !.of = "firm"])
    /\ UNCHANGED <<rows, server, chain, adj, stmt, cron, watch, budget>>

\* The gate, under verifyMu: a refused business goes no further, an answer to the
\* provider is free, anything else needs an invoice that is paid and has bought nothing.
Gate(r) ==
    /\ req[r].pc = "waiting" /\ Locked = {}
    /\ budget.check > 0
    /\ LET s == req[r].of
           free == Continues(s) \/ RecordsOnly(s)
           good == {i \in Unspent(s) : invoices[i].st = "paid"}
       IN \/ /\ s = "firm" /\ Is(s, "complete", {"reject"})
             /\ SetReq(r, Asking) /\ UNCHANGED invoices
          \/ /\ ~(s = "firm" /\ Is(s, "complete", {"reject"}))
             /\ free \/ good # {}
             /\ SetReq(r, [req[r] EXCEPT !.pc = "gated", !.open = RecordsOnly(s),
                                         !.inv = IF free THEN 0 ELSE Min(good)])
             /\ UNCHANGED invoices
          \/ /\ ~(s = "firm" /\ Is(s, "complete", {"reject"}))
             /\ ~free /\ good = {}
             /\ invoices' = Raised(s, "unpaid") /\ SetReq(r, Asking)
    /\ UNCHANGED <<claims, checks, hold, server, chain, adj, stmt, cron, watch, budget>>

\* The policy server does not answer the registration of the account or treasury.
Unregistered(r) ==
    /\ req[r].pc = "gated" /\ Spent("down") /\ SetReq(r, Asking)
    /\ UNCHANGED <<rows, server, chain, adj, stmt, cron, watch>>

ClaimsSubmitted(r) ==
    /\ req[r].pc = "gated" /\ req[r].of = "self"
    /\ claims' = [st |-> "submitted", old |-> FALSE]
    /\ SetReq(r, [req[r] EXCEPT !.pc = "claimed"])
    /\ UNCHANGED <<checks, invoices, hold, server, chain, adj, stmt, cron, watch, budget>>

\* createEnclave is idempotent: an entity has one treasury.
Provision(r) ==
    /\ req[r].pc = "gated" /\ req[r].of = "firm"
    /\ treasury' = IF treasury = "none" THEN "open" ELSE treasury
    /\ SetReq(r, IF req[r].open THEN Asking ELSE [req[r] EXCEPT !.pc = "claimed"])
    /\ UNCHANGED <<rows, carried, frozen, console, chain, adj, stmt, cron, watch, budget>>

\* submitVerification: the row first, then the provider.  The decision of the
\* simulated provider is a function of the name.
Recorded(r) ==
    /\ req[r].pc = "claimed" /\ Spent("check")
    /\ \E d \in Decisions :
          checks' = Append(checks, [of |-> req[r].of, st |-> "submitted", res |-> "none",
                                    says |-> d, billed |-> FALSE])
    /\ SetReq(r, [req[r] EXCEPT !.pc = "recorded", !.chk = Len(checks) + 1])
    /\ UNCHANGED <<claims, invoices, hold, server, chain, adj, stmt, cron, watch>>

\* CreateCheck: the provider bills, except for a check it asked to continue.
Created(r) ==
    /\ req[r].pc = "recorded"
    /\ checks' = [checks EXCEPT ![req[r].chk].billed = req[r].inv # 0]
    /\ SetReq(r, [req[r] EXCEPT !.pc = "created"])
    /\ UNCHANGED <<claims, invoices, hold, server, chain, adj, stmt, cron, watch, budget>>

SpendFee(r) ==
    /\ req[r].pc = "created"
    /\ invoices' = [i \in DOMAIN invoices |->
                      IF i = req[r].inv THEN [invoices[i] EXCEPT !.chk = req[r].chk] ELSE invoices[i]]
    /\ SetReq(r, Asking)
    /\ UNCHANGED <<claims, checks, hold, server, chain, adj, stmt, cron, watch, budget>>

-----------------------------------------------------------------------------
(* Deciding.                                                                *)

\* Mutated: the poll asks about checks that were billed.
OutstandingBilled == {i \in DOMAIN checks : checks[i].st = "submitted" /\ checks[i].billed}

\* OutstandingVerificationChecks.
Outstanding == {i \in DOMAIN checks : checks[i].st = "submitted"}

SetAdj(a, rec) == adj' = [adj EXCEPT ![a] = rec]
Holding        == {a \in Arrivals : adj[a].pc = "post"} \cup {w \in {stmt, cron} : w.pc = "post"}

\* handleIDVCallback reads the check by its reference, reconcileVerifications from the
\* list of those outstanding; what happens next is applyAdjudication.
Callback ==
    /\ adj["callback"].pc = "idle"
    /\ \E i \in DOMAIN checks :
          /\ checks[i].st = "submitted"
          /\ SetAdj("callback", [Deciding EXCEPT !.pc = "picked", !.chk = i])
    /\ UNCHANGED <<rows, server, chain, req, stmt, cron, watch, budget>>

Poll ==
    /\ adj["poll"].pc = "idle"
    /\ \E i \in Outstanding : SetAdj("poll", [Deciding EXCEPT !.pc = "picked", !.chk = i])
    /\ UNCHANGED <<rows, server, chain, req, stmt, cron, watch, budget>>

Said(a) == checks[adj[a].chk].says
Verdict(d) == CASE d = "clear" -> "verified" [] d = "reject" -> "refused" [] OTHER -> "needs_info"

\* The claims take the decision, whatever they were: a refusal before the policy server
\* hears of it.  A business has no claims.
Applied(a) ==
    /\ adj[a].pc = "picked"
    /\ claims' = IF checks[adj[a].chk].of = "self" THEN [claims EXCEPT !.st = Verdict(Said(a))] ELSE claims
    /\ SetAdj(a, [adj[a] EXCEPT !.pc =
          CASE Said(a) = "reject" -> "freeze"
            [] Said(a) = "clear" /\ checks[adj[a].chk].of = "self" -> "stamp"
            [] OTHER -> "close"])
    /\ UNCHANGED <<checks, invoices, hold, server, chain, req, stmt, cron, watch, budget>>

\* freezeAtPolicyServer, or the treasury of the business.
Freezes(a) ==
    /\ adj[a].pc = "freeze"
    /\ IF checks[adj[a].chk].of = "self"
       THEN frozen' = TRUE /\ UNCHANGED treasury
       ELSE treasury' = "frozen" /\ UNCHANGED frozen
    /\ SetAdj(a, [adj[a] EXCEPT !.pc = IF checks[adj[a].chk].of = "self" THEN "stamp" ELSE "close"])
    /\ UNCHANGED <<rows, carried, console, chain, req, stmt, cron, watch, budget>>

\* The policy server does not answer: the check stays undecided.
Unapplied(a) ==
    /\ adj[a].pc \in {"freeze", "post"} /\ Spent("down") /\ SetAdj(a, Deciding)
    /\ UNCHANGED <<rows, server, chain, req, stmt, cron, watch>>

\* CompleteVerificationCheck: only the first decision is recorded.
Closes(a) ==
    /\ adj[a].pc = "close"
    /\ checks' = IF checks[adj[a].chk].st = "submitted"
                 THEN [checks EXCEPT ![adj[a].chk] = [@ EXCEPT !.st = "complete", !.res = Said(a)]]
                 ELSE checks
    /\ SetAdj(a, Deciding)
    /\ UNCHANGED <<claims, invoices, hold, server, chain, req, stmt, cron, watch, budget>>

-----------------------------------------------------------------------------
(* writeCategories: project the claims, post the list, read it back.        *)

\* Mutated: the claims are those the writer set out with.
GivesAsRead(read) == read

\* projectCategories of the claims read under catMu.
Gives(read) == Live

\* A decision: what it has just written is what it set out with.
StampBegin(a) ==
    /\ adj[a].pc = "stamp" /\ Holding = {}
    /\ SetAdj(a, [adj[a] EXCEPT !.pc = "post", !.gives = Gives(Said(a) = "clear")])
    /\ UNCHANGED <<rows, server, chain, req, stmt, cron, watch, budget>>

Stamped(a) ==
    /\ adj[a].pc = "post"
    /\ carried' = adj[a].gives
    /\ SetAdj(a, [adj[a] EXCEPT !.pc = "close"])
    /\ UNCHANGED <<rows, frozen, treasury, console, chain, req, stmt, cron, watch, budget>>

\* The investor statement (handleGate): a verified row is read, and written back whole.
StateBegin ==
    /\ stmt.pc = "idle" /\ Live /\ Spent("state")
    /\ stmt' = [Writing EXCEPT !.pc = "read"]
    /\ UNCHANGED <<rows, server, chain, req, adj, cron, watch>>

StateWrite ==
    /\ stmt.pc = "read" /\ stmt' = [Writing EXCEPT !.pc = "stamp"]
    /\ claims' = [claims EXCEPT !.st = "verified"]
    /\ UNCHANGED <<checks, invoices, hold, server, chain, req, adj, cron, watch, budget>>

StateStamp ==
    /\ stmt.pc = "stamp" /\ Holding = {}
    /\ stmt' = [Writing EXCEPT !.pc = "post", !.gives = Gives(TRUE)]
    /\ UNCHANGED <<rows, server, chain, req, adj, cron, watch, budget>>

\* The answer of the policy server is not looked at.
StateDone ==
    /\ stmt.pc = "post" /\ stmt' = Writing
    /\ \/ carried' = stmt.gives /\ UNCHANGED budget
       \/ Spent("down") /\ UNCHANGED carried
    /\ UNCHANGED <<rows, frozen, treasury, console, chain, req, adj, cron, watch>>

\* valid_until passes.
Expire ==
    /\ Live /\ Spent("expire")
    /\ claims' = [claims EXCEPT !.old = TRUE]
    /\ UNCHANGED <<checks, invoices, hold, server, chain, procs>>

\* runExpiry: it holds the row it read in its list of all claims.
ExpiryBegin ==
    /\ cron.pc = "idle" /\ claims.st = "verified" /\ claims.old
    /\ cron' = [Writing EXCEPT !.pc = "stamp"]
    /\ UNCHANGED <<rows, server, chain, req, adj, stmt, watch, budget>>

ExpiryStamp ==
    /\ cron.pc = "stamp" /\ Holding = {}
    /\ cron' = [Writing EXCEPT !.pc = "post", !.gives = Gives(FALSE)]
    /\ UNCHANGED <<rows, server, chain, req, adj, stmt, watch, budget>>

ExpiryDone ==
    /\ cron.pc = "post" /\ cron' = Writing
    /\ \/ carried' = cron.gives /\ UNCHANGED budget
       \/ Spent("down") /\ UNCHANGED carried
    /\ UNCHANGED <<rows, frozen, treasury, console, chain, req, adj, stmt, watch>>

-----------------------------------------------------------------------------
(* Freezing.                                                                *)

Reorg(s) ==
    /\ s \in deposit /\ Spent("reorg") /\ deposit' = deposit \ {s}
    /\ UNCHANGED <<rows, server, procs, stopped>>

Reconfirm(s) ==
    /\ s \in Subs \ deposit /\ deposit' = deposit \cup {s}
    /\ UNCHANGED <<rows, server, procs, stopped, budget>>

\* handleConsoleFreeze: the freeze is an attribute of the account, whoever set it.
ConsoleFreeze(on) ==
    /\ Spent("console") /\ frozen' = on /\ console' = on
    /\ UNCHANGED <<rows, carried, treasury, chain, procs>>

\* watchBtcReorgs: freezeForReorg for a deposit the chain no longer has.
HoldFreeze(s) ==
    /\ watch.pc = "idle" /\ s \notin deposit /\ hold[s] # "active"
    /\ \/ /\ frozen' = TRUE /\ watch' = [pc |-> "froze", sub |-> s] /\ UNCHANGED budget
       \/ /\ Spent("down") /\ UNCHANGED <<frozen, watch>>
    /\ UNCHANGED <<rows, carried, treasury, console, chain, req, adj, stmt, cron>>

HoldRecord ==
    /\ watch.pc = "froze" /\ watch' = Watching
    /\ hold' = [hold EXCEPT ![watch.sub] = "active"]
    /\ UNCHANGED <<claims, checks, invoices, server, chain, req, adj, stmt, cron, budget>>

\* clearReorgHold for a deposit that is back: the freeze of a refused account stays.
HoldLift(s) ==
    /\ watch.pc = "idle" /\ s \in deposit /\ hold[s] = "active"
    /\ watch' = [pc |-> IF claims.st = "refused" THEN "lifted" ELSE "lifting", sub |-> s]
    /\ UNCHANGED <<rows, server, chain, req, adj, stmt, cron, budget>>

\* Mutated: the hold is cleared although the policy server did not answer.
LiftUnanswered == "lifted"

\* A lift that was not answered is tried again at the next pass.
LiftRetried == "idle"

HoldUnfreeze ==
    /\ watch.pc = "lifting"
    /\ \/ /\ frozen' = FALSE /\ watch' = [watch EXCEPT !.pc = "lifted"] /\ UNCHANGED budget
       \/ /\ Spent("down") /\ UNCHANGED frozen /\ watch' = [watch EXCEPT !.pc = LiftRetried]
    /\ UNCHANGED <<rows, carried, treasury, console, chain, req, adj, stmt, cron>>

HoldClear ==
    /\ watch.pc = "lifted" /\ watch' = Watching
    /\ hold' = [hold EXCEPT ![watch.sub] = "cleared"]
    /\ UNCHANGED <<claims, checks, invoices, server, chain, req, adj, stmt, cron, budget>>

-----------------------------------------------------------------------------
RequestStep(r) == \/ Gate(r) \/ Unregistered(r) \/ ClaimsSubmitted(r) \/ Provision(r)
                  \/ Recorded(r) \/ Created(r) \/ SpendFee(r)
DecisionStep(a) == Applied(a) \/ Freezes(a) \/ Unapplied(a) \/ StampBegin(a) \/ Stamped(a) \/ Closes(a)
StatementStep   == StateWrite \/ StateStamp \/ StateDone
ExpiryStep      == ExpiryBegin \/ ExpiryStamp \/ ExpiryDone
HoldStep        == HoldRecord \/ HoldUnfreeze \/ HoldClear

Next ==
    \/ Crash \/ Callback \/ Poll \/ StateBegin \/ Expire \/ StatementStep \/ ExpiryStep \/ HoldStep
    \/ \E s \in Subjects : Pay(s)
    \/ \E r \in Requests : SubmitIdentity(r) \/ SubmitBusiness(r) \/ RequestStep(r)
    \/ \E a \in Arrivals : DecisionStep(a)
    \/ \E s \in Subs : Reorg(s) \/ Reconfirm(s) \/ HoldFreeze(s) \/ HoldLift(s)
    \/ \E on \in BOOLEAN : ConsoleFreeze(on)

Spec == Init /\ [][Next]_vars

\* A handler that runs goes on, and the poll comes round again; a callback need not
\* arrive, nobody need submit, pay or state anything.
FairSpec ==
    /\ Spec
    /\ WF_vars(Poll) /\ WF_vars(StatementStep) /\ WF_vars(ExpiryStep)
    /\ \A a \in Arrivals : WF_vars(DecisionStep(a))
    /\ \A r \in Requests : WF_vars(RequestStep(r))

-----------------------------------------------------------------------------
TypeOK ==
    /\ claims \in [st : {"none", "submitted", "needs_info", "refused", "verified"}, old : BOOLEAN]
    /\ checks \in Seq([of : Subjects, st : {"submitted", "complete"},
                       res : Decisions \cup {"none"}, says : Decisions, billed : BOOLEAN])
    /\ invoices \in Seq([of : Subjects, st : {"unpaid", "paid"}, chk : 0..Len(checks)])
    /\ carried \in BOOLEAN /\ frozen \in BOOLEAN /\ console \in BOOLEAN
    /\ treasury \in {"none", "open", "frozen"}
    /\ deposit \subseteq Subs /\ hold \in [Subs -> {"none", "active", "cleared"}]
    /\ \A r \in Requests : req[r].inv \in 0..Len(invoices) /\ req[r].chk \in 0..Len(checks)
    /\ \A a \in Arrivals : adj[a].chk \in 0..Len(checks)
    /\ stopped \in Nat /\ budget \in [{"check", "pay", "crash", "down", "reorg", "state", "expire", "console"} -> Nat]

Idle == /\ \A r \in Requests : req[r].pc \in {"idle", "waiting"}
        /\ \A a \in Arrivals : adj[a].pc = "idle"
        /\ stmt.pc = "idle" /\ cron.pc = "idle"

\* One payment buys one check: the provider has billed for no more checks than were paid
\* for, but for one check a restart may have cost between the bill and the row that says
\* the invoice is spent (handleIDVerify, handleEntityVerify, SpendFeeInvoice).
BilledWasPaid ==
    Cardinality({i \in DOMAIN checks : checks[i].billed})
        <= Cardinality({i \in DOMAIN invoices : invoices[i].st = "paid"}) + stopped

\* A business is with the provider once at a time and never again after a refusal, however
\* many requests, callbacks and polls run together (handleEntityVerify).
BusinessFinal ==
    \A i, j \in ChecksOf("firm") : i < j => checks[i].st = "complete" /\ checks[i].res # "reject"

\* Once every decision is recorded, the policy server admits an account only while its
\* claims are verified: no interleaving of decisions, statements and expiry leaves an
\* older list there (writeCategoriesFor).
NothingBeyondClaims ==
    stopped = 0 /\ Idle /\ Outstanding = {} /\ claims.st \in {"verified", "refused"}
        => (carried => claims.st = "verified")

\* An account is frozen only for a cause the platform still knows: a refusal, a hold that
\* is active, or the owner of an offering (freezeForReorg, clearReorgHold).
FrozenForCause ==
    frozen /\ watch.pc = "idle" =>
        \/ console \/ \E s \in Subs : hold[s] = "active"
        \/ \E i \in ChecksOf("self") : checks[i].says = "reject"

\* A holder never stays "submitted" for good, even when no callback arrives
\* (reconcileVerifications).
NotStuck == (claims.st = "submitted") ~> (claims.st # "submitted")
=============================================================================
