----------------------------- MODULE Supervision -----------------------------
(***************************************************************************)
(* Freezes of a bearer asset: a record in a transaction of the platform's  *)
(* wallet, signed by the issuer over the coin that will carry it, lifted   *)
(* by a second transaction that spends it.                                 *)
(*                                                                          *)
(* Building and completing hold supMu of the issuance from end to end, so  *)
(* an asset has one request at a time; two assets share the wallet.        *)
(***************************************************************************)
EXTENDS Integers, Sequences, FiniteSets

CONSTANTS
    Assets,    \* supervised assets, their issuance confirmed
    Targets,   \* scripts a freeze may name
    Orders,    \* legal orders
    Funds      \* coins of the wallet that can pay for a record

VARIABLES
    ops,       \* SupervisionOp rows, oldest first
    locks,     \* coins the wallet has locked
    spent,     \* coins spent
    chain,     \* transactions of the platform the node took
    known,     \* transactions made so far
    sreq,      \* the request of an asset
    budget

wallet == <<locks, spent, chain>>

Still == [pc |-> "idle"]
Spent(what) == budget[what] > 0 /\ budget' = [budget EXCEPT ![what] = @ - 1]

Init ==
    /\ ops = <<>> /\ locks = {} /\ spent = {} /\ chain = {} /\ known = 0
    /\ sreq = [a \in Assets |-> Still]

At(a, pc)  == sreq' = [sreq EXCEPT ![a].pc = pc]
End(a)     == sreq' = [sreq EXCEPT ![a] = Still]
OpFor(a, kind, t, o) ==
    {n \in DOMAIN ops : ops[n].asset = a /\ ops[n].kind = kind /\ ops[n].target = t /\ ops[n].order = o}

--------------------------------------------------------------------------
(* Building.                                                               *)

\* The same order against the same target is answered with the operation it has.
AskFreeze(a, t, o) ==
    /\ sreq[a] = Still /\ OpFor(a, "freeze", t, o) = {} /\ Spent("ask")
    /\ sreq' = [sreq EXCEPT ![a] = [pc |-> "fund", kind |-> "freeze", target |-> t, order |-> o, ref |-> 0]]
    /\ UNCHANGED <<ops, wallet, known>>

\* A lift names a submitted freeze, lifted already or not.
AskUnfreeze(a, n, o) ==
    /\ sreq[a] = Still /\ ops[n].asset = a /\ ops[n].kind = "freeze" /\ ops[n].state = "submitted"
    /\ OpFor(a, "unfreeze", ops[n].target, o) = {} /\ Spent("ask")
    /\ sreq' = [sreq EXCEPT ![a] = [pc |-> "fund", kind |-> "unfreeze", target |-> ops[n].target, order |-> o, ref |-> n]]
    /\ UNCHANGED <<ops, wallet, known>>

\* lockunspent refuses a coin that is locked.
LockFund(a) ==
    /\ sreq[a].pc = "fund"
    /\ \E c \in Funds \ (locks \cup spent) :
        /\ locks' = locks \cup {c}
        /\ sreq' = [sreq EXCEPT ![a] = [pc |-> "message", fund |-> c, kind |-> @.kind, target |-> @.target,
                                        order |-> @.order, ref |-> @.ref]]
    /\ UNCHANGED <<ops, spent, chain, known, budget>>
NoFund(a) ==
    /\ sreq[a].pc = "fund" /\ Funds \subseteq locks \cup spent /\ End(a)
    /\ UNCHANGED <<ops, wallet, known, budget>>

Build(a) ==
    /\ sreq[a].pc = "message" /\ End(a)
    /\ ops' = Append(ops, [asset |-> a, kind |-> sreq[a].kind, target |-> sreq[a].target, order |-> sreq[a].order,
                           ref |-> sreq[a].ref, fund |-> sreq[a].fund, tx |-> 0, state |-> "pending"])
    /\ UNCHANGED <<wallet, known, budget>>
\* The node produces no message: the coin stays locked.
BuildFails(a) ==
    /\ sreq[a].pc = "message" /\ Spent("lost") /\ End(a)
    /\ UNCHANGED <<ops, wallet, known>>

--------------------------------------------------------------------------
(* Completing.                                                             *)

Complete(a, n) ==
    /\ sreq[a] = Still /\ ops[n].asset = a /\ ops[n].state # "submitted" /\ Spent("try")
    /\ sreq' = [sreq EXCEPT ![a] = [pc |-> IF ops[n].tx = 0 THEN "assemble" ELSE "send", op |-> n, tx |-> ops[n].tx]]
    /\ UNCHANGED <<ops, wallet, known>>

\* Every assembly takes a fresh change address, so it is another transaction.
Assemble(a) ==
    /\ sreq[a].pc = "assemble" /\ known' = known + 1
    /\ sreq' = [sreq EXCEPT ![a].pc = "persist", ![a].tx = known + 1]
    /\ UNCHANGED <<ops, wallet, budget>>

PersistStateOnly(a) == [ops EXCEPT ![sreq[a].op].state = "submitting"]       \* mutant: the transaction is not kept
Persisted(a) == [ops EXCEPT ![sreq[a].op].state = "submitting", ![sreq[a].op].tx = sreq[a].tx]
Persist(a) ==
    /\ sreq[a].pc = "persist" /\ ops' = Persisted(a) /\ At(a, "send")
    /\ UNCHANGED <<wallet, known, budget>>

\* A lift spends the record of the freeze it names.
Tx(a) == LET op == ops[sreq[a].op]
         IN  [id |-> sreq[a].tx, asset |-> op.asset, kind |-> op.kind, target |-> op.target, fund |-> op.fund,
              record |-> IF op.kind = "freeze" THEN 0 ELSE ops[op.ref].tx]
Live == {t \in chain : t.kind = "freeze" /\ \A u \in chain : u.record # t.id}
Takes(t) ==
    /\ t.fund \notin spent
    /\ t.kind = "unfreeze" => \E r \in Live : r.id = t.record
Into(t) == chain' = chain \cup {t} /\ spent' = spent \cup {t.fund} /\ locks' = locks \ {t.fund}
\* A freeze goes over the private channel, over the mempool when that errors; a lift over the mempool.
Send(a) ==
    /\ sreq[a].pc = "send" /\ At(a, "note")
    /\ \/ Takes(Tx(a)) /\ Into(Tx(a))
       \/ Tx(a) \in chain /\ UNCHANGED wallet
    /\ UNCHANGED <<ops, known, budget>>
SendRefused(a) ==
    /\ sreq[a].pc = "send" /\ ~Takes(Tx(a)) /\ Tx(a) \notin chain /\ End(a)
    /\ UNCHANGED <<ops, wallet, known, budget>>
SendUnanswered(a) ==
    /\ sreq[a].pc = "send" /\ Spent("lost") /\ End(a)
    /\ \/ Takes(Tx(a)) /\ Into(Tx(a))
       \/ UNCHANGED wallet
    /\ UNCHANGED <<ops, known>>

Submitted(a) ==
    /\ sreq[a].pc = "note" /\ End(a)
    /\ ops' = [ops EXCEPT ![sreq[a].op].state = "submitted"]
    /\ UNCHANGED <<wallet, known, budget>>

--------------------------------------------------------------------------
\* The node's locks do not outlive it: a coin of a pending operation may go to another.
NodeRestart ==
    /\ Spent("node") /\ locks' = {}
    /\ UNCHANGED <<ops, spent, chain, known, sreq>>
Crash ==
    /\ Spent("crash") /\ sreq' = [a \in Assets |-> Still]
    /\ UNCHANGED <<ops, wallet, known>>

Step(a) ==
    \/ LockFund(a) \/ NoFund(a) \/ Build(a) \/ BuildFails(a)
    \/ Assemble(a) \/ Persist(a) \/ Send(a) \/ SendRefused(a) \/ SendUnanswered(a) \/ Submitted(a)
Next ==
    \/ \E a \in Assets : Step(a) \/ (\E n \in DOMAIN ops : Complete(a, n))
    \/ \E a \in Assets, o \in Orders : \/ \E t \in Targets : AskFreeze(a, t, o)
                                       \/ \E n \in DOMAIN ops : AskUnfreeze(a, n, o)
    \/ NodeRestart \/ Crash

\* "Persist BEFORE broadcast: the raw tx and its txid are the resume state" (supervision.go:280):
\* every freeze in force is the transaction of one operation, so it can be found and lifted, and
\* an operation said to be submitted had its own transaction taken, whatever was interrupted and
\* whichever coin was lost to another operation.
Liftable ==
    /\ \A r \in Live : Cardinality({n \in DOMAIN ops : ops[n].kind = "freeze" /\ ops[n].tx = r.id}) = 1
    /\ \A n \in DOMAIN ops : ops[n].state = "submitted" => \E t \in chain : t.id = ops[n].tx
=============================================================================
