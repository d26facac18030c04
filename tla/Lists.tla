-------------------------------- MODULE Lists --------------------------------
(***************************************************************************)
(* The published holder list of a network-enforced asset: holders ask to   *)
(* be admitted, the issuer decides, and a change of the list, prepared at  *)
(* the policy server and completed with the issuer's signature, publishes  *)
(* it.  Nothing here takes a lock.                                         *)
(***************************************************************************)
EXTENDS Integers, Sequences, FiniteSets

CONSTANTS
    Keys,       \* holding keys, each of one verified account
    Papers,     \* legal orders a change executes
    Handlers    \* requests of the issuer that may be in flight at once

VARIABLES
    published,  \* the list the network enforces, and its sequence number
    preps,      \* changes the policy server prepared
    pops,       \* DampPolicyOp rows, oldest first
    wish,       \* WhitelistRequest rows, oldest first
    shown,      \* Issuance.policy_commitment, as the sequence number it stands for
    lreq,       \* the requests of the issuer
    budget

server == <<published, preps>>
lrows  == <<pops, wish, shown>>

Off == [pc |-> "idle"]
Spent(what) == budget[what] > 0 /\ budget' = [budget EXCEPT ![what] = @ - 1]

Init ==
    /\ published \in [seq : {0}, keys : SUBSET Keys]
    /\ preps = <<>> /\ pops = <<>> /\ wish = <<>> /\ shown = 0
    /\ lreq = [h \in Handlers |-> Off]

At(h, pc) == lreq' = [lreq EXCEPT ![h].pc = pc]
End(h)    == lreq' = [lreq EXCEPT ![h] = Off]

--------------------------------------------------------------------------
(* Admission.                                                              *)

\* One open request per key (a unique index), and none a day after a refusal.
Open(k) == \E n \in DOMAIN wish : wish[n].key = k /\ wish[n].state \in {"pending", "approved"}
Ask(k) ==
    /\ ~Open(k) /\ Spent("wish")
    /\ \A n \in DOMAIN wish : wish[n].key = k => wish[n].state # "refused"
    /\ wish' = Append(wish, [key |-> k, state |-> "pending"])
    /\ UNCHANGED <<server, pops, shown, lreq>>

\* The request is read as pending and decided later.
DecideBegin(h, n, st) ==
    /\ lreq[h] = Off /\ wish[n].state = "pending"
    /\ lreq' = [lreq EXCEPT ![h] = [pc |-> "deciding", wish |-> n, state |-> st]]
    /\ UNCHANGED <<server, lrows, budget>>
Decide(h) ==
    /\ lreq[h].pc = "deciding" /\ End(h)
    /\ wish' = [wish EXCEPT ![lreq[h].wish].state = lreq[h].state]
    /\ UNCHANGED <<server, pops, shown, budget>>

--------------------------------------------------------------------------
(* A change of the list.                                                   *)

Changed(kind, keys) == IF kind = "freeze" THEN published.keys \ keys ELSE published.keys \cup keys

\* The policy server refuses a change that changes nothing.  Two requests for one order may both
\* find no operation and prepare twice.
Prepare(h, kind, keys, o) ==
    /\ lreq[h] = Off /\ keys # {} /\ Spent("change")
    /\ \A n \in DOMAIN pops : <<pops[n].kind, pops[n].keys, pops[n].order>> # <<kind, keys, o>>
    /\ Changed(kind, keys) # published.keys
    /\ preps' = Append(preps, [prev |-> published.seq, keys |-> Changed(kind, keys), done |-> FALSE])
    /\ lreq' = [lreq EXCEPT ![h] = [pc |-> "prepared", kind |-> kind, keys |-> keys, order |-> o,
                                    added |-> Changed(kind, keys) \ published.keys, prep |-> Len(preps) + 1]]
    /\ UNCHANGED <<published, lrows>>
Record(h) ==
    /\ lreq[h].pc = "prepared" /\ End(h)
    /\ pops' = Append(pops, [kind |-> lreq[h].kind, keys |-> lreq[h].keys, order |-> lreq[h].order,
                             added |-> lreq[h].added, prep |-> lreq[h].prep, state |-> "pending"])
    /\ UNCHANGED <<server, wish, shown, budget>>

CompleteBegin(h, n) ==
    /\ lreq[h] = Off /\ pops[n].state # "published" /\ Spent("try")
    /\ lreq' = [lreq EXCEPT ![h] = [pc |-> "signed", op |-> n]]
    /\ UNCHANGED <<server, lrows>>
Op(h) == pops[lreq[h].op]
MarkPrepared(h) ==
    /\ lreq[h].pc = "signed" /\ At(h, "publish")
    /\ pops' = [pops EXCEPT ![lreq[h].op].state = "prepared"]
    /\ UNCHANGED <<server, wish, shown, budget>>

\* Of two changes of one list only one can be published; a completed one is answered the same again.
Publish(h) ==
    LET p == preps[Op(h).prep] IN
    /\ lreq[h].pc = "publish" /\ (p.done \/ p.prev = published.seq)
    /\ preps' = [preps EXCEPT ![Op(h).prep].done = TRUE]
    /\ published' = IF p.done THEN published ELSE [seq |-> p.prev + 1, keys |-> p.keys]
    /\ \/ At(h, "published") /\ UNCHANGED budget
       \/ End(h) /\ Spent("lost")
    /\ UNCHANGED lrows
PublishRefused(h) ==
    LET p == preps[Op(h).prep] IN
    /\ lreq[h].pc = "publish" /\ ~p.done /\ p.prev # published.seq /\ End(h)
    /\ UNCHANGED <<server, lrows, budget>>

MarkPublished(h) ==
    /\ lreq[h].pc = "published" /\ At(h, "follow")
    /\ pops' = [pops EXCEPT ![lreq[h].op].state = "published"]
    /\ UNCHANGED <<server, wish, shown, budget>>
Follow(h) ==
    /\ lreq[h].pc = "follow" /\ At(h, "include")
    /\ shown' = preps[Op(h).prep].prev + 1
    /\ UNCHANGED <<server, pops, wish, budget>>
IncludedNamed(h) == Op(h).keys                       \* mutant: the keys the change named, frozen or not
Included(h) == IF Op(h).kind = "unfreeze" THEN Op(h).added ELSE {}
Include(h) ==
    /\ lreq[h].pc = "include" /\ End(h)
    /\ wish' = [n \in DOMAIN wish |-> IF wish[n].key \in Included(h) /\ wish[n].state = "approved"
                                      THEN [wish[n] EXCEPT !.state = "included"] ELSE wish[n]]
    /\ UNCHANGED <<server, pops, shown, budget>>

Crash ==
    /\ Spent("crash") /\ lreq' = [h \in Handlers |-> Off]
    /\ UNCHANGED <<server, lrows>>

Step(h) ==
    \/ Decide(h) \/ Record(h) \/ MarkPrepared(h) \/ Publish(h) \/ PublishRefused(h)
    \/ MarkPublished(h) \/ Follow(h) \/ Include(h)
Next ==
    \/ \E h \in Handlers : Step(h) \/ (\E n \in DOMAIN pops : CompleteBegin(h, n))
    \/ \E h \in Handlers, n \in DOMAIN wish, st \in {"approved", "refused"} : DecideBegin(h, n, st)
    \/ \E h \in Handlers, kind \in {"freeze", "unfreeze"}, K \in SUBSET Keys, o \in Papers : Prepare(h, kind, K, o)
    \/ Crash \/ \E k \in Keys : Ask(k)

\* "'included' only ever means the list actually moved" (whitelist.go:369-371): a request marked
\* included has its key in a published change that added it, whichever completions were repeated,
\* interrupted or overtaken by a freeze of the same key; and a change said to be published was.
IncludedTrue ==
    /\ \A n \in DOMAIN wish : wish[n].state = "included" =>
        \E m \in DOMAIN pops : pops[m].kind = "unfreeze" /\ wish[n].key \in pops[m].added /\ preps[pops[m].prep].done
    /\ \A m \in DOMAIN pops : pops[m].state = "published" => preps[pops[m].prep].done
=============================================================================
