--------------------------- MODULE EscrowPromise ---------------------------
(***************************************************************************)
(* What the subscription escrow promises, with no database, no watcher and *)
(* no retries: each payment goes one way, to the issuer for tokens already *)
(* delivered, or back to its subscriber.                                    *)
(***************************************************************************)
EXTENDS Integers

CONSTANTS Subs, Coins, Owner

VARIABLES
    clock,      \* 0 open, 1 the close has passed, 2 too late to close, 3 the deadline
    money,      \* where each payment is
    delivered,  \* subscriptions whose tokens are out
    consent     \* delivered subscriptions whose money the issuer gives up

promise == <<clock, money, delivered, consent>>

Init ==
    /\ clock = 0 /\ money = [c \in Coins |-> "absent"]
    /\ delivered = {} /\ consent = {}

InEscrow(s) == {c \in Coins : Owner[c] = s /\ money[c] = "escrow"}
Send(C, to) == money' = [c \in Coins |-> IF c \in C THEN to ELSE money[c]]

Advance == clock < 3 /\ clock' = clock + 1 /\ UNCHANGED <<money, delivered, consent>>

PayIn(c) ==
    /\ money[c] = "absent"
    /\ Send({c}, "escrow")
    /\ UNCHANGED <<clock, delivered, consent>>

\* Tokens go out once, between the close and the deadline, against money in escrow.
Deliver(s) ==
    /\ clock \in {1, 2} /\ s \notin delivered /\ InEscrow(s) # {}
    /\ delivered' = delivered \cup {s}
    /\ UNCHANGED <<clock, money, consent>>

\* The issuer names a delivered subscription whose money is to go back.
GiveUp(S) ==
    /\ S \subseteq delivered
    /\ consent' = consent \cup S
    /\ UNCHANGED <<clock, money, delivered>>

\* The raise: only money whose tokens are out, only from the close.
Release(C) ==
    /\ clock >= 1 /\ \A c \in C : money[c] = "escrow" /\ Owner[c] \in delivered
    /\ Send(C, "issuer")
    /\ UNCHANGED <<clock, delivered, consent>>

\* Money back: anyone's from the deadline, before it only what was not delivered
\* or what the issuer gave up.
Return(C) ==
    /\ \A c \in C : money[c] = "escrow"
    /\ clock = 3 \/ \A c \in C : Owner[c] \notin delivered \/ Owner[c] \in consent
    /\ Send(C, "subscriber")
    /\ UNCHANGED <<clock, delivered, consent>>

Next ==
    \/ Advance
    \/ \E c \in Coins : PayIn(c)
    \/ \E s \in Subs : Deliver(s)
    \/ \E S \in SUBSET Subs : GiveUp(S)
    \/ \E C \in SUBSET Coins : Release(C) \/ Return(C)

Spec == Init /\ [][Next]_promise
=============================================================================
