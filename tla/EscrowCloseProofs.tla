------------------------- MODULE EscrowCloseProofs -------------------------
(* What holds of the subscription escrow for every value of its constants.  *)
EXTENDS EscrowClose, Sums

-----------------------------------------------------------------------------
(* Typing.                                                                  *)

\* A spend built over S is a spend of the platform's, unsigned.
LEMMA NewSpendType ==
    ASSUME TypeOK, NEW kind \in Kinds, NEW S \in SUBSET Subs
    PROVE  /\ NewSpend(kind, S) \in Spends
           /\ NewSpend(kind, S).tx \in Txs
           /\ Insert(kind, S) \subseteq Spends
<1>1. CoinsOf(S) \in SUBSET Coins
  BY DEF CoinsOf, Live, TypeOK
<1>2. floor \in Floors \cup {0}
  BY DEF TypeOK
<1>3. NewSpend(kind, S) \in Spends /\ NewSpend(kind, S).tx \in Txs
  BY <1>1, <1>2 DEF NewSpend, Spends, Txs
<1>4. spends \subseteq Spends
  BY DEF TypeOK
<1> QED
  BY <1>3, <1>4 DEF Insert

\* Moving a spend to another state, or dropping it, leaves only spends.
LEMMA MovedType ==
    ASSUME TypeOK, NEW t, NEW to \in {"built", "broadcasting", "broadcast"}
    PROVE  Moved(t, to) \subseteq Spends /\ Without(t) \subseteq Spends
<1>1. spends \subseteq Spends
  BY DEF TypeOK
<1>2. \A sp \in Spends : [sp EXCEPT !.state = to] \in Spends
  BY DEF Spends
<1> QED
  BY <1>1, <1>2 DEF Moved, Without

\* A transfer counts once, for its subscription and for its investor.
LEMMA TransferredType ==
    ASSUME TypeOK, NEW s \in Subs, Transferred(s)
    PROVE  tokens' \in [Subs -> Nat] /\ balance' \in [Investors -> Nat]
<1>1. Investor[s] \in Investors
  BY EscrowAssumption DEF EscrowAssumption
<1>2. tokens \in [Subs -> Nat] /\ balance \in [Investors -> Nat]
  BY DEF TypeOK
<1>3. tokens[s] + 1 \in Nat /\ balance[Investor[s]] + 1 \in Nat
  BY <1>1, <1>2
<1>4. tokens' = [tokens EXCEPT ![s] = tokens[s] + 1]
      /\ balance' = [balance EXCEPT ![Investor[s]] = balance[Investor[s]] + 1]
  BY DEF Transferred
<1> QED
  BY <1>2, <1>3, <1>4

LEMMA TypeInit == Init => TypeOK
<1> SUFFICES ASSUME Init PROVE TypeOK
  OBVIOUS
<1>1. cur \in Txs
  BY DEF Init, NoTx, Txs
<1>2. budget \in [{"crash", "reorg", "evict", "lost"} -> Nat]
  BY EscrowAssumption DEF Init, EscrowAssumption
<1>3. tokens \in [Subs -> Nat] /\ balance \in [Investors -> Nat] /\ dtx \in [Subs -> BOOLEAN]
  BY DEF Init
<1>4. sub \in [Subs -> SubStates] /\ st \in [Subs -> StStates]
  BY DEF Init, SubStates, StStates
<1>5. /\ clock \in 0..3 /\ paid \subseteq Coins /\ txs \subseteq Txs /\ floor \in Floors
      /\ ledger \subseteq [tx : Txs, sub : Subs] /\ spends \subseteq Spends
      /\ seen \subseteq Subs /\ work \subseteq Subs /\ todo \subseteq Subs /\ who \subseteq Subs
      /\ named \subseteq Subs
  BY DEF Init
<1>6. /\ pc \in Steps /\ actor \in {"nobody", "issuer", "watcher"} /\ failed \in BOOLEAN
  BY DEF Init, Steps
<1> QED
  BY <1>1, <1>2, <1>3, <1>4, <1>5, <1>6 DEF TypeOK

\* Every step keeps every variable in its type.
LEMMA TypeNext == TypeOK /\ [Next]_vars => TypeOK'
<1> SUFFICES ASSUME TypeOK, [Next]_vars PROVE TypeOK'
  OBVIOUS
<1> USE DEF chain, policy, rows, job
<1>1. CASE Environment
  <2>1. ASSUME NEW s \in Subs, Subscribe(s) PROVE TypeOK'
    BY <2>1 DEF Subscribe, SubStates, TypeOK
  <2>2. ASSUME NEW c \in Coins, Deposit(c) PROVE TypeOK'
    BY <2>2 DEF Deposit, TypeOK
  <2>3. ASSUME NEW c \in Coins, OutsideReturn(c) PROVE TypeOK'
    BY <2>3 DEF OutsideReturn, Txs, TypeOK
  <2>4. ASSUME NEW c \in Coins, DepositReorg(c) PROVE TypeOK'
    BY <2>4 DEF DepositReorg, Inject, TypeOK
  <2>5. ASSUME NEW t \in txs, Evict(t) PROVE TypeOK'
    BY <2>5 DEF Evict, Inject, TypeOK
  <2>6. CASE Advance
    BY <2>6, EscrowAssumption DEF Advance, EscrowAssumption, TypeOK
  <2>7. CASE FloorRises
    BY <2>7 DEF FloorRises, TypeOK
  <2>8. CASE Crash
    <3>1. NoTx \in Txs
      BY DEF NoTx, Txs
    <3>2. budget' \in [{"crash", "reorg", "evict", "lost"} -> Nat]
      BY <2>8 DEF Crash, Inject, TypeOK
    <3> QED
      BY <2>8, <3>1, <3>2 DEF Crash, Free, Steps, TypeOK
  <2> QED
    BY <1>1, <2>1, <2>2, <2>3, <2>4, <2>5, <2>6, <2>7, <2>8 DEF Environment
<1>2. CASE DepositPass
  <2>1. CASE WatchScan
    BY <2>1 DEF WatchScan, TypeOK
  <2>2. ASSUME NEW s \in Subs, Credit(s) PROVE TypeOK'
    BY <2>2 DEF Credit, SubStates, TypeOK
  <2> QED
    BY <1>2, <2>1, <2>2 DEF DepositPass
<1>3. ASSUME NEW s \in Subs, Deliver(s) PROVE TypeOK'
  <2>1. CASE DeliverDecided(s)
    BY <2>1 DEF DeliverDecided, TypeOK
  <2>2. CASE DeliverBegin(s)
    BY <2>2 DEF DeliverBegin, Steps, StStates, TypeOK
  <2>3. CASE DeliverResume(s)
    BY <2>3 DEF DeliverResume, Steps, TypeOK
  <2>4. CASE TransferDone(s)
    <3>1. tokens' \in [Subs -> Nat] /\ balance' \in [Investors -> Nat]
      BY <2>4, TransferredType DEF TransferDone
    <3> QED
      BY <2>4, <3>1 DEF TransferDone, Steps, TypeOK
  <2>5. CASE TransferRefused(s)
    BY <2>5 DEF TransferRefused, TransferFailedWith, Steps, StStates, TypeOK
  <2>6. CASE TransferLost(s)
    <3>1. tokens' \in [Subs -> Nat] /\ balance' \in [Investors -> Nat]
      BY <2>6, TransferredType DEF TransferLost
    <3>2. st' \in [Subs -> StStates] /\ budget' \in [{"crash", "reorg", "evict", "lost"} -> Nat]
      BY <2>6 DEF TransferLost, TransferFailedWith, Inject, StStates, TypeOK
    <3> QED
      BY <2>6, <3>1, <3>2 DEF TransferLost, TransferFailedWith, Steps, TypeOK
  <2>7. CASE DeliverRecord(s)
    BY <2>7 DEF DeliverRecord, Steps, TypeOK
  <2>8. CASE DeliverStamp(s)
    BY <2>8 DEF DeliverStamp, Steps, StStates, TypeOK
  <2> QED
    BY <1>3, <2>1, <2>2, <2>3, <2>4, <2>5, <2>6, <2>7, <2>8 DEF Deliver
<1>4. ASSUME NEW s \in Subs, Apply(s) PROVE TypeOK'
  <2>1. Outcome \in StStates \cap SubStates /\ "pending" \in StStates
    BY DEF Outcome, StStates, SubStates
  <2>2. [tx |-> cur, sub |-> s] \in [tx : Txs, sub : Subs]
    BY DEF TypeOK
  <2> QED
    BY <1>4, <2>1, <2>2 DEF Apply, TypeOK
<1>5. CASE DeliverEnd
  BY <1>5 DEF DeliverEnd, Steps, TypeOK
<1>6. CASE CloseRelease
  <2> DEFINE deliver == {s \in work : st[s] = "awaiting_release"}
  <2>1. deliver \in SUBSET Subs /\ "release" \in Kinds
    BY DEF TypeOK, Kinds
  <2>2. spends' \subseteq Spends
    BY <1>6, <2>1, NewSpendType DEF CloseRelease, TypeOK
  <2> QED
    BY <1>6, <2>2 DEF CloseRelease, Steps, TypeOK
<1>7. CASE CloseCancel
  <2> DEFINE undelivered == {s \in work : st[s] \in {"delivery_failed", "awaiting_cancel"}}
  <2>1. undelivered \in SUBSET Subs /\ "cancel" \in Kinds
    BY DEF TypeOK, Kinds
  <2>2. spends' \subseteq Spends
    BY <1>7, <2>1, NewSpendType DEF CloseCancel, TypeOK
  <2>3. NoTx \in Txs
    BY DEF NoTx, Txs
  <2> QED
    BY <1>7, <2>1, <2>2, <2>3 DEF CloseCancel, Free, Steps, TypeOK
<1>8. CASE MarkCancel
  <2>1. NoTx \in Txs
    BY DEF NoTx, Txs
  <2>2. st' \in [Subs -> StStates]
    BY <1>8 DEF MarkCancel, StStates, TypeOK
  <2> QED
    BY <1>8, <2>1, <2>2 DEF MarkCancel, Free, Steps, TypeOK
<1>9. CASE RefundArm
  <2>1. spends' \subseteq Spends
    BY <1>9, MovedType DEF RefundArm
  <2> QED
    BY <1>9, <2>1 DEF RefundArm, Steps, TypeOK
<1>10. CASE SendAnswered \/ SendUnanswered
  <2>1. NoTx \in Txs
    BY DEF NoTx, Txs
  <2>2. CASE SendAccepted
    BY <2>2 DEF SendAccepted, Steps, TypeOK
  <2>3. CASE SendGone
    BY <2>1, <2>3, MovedType DEF SendGone, Free, Steps, TypeOK
  <2>4. CASE SendRefused
    <3>1. AfterRefusal(cur) \subseteq Spends
      BY MovedType DEF AfterRefusal
    <3> QED
      BY <2>1, <2>4, <3>1 DEF SendRefused, Free, Steps, TypeOK
  <2>5. CASE SendUnanswered
    BY <2>1, <2>5 DEF SendUnanswered, Free, Steps, TypeOK
  <2> QED
    BY <1>10, <2>2, <2>3, <2>4, <2>5 DEF SendAnswered
<1>11. CASE MoveToBroadcast
  <2>1. spends' \subseteq Spends
    BY <1>11, MovedType DEF MoveToBroadcast
  <2>2. {Owner[c] : c \in cur.coins} \subseteq Subs
    BY EscrowAssumption DEF TypeOK, Txs, EscrowAssumption
  <2> QED
    BY <1>11, <2>1, <2>2 DEF MoveToBroadcast, Steps, TypeOK
<1>12. CASE ApplyDone
  BY <1>12 DEF ApplyDone, Free, Steps, NoTx, Txs, TypeOK
<1>13. CASE Close
  BY <1>13 DEF Close, InEscrow, Steps, TypeOK
<1>14. ASSUME NEW names \in SUBSET Subs, CancelRequest(names) PROVE TypeOK'
  <2> DEFINE S == {s \in Subs : Cancellable(s, names)}
  <2>1. S \in SUBSET Subs /\ "cancel" \in Kinds
    BY DEF Kinds
  <2>2. Insert("cancel", S) \subseteq Spends
    BY <2>1, NewSpendType
  <2> QED
    BY <1>14, <2>2 DEF CancelRequest, Steps, TypeOK
<1>15. ASSUME NEW sp \in spends, Sign(sp) \/ SignAgain(sp) \/ Heal(sp) PROVE TypeOK'
  <2>1. sp.tx \in Txs
    BY DEF TypeOK, Spends
  <2>2. CASE Sign(sp)
    BY <2>1, <2>2, MovedType DEF Sign, BeginSend, Steps, TypeOK
  <2>3. CASE SignAgain(sp) \/ Heal(sp)
    BY <2>1, <2>3 DEF SignAgain, Heal, BeginSend, Steps, TypeOK
  <2> QED
    BY <1>15, <2>2, <2>3
<1>16. CASE RefundBuild
  <2>1. Due \in SUBSET Subs /\ "refund" \in Kinds
    BY DEF Due, Kinds
  <2>2. Insert("refund", Due) \subseteq Spends /\ NewSpend("refund", Due).tx \in Txs
    BY <2>1, NewSpendType
  <2> QED
    BY <1>16, <2>2 DEF RefundBuild, Steps, TypeOK
<1>17. CASE UNCHANGED vars
  BY <1>17 DEF vars, TypeOK
<1> QED
  BY <1>1, <1>2, <1>3, <1>4, <1>5, <1>6, <1>7, <1>8, <1>9, <1>10, <1>11, <1>12, <1>13,
     <1>14, <1>15, <1>16, <1>17 DEF Next, HolderStep, Issuer

\* Every variable stays in the range its column or its step can hold.
THEOREM Typed == Spec => []TypeOK
<1> QED
  BY TypeInit, TypeNext, PTL DEF Spec

-----------------------------------------------------------------------------
(* Steps that leave the money and the deliveries alone.                     *)

\* The environment and the deposit pass touch no settlement, no spend and no
\* delivery; a restart forgets the holder, and nothing else moves it on.
LEMMA Bystander ==
    ASSUME Environment \/ DepositPass \/ UNCHANGED vars
    PROVE  /\ UNCHANGED <<tokens, balance, st, dtx, spends>>
           /\ UNCHANGED <<pc, who, cur>> \/ (pc' = "idle" /\ cur' = NoTx)
           /\ \A t \in txs' : t \in txs \/ t.kind = "outside"
<1> USE DEF chain, policy, rows, job
<1>1. ASSUME NEW s \in Subs, Subscribe(s) \/ Credit(s)
      PROVE  UNCHANGED <<tokens, balance, st, dtx, spends, pc, who, cur, txs>>
  BY <1>1 DEF Subscribe, Credit
<1>2. ASSUME NEW c \in Coins, Deposit(c) \/ DepositReorg(c)
      PROVE  UNCHANGED <<tokens, balance, st, dtx, spends, pc, who, cur, txs>>
  BY <1>2 DEF Deposit, DepositReorg
<1>3. ASSUME NEW c \in Coins, OutsideReturn(c)
      PROVE  /\ UNCHANGED <<tokens, balance, st, dtx, spends, pc, who, cur>>
             /\ \A t \in txs' : t \in txs \/ t.kind = "outside"
  BY <1>3 DEF OutsideReturn
<1>4. ASSUME NEW t \in txs, Evict(t)
      PROVE  UNCHANGED <<tokens, balance, st, dtx, spends, pc, who, cur>> /\ txs' \subseteq txs
  BY <1>4 DEF Evict
<1>5. ASSUME Advance \/ FloorRises \/ WatchScan \/ UNCHANGED vars
      PROVE  UNCHANGED <<tokens, balance, st, dtx, spends, pc, who, cur, txs>>
  BY <1>5 DEF Advance, FloorRises, WatchScan, vars
<1>6. ASSUME Crash
      PROVE  /\ UNCHANGED <<tokens, balance, st, dtx, spends, txs>>
             /\ pc' = "idle" /\ cur' = NoTx
  BY <1>6 DEF Crash, Free
<1> QED
  BY <1>1, <1>2, <1>3, <1>4, <1>5, <1>6 DEF Environment, DepositPass

\* So do these steps of a close, and the end of an operation.
LEMMA Bookless ==
    ASSUME NEW s \in Subs,
           Close \/ DeliverDecided(s) \/ DeliverEnd \/ ApplyDone \/ SendUnanswered
    PROVE  /\ UNCHANGED <<tokens, balance, st, dtx, spends>>
           /\ pc' \in {"deliver", "release", "idle"}
           /\ cur' = cur \/ cur' = NoTx
  BY DEF Close, DeliverDecided, DeliverEnd, ApplyDone, SendUnanswered, Free, chain, policy, rows, job

-----------------------------------------------------------------------------
(* One delivery per subscription.                                           *)

\* Tokens that are out left a settlement that says so, and the subscription being
\* transferred has its intent written and no tokens out.
DeliveryInv ==
    \A s \in Subs :
        /\ tokens[s] <= 1
        /\ tokens[s] > 0 => st[s] \notin Undecided
        /\ pc = "transfer" /\ s \in who => st[s] = "delivering" /\ tokens[s] = 0

LEMMA DeliveryNext == TypeOK /\ DeliveryInv /\ [Next]_vars => DeliveryInv'
<1> SUFFICES ASSUME TypeOK, DeliveryInv, [Next]_vars PROVE DeliveryInv'
  OBVIOUS
<1> USE DEF chain, policy, rows, job
<1>0. ASSUME UNCHANGED <<tokens, st>>, UNCHANGED <<pc, who>> \/ pc' # "transfer" PROVE DeliveryInv'
  BY <1>0 DEF DeliveryInv
<1>1. CASE Environment \/ DepositPass \/ UNCHANGED vars
  BY <1>0, <1>1, Bystander
<1>2. ASSUME NEW s \in Subs, Deliver(s) PROVE DeliveryInv'
  <2>1. CASE DeliverDecided(s)
    BY <1>0, <2>1, Bookless
  <2>2. CASE DeliverBegin(s)
    BY <2>2 DEF DeliverBegin, DeliveryInv, Undecided, TypeOK
  <2>3. CASE DeliverResume(s)
    BY <1>0, <2>3 DEF DeliverResume
  <2>4. CASE TransferDone(s)
    BY <2>4 DEF TransferDone, Transferred, DeliveryInv, Undecided, TypeOK
  <2>5. CASE TransferRefused(s)
    BY <2>5 DEF TransferRefused, TransferFailedWith, DeliveryInv, Undecided, TypeOK
  <2>6. CASE TransferLost(s)
    BY <2>6 DEF TransferLost, Transferred, TransferFailedWith, DeliveryInv, Undecided, TypeOK
  <2>7. CASE DeliverRecord(s)
    BY <1>0, <2>7 DEF DeliverRecord
  <2>8. CASE DeliverStamp(s)
    BY <2>8 DEF DeliverStamp, DeliveryInv, Undecided, TypeOK
  <2> QED
    BY <1>2, <2>1, <2>2, <2>3, <2>4, <2>5, <2>6, <2>7, <2>8 DEF Deliver
<1>3. CASE DeliverEnd \/ CloseRelease \/ CloseCancel
  BY <1>0, <1>3 DEF DeliverEnd, CloseRelease, CloseCancel, Free
<1>4. CASE MarkCancel
  BY <1>4 DEF MarkCancel, Free, DeliveryInv, Undecided, TypeOK
<1>5. CASE RefundBuild \/ RefundArm \/ SendAnswered \/ SendUnanswered \/ MoveToBroadcast \/ ApplyDone
  BY <1>0, <1>5 DEF RefundBuild, RefundArm, SendAnswered, SendAccepted, SendGone, SendRefused,
     SendUnanswered, MoveToBroadcast, ApplyDone, Free
<1>6. ASSUME NEW s \in Subs, Apply(s) PROVE DeliveryInv'
  BY <1>6 DEF Apply, Outcome, DeliveryInv, Undecided, TypeOK
<1>7. ASSUME NEW sp \in spends, Sign(sp) \/ SignAgain(sp) \/ Heal(sp) PROVE DeliveryInv'
  BY <1>0, <1>7 DEF Sign, SignAgain, Heal, BeginSend
<1>8. ASSUME NEW names \in SUBSET Subs, CancelRequest(names) PROVE DeliveryInv'
  BY <1>0, <1>8 DEF CancelRequest
<1>9. CASE Close
  BY <1>0, <1>9 DEF Close
<1> QED
  BY <1>1, <1>2, <1>3, <1>4, <1>5, <1>6, <1>7, <1>8, <1>9 DEF Next, HolderStep, Issuer

\* However a close is interrupted and repeated, and whichever faults strike, the
\* tokens of a subscription are transferred at most once (deliverForEscrow).
THEOREM DeliveredOnce == Spec => []NoDoubleDelivery
<1>1. Init => DeliveryInv
  BY DEF Init, DeliveryInv
<1>2. DeliveryInv => NoDoubleDelivery
  BY DEF DeliveryInv, NoDoubleDelivery
<1> QED
  BY <1>1, <1>2, DeliveryNext, Typed, PTL DEF Spec

-----------------------------------------------------------------------------
(* A coin is sent in one spend.                                             *)

Overlap(x, y) == x.tx.coins \cap y.tx.coins # {}

\* Two spends share a coin only when one is a refund not armed yet and the other a
\* cancel.
Disjoint(SP) ==
    /\ \A x \in SP : x.tx.coins # {}
    /\ \A x, y \in SP :
          Overlap(x, y) /\ x # y =>
             \/ x.tx.kind = "refund" /\ x.state = "built" /\ y.tx.kind = "cancel"
             \/ y.tx.kind = "refund" /\ y.state = "built" /\ x.tx.kind = "cancel"

\* While a refund is being armed the cancel it shares a coin with is unsigned, and
\* a refund being sent is no longer merely built.
SpendsInv ==
    /\ Disjoint(spends)
    /\ pc = "refund" =>
          /\ cur.kind = "refund"
          /\ \A y \in spends :
                y.tx.coins \cap cur.coins # {} /\ y.tx # cur => y.state = "built" /\ y.tx.kind = "cancel"
    /\ pc \in {"send", "sent"} /\ cur.kind = "refund" =>
          \A y \in spends : y.tx = cur => y.state # "built"

\* A spend built where heldCoins allows it shares a coin with no spend but an
\* unsigned cancel, and only if it is a refund.
LEMMA InsertDisjoint ==
    ASSUME TypeOK, Disjoint(spends), NEW kind \in Kinds, NEW S \in SUBSET Subs,
           CoinsOf(S) # {}, CoinsOf(S) \cap Held(kind) = {}
    PROVE  /\ Disjoint(Insert(kind, S))
           /\ \A y \in Insert(kind, S) :
                 y.tx.coins \cap CoinsOf(S) # {} /\ y.tx # NewSpend(kind, S).tx
                    => kind = "refund" /\ y.state = "built" /\ y.tx.kind = "cancel"
<1> DEFINE new == NewSpend(kind, S)
<1>1. new.tx.kind = kind /\ new.tx.coins = CoinsOf(S) /\ new.state = "built"
  BY DEF NewSpend
<1>2. ASSUME NEW y \in spends \ Unsigned(kind), y.tx.coins \cap CoinsOf(S) # {}
      PROVE  kind = "refund" /\ y.state = "built" /\ y.tx.kind = "cancel"
  <2>1. y \notin Holders(kind)
    BY <1>2 DEF Held
  <2> QED
    BY <1>2, <2>1 DEF Holders, Unsigned
<1>3. Disjoint(Insert(kind, S))
  <2>1. \A x \in Insert(kind, S) : x.tx.coins # {}
    BY <1>1 DEF Insert, Disjoint
  <2>2. ASSUME NEW x \in Insert(kind, S), NEW y \in Insert(kind, S), Overlap(x, y), x # y
        PROVE  \/ x.tx.kind = "refund" /\ x.state = "built" /\ y.tx.kind = "cancel"
               \/ y.tx.kind = "refund" /\ y.state = "built" /\ x.tx.kind = "cancel"
    <3>1. CASE x = new
      BY <1>1, <1>2, <2>2, <3>1 DEF Insert, Overlap
    <3>2. CASE y = new
      BY <1>1, <1>2, <2>2, <3>2 DEF Insert, Overlap
    <3>3. CASE x # new /\ y # new
      BY <2>2, <3>3 DEF Insert, Disjoint
    <3> QED
      BY <3>1, <3>2, <3>3
  <2> QED
    BY <2>1, <2>2 DEF Disjoint
<1> QED
  BY <1>2, <1>3 DEF Insert

\* Moving the spend of t keeps the spends apart, if t is no refund or the cancels it
\* shares a coin with go.
LEMMA MovedDisjoint ==
    ASSUME TypeOK, Disjoint(spends), NEW t, NEW to \in {"built", "broadcasting", "broadcast"},
           NEW gone \in SUBSET spends,
           t.kind = "refund" =>
              \A x, y \in spends : x.tx = t /\ Overlap(x, y) /\ x # y => y \in gone
    PROVE  Disjoint(Moved(t, to) \ gone) /\ Disjoint(Without(t))
<1>1. Disjoint(Without(t))
  BY DEF Disjoint, Without
<1>2. ASSUME NEW z \in Moved(t, to)
      PROVE  \E x \in spends : z.tx = x.tx /\ (IF x.tx = t THEN z = [x EXCEPT !.state = to] ELSE z = x)
  <2>1. \A x \in spends : [x EXCEPT !.state = to].tx = x.tx
    BY DEF TypeOK, Spends
  <2> QED
    BY <1>2, <2>1 DEF Moved, Without
<1>3. \A z \in Moved(t, to) : z.tx.coins # {}
  BY <1>2 DEF Disjoint
<1>4. ASSUME NEW z \in Moved(t, to) \ gone, NEW w \in Moved(t, to) \ gone, Overlap(z, w), z # w
      PROVE  \/ z.tx.kind = "refund" /\ z.state = "built" /\ w.tx.kind = "cancel"
             \/ w.tx.kind = "refund" /\ w.state = "built" /\ z.tx.kind = "cancel"
  <2>1. PICK x \in spends : z.tx = x.tx /\ (IF x.tx = t THEN z = [x EXCEPT !.state = to] ELSE z = x)
    BY <1>2
  <2>2. PICK y \in spends : w.tx = y.tx /\ (IF y.tx = t THEN w = [y EXCEPT !.state = to] ELSE w = y)
    BY <1>2
  <2>3. x # y /\ Overlap(x, y) /\ Overlap(y, x)
    BY <1>4, <2>1, <2>2 DEF Overlap
  <2>4. CASE x.tx.kind = "refund" /\ x.state = "built" /\ y.tx.kind = "cancel"
    BY <1>4, <2>1, <2>2, <2>3, <2>4
  <2>5. CASE y.tx.kind = "refund" /\ y.state = "built" /\ x.tx.kind = "cancel"
    BY <1>4, <2>1, <2>2, <2>3, <2>5
  <2> QED
    BY <2>3, <2>4, <2>5 DEF Disjoint
<1>5. Disjoint(Moved(t, to) \ gone)
  BY <1>3, <1>4 DEF Disjoint
<1> QED
  BY <1>1, <1>5

LEMMA SpendsNext == TypeOK /\ SpendsInv /\ [Next]_vars => SpendsInv'
<1> SUFFICES ASSUME TypeOK, SpendsInv, [Next]_vars PROVE SpendsInv'
  OBVIOUS
<1> USE DEF chain, policy, rows, job
<1>0. ASSUME UNCHANGED spends, UNCHANGED <<pc, cur>> \/ pc' \notin {"refund", "send", "sent"}
      PROVE  SpendsInv'
  BY <1>0 DEF SpendsInv, Disjoint, Overlap
<1>1. CASE Environment \/ DepositPass \/ UNCHANGED vars
  BY <1>0, <1>1, Bystander
<1>2. ASSUME NEW s \in Subs, Deliver(s) \/ Apply(s) PROVE SpendsInv'
  BY <1>0, <1>2 DEF Deliver, Apply, DeliverDecided, DeliverBegin, DeliverResume, TransferDone,
     TransferRefused, TransferLost, TransferFailedWith, DeliverRecord, DeliverStamp
<1>3. CASE DeliverEnd \/ MarkCancel \/ SendUnanswered \/ ApplyDone \/ Close
  BY <1>0, <1>3 DEF DeliverEnd, MarkCancel, SendUnanswered, ApplyDone, Close, Free
<1>4. CASE CloseRelease
  <2> DEFINE deliver == {s \in work : st[s] = "awaiting_release"}
  <2>1. CASE UNCHANGED spends
    BY <1>0, <1>4, <2>1 DEF CloseRelease
  <2>2. CASE Releasable(deliver) /\ spends' = Insert("release", deliver)
    <3>1. deliver \in SUBSET Subs /\ "release" \in Kinds
      BY DEF TypeOK, Kinds
    <3>2. Disjoint(spends')
      BY <2>2, <3>1, InsertDisjoint DEF Releasable, SpendsInv
    <3> QED
      BY <1>4, <3>2 DEF CloseRelease, SpendsInv
  <2> QED
    BY <1>4, <2>1, <2>2 DEF CloseRelease
<1>5. CASE CloseCancel
  <2> DEFINE undelivered == {s \in work : st[s] \in {"delivery_failed", "awaiting_cancel"}}
  <2>1. CASE UNCHANGED spends
    BY <1>0, <1>5, <2>1 DEF CloseCancel, Free
  <2>2. CASE Returnable("cancel", undelivered) /\ spends' = Insert("cancel", undelivered)
    <3>1. undelivered \in SUBSET Subs /\ "cancel" \in Kinds
      BY DEF TypeOK, Kinds
    <3>2. Disjoint(spends')
      BY <2>2, <3>1, InsertDisjoint DEF Returnable, SpendsInv
    <3> QED
      BY <1>5, <3>2 DEF CloseCancel, Free, SpendsInv
  <2> QED
    BY <1>5, <2>1, <2>2 DEF CloseCancel
<1>6. ASSUME NEW names \in SUBSET Subs, CancelRequest(names) PROVE SpendsInv'
  <2> DEFINE S == {s \in Subs : Cancellable(s, names)}
  <2>1. S \in SUBSET Subs /\ "cancel" \in Kinds
    BY DEF Kinds
  <2>2. Returnable("cancel", S) /\ spends' = Insert("cancel", S) /\ pc' = "mark"
    BY <1>6 DEF CancelRequest
  <2>3. Disjoint(spends')
    BY <2>1, <2>2, InsertDisjoint DEF Returnable, SpendsInv
  <2> QED
    BY <2>2, <2>3 DEF SpendsInv
<1>7. ASSUME NEW sp \in spends, Sign(sp) PROVE SpendsInv'
  <2>1. Disjoint(Moved(sp.tx, "broadcasting") \ {})
    BY <1>7, MovedDisjoint DEF Sign, SpendsInv
  <2>2. pc' = "send" /\ cur' = sp.tx /\ spends' = Moved(sp.tx, "broadcasting") /\ sp.tx.kind # "refund"
    BY <1>7 DEF Sign, BeginSend
  <2> QED
    BY <2>1, <2>2 DEF SpendsInv
<1>8. ASSUME NEW sp \in spends, SignAgain(sp) \/ Heal(sp) PROVE SpendsInv'
  <2>1. UNCHANGED spends /\ pc' = "send" /\ cur' = sp.tx /\ sp.state = "broadcasting"
    BY <1>8 DEF SignAgain, Heal, BeginSend
  <2>2. ASSUME NEW y \in spends, y.tx = sp.tx PROVE y.state # "built"
    BY <2>1, <2>2 DEF SpendsInv, Disjoint, Overlap
  <2> QED
    BY <2>1, <2>2 DEF SpendsInv
<1>9. CASE RefundBuild
  <2>1. Due \in SUBSET Subs /\ "refund" \in Kinds
    BY DEF Due, Kinds
  <2>2. /\ Returnable("refund", Due) /\ spends' = Insert("refund", Due)
        /\ pc' = "refund" /\ cur' = NewSpend("refund", Due).tx
    BY <1>9 DEF RefundBuild
  <2>3. /\ Disjoint(spends')
        /\ \A y \in spends' : y.tx.coins \cap CoinsOf(Due) # {} /\ y.tx # cur'
               => y.state = "built" /\ y.tx.kind = "cancel"
    BY <2>1, <2>2, InsertDisjoint DEF Returnable, SpendsInv
  <2>4. cur'.kind = "refund" /\ cur'.coins = CoinsOf(Due)
    BY <2>2 DEF NewSpend
  <2> QED
    BY <2>2, <2>3, <2>4 DEF SpendsInv
<1>10. CASE RefundArm
  <2>1. /\ pc = "refund" /\ pc' = "send" /\ UNCHANGED cur
        /\ spends' = Moved(cur, "broadcasting") \ Unsigned("cancel")
    BY <1>10 DEF RefundArm
  <2>2. cur.kind = "refund"
    BY <2>1 DEF SpendsInv
  <2>3. ASSUME NEW x \in spends, NEW y \in spends, x.tx = cur, Overlap(x, y), x # y
        PROVE  y \in Unsigned("cancel")
    BY <2>1, <2>2, <2>3 DEF SpendsInv, Disjoint, Overlap, Unsigned
  <2>4. Disjoint(spends')
    BY <2>1, <2>3, MovedDisjoint DEF SpendsInv, Unsigned
  <2>5. \A y \in spends' : y.tx = cur => y.state # "built"
    BY <2>1 DEF Moved, Without, TypeOK, Spends
  <2> QED
    BY <2>1, <2>4, <2>5 DEF SpendsInv
<1>11. CASE SendAccepted
  BY <1>11 DEF SendAccepted, SpendsInv, Disjoint, Overlap
<1>12. CASE SendGone
  BY <1>12 DEF SendGone, Free, Without, SpendsInv, Disjoint, Overlap
<1>13. CASE SendRefused
  <2>1. Disjoint(AfterRefusal(cur))
    <3>1. CASE cur.kind = "refund"
      BY <3>1 DEF AfterRefusal, Without, SpendsInv, Disjoint
    <3>2. CASE cur.kind # "refund"
      <4>1. Disjoint(Moved(cur, "built") \ {})
        BY <3>2, MovedDisjoint DEF SpendsInv
      <4> QED
        BY <3>2, <4>1 DEF AfterRefusal
    <3> QED
      BY <3>1, <3>2
  <2> QED
    BY <1>13, <2>1 DEF SendRefused, Free, SpendsInv
<1>14. CASE MoveToBroadcast
  <2>1. pc = "sent" /\ pc' = "apply" /\ spends' = Moved(cur, "broadcast")
    BY <1>14 DEF MoveToBroadcast
  <2>2. ASSUME cur.kind = "refund", NEW x \in spends, NEW y \in spends,
               x.tx = cur, Overlap(x, y), x # y
        PROVE  FALSE
    BY <2>1, <2>2 DEF SpendsInv, Disjoint
  <2>3. Disjoint(Moved(cur, "broadcast") \ {})
    BY <2>2, MovedDisjoint DEF SpendsInv
  <2> QED
    BY <2>1, <2>3 DEF SpendsInv
<1> QED
  BY <1>1, <1>2, <1>3, <1>4, <1>5, <1>6, <1>7, <1>8, <1>9, <1>10, <1>11, <1>12, <1>13, <1>14
     DEF Next, HolderStep, Issuer, SendAnswered

\* No coin is ever in two spends that were sent to the node: what heldCoins, the
\* refund's own check and the supersession of unsigned cancels achieve together.
THEOREM SentInOneSpend == Spec => []SentOnce
<1>1. Init => SpendsInv
  BY DEF Init, SpendsInv, Disjoint
<1>2. SpendsInv => SentOnce
  BY DEF SpendsInv, Disjoint, Overlap, SentOnce
<1> QED
  BY <1>1, <1>2, SpendsNext, Typed, PTL DEF Spec

-----------------------------------------------------------------------------
(* The money follows the tokens.                                            *)

\* What a delivery recorded, or about to be recorded, accounts for.
Counted(i) == {s \in SubsOf(i) : dtx[s] \/ (pc = "record" /\ s \in who)}

\* Only recorded deliveries are ever put in a release, and an investor's balance
\* covers every recorded delivery.
WholeInv ==
    /\ \A i \in Investors : Cardinality(Counted(i)) <= balance[i]
    /\ pc \in {"transfer", "record"} => \E s \in Subs : who = {s}
    /\ pc = "stamp" => \A s \in who : dtx[s]
    /\ \A s \in Subs : st[s] = "awaiting_release" => dtx[s]
    /\ \A sp \in spends : sp.tx.kind = "release" => \A c \in sp.tx.coins : dtx[Owner[c]]
    /\ \A t \in txs : t.kind = "release" => \A c \in t.coins : dtx[Owner[c]]
    /\ cur.kind = "release" => \A c \in cur.coins : dtx[Owner[c]]


\* The owners of the coins a spend built over S takes are in S.
LEMMA CoinOwners ==
    ASSUME NEW S \in SUBSET Subs, NEW kind
    PROVE  \A c \in NewSpend(kind, S).tx.coins : Owner[c] \in S
BY DEF NewSpend, CoinsOf

\* The counts: finite, monotone, and one more subscription adds at most one.
LEMMA Counting ==
    ASSUME TypeOK, NEW i \in Investors, NEW D \in SUBSET SubsOf(i), NEW s
    PROVE  /\ IsFiniteSet(D) /\ Cardinality(D) \in Nat
           /\ Cardinality(D \cup {s}) <= Cardinality(D) + 1
           /\ \A C \in SUBSET D : Cardinality(C) <= Cardinality(D)
<1>1. IsFiniteSet(Subs)
  BY EscrowAssumption DEF EscrowAssumption
<1>2. D \in SUBSET Subs
  BY DEF SubsOf
<1>3. IsFiniteSet(D)
  BY <1>1, <1>2, FS_Subset
<1>4. Cardinality(D) \in Nat
  BY <1>3, FS_CardinalityType
<1>5. Cardinality(D \cup {s}) <= Cardinality(D) + 1
  <2>1. CASE s \in D
    <3>1. D \cup {s} = D
      BY <2>1
    <3>2. Cardinality(D \cup {s}) = Cardinality(D)
      BY <3>1
    <3> QED
      BY <1>4, <3>2
  <2>2. CASE s \notin D
    <3>1. Cardinality(D \cup {s}) = Cardinality(D) + 1
      BY <1>3, <2>2, FS_AddElement
    <3> QED
      BY <1>4, <3>1
  <2> QED
    BY <2>1, <2>2
<1>6. \A C \in SUBSET D : Cardinality(C) <= Cardinality(D)
  BY <1>3, FS_Subset
<1> QED
  BY <1>3, <1>4, <1>5, <1>6

\* What the count needs from a step that transfers and records nothing.
LEMMA CountKept ==
    ASSUME TypeOK, WholeInv, UNCHANGED balance, NEW i \in Investors,
           Counted(i)' \subseteq Counted(i)
    PROVE  Cardinality(Counted(i))' <= balance'[i]
<1>1. Counted(i) \in SUBSET SubsOf(i)
  BY DEF Counted, SubsOf
<1>2. Cardinality(Counted(i)') <= Cardinality(Counted(i))
  BY <1>1, Counting
<1>3. Cardinality(Counted(i)) \in Nat /\ Cardinality(Counted(i)') \in Nat
  <2>1. Counted(i)' \in SUBSET SubsOf(i)
    BY <1>1
  <2> QED
    BY <1>1, <2>1, Counting
<1>4. balance[i] \in Nat
  BY DEF TypeOK
<1> QED
  BY <1>2, <1>3, <1>4 DEF WholeInv

\* After a transfer for s the balance has room for s among the recorded deliveries.
LEMMA CountTransferred ==
    ASSUME TypeOK, WholeInv, NEW s \in Subs, pc = "transfer", who = {s}, UNCHANGED dtx,
           Transferred(s), pc' # "record" \/ who' = {s}, NEW i \in Investors
    PROVE  Cardinality(Counted(i))' <= balance'[i]
<1>1. Counted(i) \in SUBSET SubsOf(i) /\ Counted(i)' \in SUBSET SubsOf(i)
  BY DEF Counted, SubsOf
<1>2. balance \in [Investors -> Nat] /\ Investor[s] \in Investors
  BY EscrowAssumption DEF TypeOK, EscrowAssumption
<1>3. Cardinality(Counted(i)) \in Nat /\ Cardinality(Counted(i)') \in Nat
  BY <1>1, Counting
<1>4. CASE Investor[s] = i
  <2>1. Counted(i)' \subseteq Counted(i) \cup {s} /\ Counted(i) \cup {s} \in SUBSET SubsOf(i)
    BY <1>4 DEF Counted, SubsOf
  <2>2. /\ Cardinality(Counted(i)') <= Cardinality(Counted(i) \cup {s})
        /\ Cardinality(Counted(i) \cup {s}) <= Cardinality(Counted(i)) + 1
        /\ Cardinality(Counted(i) \cup {s}) \in Nat
    BY <1>1, <2>1, Counting
  <2>3. balance'[i] = balance[i] + 1
    BY <1>2, <1>4 DEF Transferred
  <2> QED
    BY <1>2, <1>3, <2>2, <2>3 DEF WholeInv
<1>5. CASE Investor[s] # i
  <2>1. Counted(i)' \subseteq Counted(i)
    BY <1>5 DEF Counted, SubsOf
  <2>2. Cardinality(Counted(i)') <= Cardinality(Counted(i))
    BY <1>1, <2>1, Counting
  <2>3. balance'[i] = balance[i]
    BY <1>2, <1>5 DEF Transferred
  <2> QED
    BY <1>2, <1>3, <2>2, <2>3 DEF WholeInv
<1> QED
  BY <1>4, <1>5

\* A delivery taken for landed from the balance is within the balance.
LEMMA CountLanded ==
    ASSUME TypeOK, WholeInv, NEW s \in Subs, Landed(s), UNCHANGED balance,
           dtx' = [dtx EXCEPT ![s] = TRUE], pc = "deliver", pc' = "stamp", NEW i \in Investors
    PROVE  Cardinality(Counted(i))' <= balance'[i]
<1> DEFINE O == {x \in SubsOf(Investor[s]) : x = s \/ dtx[x] \/ st[x] = "delivering"}
<1>1. balance \in [Investors -> Nat] /\ Investor[s] \in Investors
  BY EscrowAssumption DEF TypeOK, EscrowAssumption
<1>2. CASE Investor[s] = i
  <2>1. O \in SUBSET SubsOf(i) /\ Counted(i)' \in SUBSET O
    BY <1>2 DEF Counted, SubsOf, TypeOK
  <2>2. /\ Cardinality(Counted(i)') <= Cardinality(O)
        /\ Cardinality(O) \in Nat /\ Cardinality(Counted(i)') \in Nat
    <3>1. Counted(i)' \in SUBSET SubsOf(i)
      BY <2>1
    <3> QED
      BY <2>1, <3>1, Counting
  <2>3. Cardinality(O) <= balance[i]
    BY <1>2 DEF Landed, Owed
  <2> QED
    BY <1>1, <2>2, <2>3
<1>3. CASE Investor[s] # i
  <2>1. Counted(i)' \subseteq Counted(i)
    BY <1>3 DEF Counted, SubsOf, TypeOK
  <2> QED
    BY <2>1, CountKept
<1> QED
  BY <1>2, <1>3

LEMMA WholeNext == TypeOK /\ WholeInv /\ [Next]_vars => WholeInv'
<1> SUFFICES ASSUME TypeOK, WholeInv, [Next]_vars PROVE WholeInv'
  OBVIOUS
<1> USE DEF chain, policy, rows, job
\* Steps that deliver nothing and put nothing new in a release.
<1>0. ASSUME UNCHANGED <<balance, dtx>>,
             UNCHANGED <<pc, who>> \/ pc' \notin {"transfer", "record", "stamp"},
             \A s \in Subs : st'[s] = "awaiting_release" => st[s] = "awaiting_release",
             \A y \in spends' : y.tx.kind = "release" =>
                \A c \in y.tx.coins : dtx[Owner[c]],
             \A t \in txs' : t.kind = "release" => t \in txs \/ t = cur,
             cur'.kind = "release" => cur' = cur \/ \E y \in spends : cur' = y.tx
      PROVE  WholeInv'
  <2>1. ASSUME NEW i \in Investors PROVE Cardinality(Counted(i))' <= balance'[i]
    <3>1. Counted(i)' \subseteq Counted(i)
      BY <1>0 DEF Counted, SubsOf
    <3> QED
      BY <1>0, <3>1, CountKept
  <2> QED
    BY <1>0, <2>1 DEF WholeInv
<1>a. NoTx.kind # "release"
  BY DEF NoTx
<1>b. ASSUME NEW t, NEW to, NEW SP \in SUBSET (Moved(t, to) \cup spends)
      PROVE  \A y \in SP : y.tx.kind = "release" => \A c \in y.tx.coins : dtx[Owner[c]]
  <2>1. \A x \in spends : [x EXCEPT !.state = to].tx = x.tx
    BY DEF TypeOK, Spends
  <2> QED
    BY <2>1 DEF Moved, Without, WholeInv
<1>c. ASSUME NEW S \in SUBSET Subs, NEW kind \in Kinds,
             kind = "release" => \A s \in S : dtx[s]
      PROVE  \A y \in Insert(kind, S) : y.tx.kind = "release" => \A c \in y.tx.coins : dtx[Owner[c]]
  <2>1. NewSpend(kind, S).tx.kind = kind
    BY DEF NewSpend
  <2> QED
    BY <1>c, <2>1, CoinOwners DEF Insert, WholeInv
<1>1. CASE Environment \/ DepositPass \/ UNCHANGED vars
  BY <1>0, <1>1, <1>a, Bystander DEF WholeInv
<1>2. ASSUME NEW s \in Subs, Deliver(s) PROVE WholeInv'
  <2>1. CASE DeliverDecided(s)
    BY <1>0, <2>1 DEF DeliverDecided, WholeInv
  <2>2. CASE DeliverBegin(s)
    <3>1. UNCHANGED <<balance, dtx, spends, txs, cur>> /\ who' = {s}
      BY <2>2 DEF DeliverBegin
    <3>2. pc = "deliver" /\ pc' \in {"stamp", "transfer"} /\ (pc' = "stamp" => dtx[s])
      BY <2>2 DEF DeliverBegin
    <3>3. \A x \in Subs : st'[x] = "awaiting_release" => st[x] = "awaiting_release"
      BY <2>2 DEF DeliverBegin, TypeOK
    <3>4. ASSUME NEW i \in Investors PROVE Cardinality(Counted(i))' <= balance'[i]
      <4>1. Counted(i)' \subseteq Counted(i)
        BY <3>1, <3>2 DEF Counted, SubsOf
      <4> QED
        BY <3>1, <4>1, CountKept
    <3> QED
      BY <3>1, <3>2, <3>3, <3>4 DEF WholeInv
  <2>3. CASE DeliverResume(s)
    <3>1. CASE UNCHANGED <<dtx, pc, who>>
      BY <1>0, <2>3, <3>1 DEF DeliverResume, WholeInv
    <3>2. CASE (dtx[s] \/ Landed(s)) /\ dtx' = [dtx EXCEPT ![s] = TRUE] /\ pc' = "stamp" /\ who' = {s}
      <4>1. UNCHANGED <<balance, st, spends, txs, cur>> /\ pc = "deliver"
        BY <2>3 DEF DeliverResume
      <4>2. \A x \in Subs : dtx[x] => dtx'[x]
        BY <3>2 DEF TypeOK
      <4>3. dtx'[s]
        BY <3>2 DEF TypeOK
      <4>4. ASSUME NEW i \in Investors PROVE Cardinality(Counted(i))' <= balance'[i]
        <5>1. CASE Landed(s)
          BY <3>2, <4>1, <5>1, CountLanded
        <5>2. CASE dtx[s]
          <6>1. dtx' = dtx
            BY <3>2, <5>2 DEF TypeOK
          <6>2. Counted(i)' \subseteq Counted(i)
            BY <3>2, <6>1 DEF Counted, SubsOf
          <6> QED
            BY <4>1, <6>2, CountKept
        <5> QED
          BY <3>2, <5>1, <5>2
      <4>5. \A c \in Coins : dtx[Owner[c]] => dtx'[Owner[c]]
        BY <4>2, EscrowAssumption DEF EscrowAssumption
      <4> QED
        BY <3>2, <4>1, <4>2, <4>3, <4>4, <4>5 DEF WholeInv, TypeOK, Spends, Txs
    <3> QED
      BY <2>3, <3>1, <3>2 DEF DeliverResume
  <2>4. CASE TransferDone(s)
    <3>1. /\ UNCHANGED <<dtx, st, spends, txs, cur, who>> /\ who = {s}
          /\ pc = "transfer" /\ pc' = "record" /\ Transferred(s)
      BY <2>4 DEF TransferDone
    <3>2. \A i \in Investors : Cardinality(Counted(i))' <= balance'[i]
      BY <3>1, CountTransferred
    <3> QED
      BY <3>1, <3>2 DEF WholeInv
  <2>5. CASE TransferRefused(s)
    BY <1>0, <2>5 DEF TransferRefused, TransferFailedWith, WholeInv, TypeOK
  <2>6. CASE TransferLost(s)
    <3>1. /\ UNCHANGED <<dtx, spends, txs, cur>> /\ who = {s}
          /\ pc = "transfer" /\ pc' = "deliver" /\ Transferred(s)
      BY <2>6 DEF TransferLost, TransferFailedWith
    <3>2. \A i \in Investors : Cardinality(Counted(i))' <= balance'[i]
      BY <3>1, CountTransferred
    <3>3. \A x \in Subs : st'[x] = "awaiting_release" => st[x] = "awaiting_release"
      BY <2>6 DEF TransferLost, TransferFailedWith, TypeOK
    <3> QED
      BY <3>1, <3>2, <3>3 DEF WholeInv
  <2>7. CASE DeliverRecord(s)
    <3>1. /\ UNCHANGED <<balance, st, spends, txs, cur, who>> /\ who = {s}
          /\ pc = "record" /\ pc' = "stamp" /\ dtx' = [dtx EXCEPT ![s] = TRUE]
      BY <2>7 DEF DeliverRecord
    <3>2. \A x \in Subs : dtx'[x] <=> dtx[x] \/ x = s
      BY <3>1 DEF TypeOK
    <3>3. ASSUME NEW i \in Investors PROVE Cardinality(Counted(i))' <= balance'[i]
      <4>1. Counted(i)' \subseteq Counted(i)
        BY <3>1, <3>2 DEF Counted, SubsOf
      <4> QED
        BY <3>1, <4>1, CountKept
    <3>4. \A c \in Coins : dtx[Owner[c]] => dtx'[Owner[c]]
      BY <3>2, EscrowAssumption DEF EscrowAssumption
    <3> QED
      BY <3>1, <3>2, <3>3, <3>4 DEF WholeInv, TypeOK, Spends, Txs
  <2>8. CASE DeliverStamp(s)
    <3>1. /\ UNCHANGED <<balance, dtx, spends, txs, cur>> /\ who = {s}
          /\ pc = "stamp" /\ pc' = "deliver"
      BY <2>8 DEF DeliverStamp
    <3>2. \A x \in Subs : st'[x] = "awaiting_release" => x = s \/ st[x] = "awaiting_release"
      BY <2>8 DEF DeliverStamp, TypeOK
    <3>3. ASSUME NEW i \in Investors PROVE Cardinality(Counted(i))' <= balance'[i]
      <4>1. Counted(i)' \subseteq Counted(i)
        BY <3>1 DEF Counted, SubsOf
      <4> QED
        BY <3>1, <4>1, CountKept
    <3> QED
      BY <3>1, <3>2, <3>3 DEF WholeInv
  <2> QED
    BY <1>2, <2>1, <2>2, <2>3, <2>4, <2>5, <2>6, <2>7, <2>8 DEF Deliver
<1>3. CASE DeliverEnd \/ ApplyDone \/ SendUnanswered \/ Close
  BY <1>0, <1>3, <1>a DEF DeliverEnd, ApplyDone, SendUnanswered, Close, Free, WholeInv
<1>4. CASE CloseRelease
  <2> DEFINE deliver == {s \in work : st[s] = "awaiting_release"}
  <2>1. deliver \in SUBSET Subs /\ "release" \in Kinds /\ \A s \in deliver : dtx[s]
    BY DEF TypeOK, Kinds, WholeInv
  <2>2. UNCHANGED spends \/ spends' = Insert("release", deliver)
    BY <1>4 DEF CloseRelease
  <2>3. \A y \in spends' : y.tx.kind = "release" => \A c \in y.tx.coins : dtx[Owner[c]]
    BY <1>c, <2>1, <2>2 DEF WholeInv
  <2> QED
    BY <1>0, <1>4, <2>3 DEF CloseRelease
<1>5. CASE CloseCancel
  <2> DEFINE undelivered == {s \in work : st[s] \in {"delivery_failed", "awaiting_cancel"}}
  <2>1. undelivered \in SUBSET Subs /\ "cancel" \in Kinds
    BY DEF TypeOK, Kinds
  <2>2. UNCHANGED spends \/ spends' = Insert("cancel", undelivered)
    BY <1>5 DEF CloseCancel
  <2>3. \A y \in spends' : y.tx.kind = "release" => \A c \in y.tx.coins : dtx[Owner[c]]
    BY <1>c, <2>1, <2>2 DEF WholeInv
  <2> QED
    BY <1>0, <1>5, <1>a, <2>3 DEF CloseCancel, Free
<1>6. ASSUME NEW names \in SUBSET Subs, CancelRequest(names) PROVE WholeInv'
  <2> DEFINE S == {s \in Subs : Cancellable(s, names)}
  <2>1. S \in SUBSET Subs /\ "cancel" \in Kinds
    BY DEF Kinds
  <2>2. spends' = Insert("cancel", S)
    BY <1>6 DEF CancelRequest
  <2>3. \A y \in spends' : y.tx.kind = "release" => \A c \in y.tx.coins : dtx[Owner[c]]
    BY <1>c, <2>1, <2>2
  <2> QED
    BY <1>0, <1>6, <2>3 DEF CancelRequest
<1>7. CASE MarkCancel
  BY <1>0, <1>7, <1>a DEF MarkCancel, Free, WholeInv
<1>8. ASSUME NEW sp \in spends, Sign(sp) \/ SignAgain(sp) \/ Heal(sp) PROVE WholeInv'
  <2>1. \A y \in spends' : y.tx.kind = "release" => \A c \in y.tx.coins : dtx[Owner[c]]
    BY <1>8, <1>b DEF Sign, SignAgain, Heal
  <2> QED
    BY <1>0, <1>8, <2>1 DEF Sign, SignAgain, Heal, BeginSend
<1>9. CASE RefundBuild
  <2>1. Due \in SUBSET Subs /\ "refund" \in Kinds /\ "refund" # "release"
    BY DEF Due, Kinds
  <2>2. \A y \in spends' : y.tx.kind = "release" => \A c \in y.tx.coins : dtx[Owner[c]]
    BY <1>9, <1>c, <2>1 DEF RefundBuild
  <2>3. cur'.kind # "release"
    BY <1>9 DEF RefundBuild, NewSpend
  <2> QED
    BY <1>0, <1>9, <2>2, <2>3 DEF RefundBuild
<1>10. CASE RefundArm \/ MoveToBroadcast
  <2>1. \A y \in spends' : y.tx.kind = "release" => \A c \in y.tx.coins : dtx[Owner[c]]
    BY <1>10, <1>b DEF RefundArm, MoveToBroadcast
  <2> QED
    BY <1>0, <1>10, <2>1 DEF RefundArm, MoveToBroadcast
<1>11. CASE SendAccepted
  BY <1>0, <1>11 DEF SendAccepted, WholeInv
<1>12. CASE SendGone \/ SendRefused
  <2>1. spends' = Without(cur) \/ spends' = Moved(cur, "built")
    BY <1>12 DEF SendGone, SendRefused, AfterRefusal
  <2>2. \A y \in spends' : y.tx.kind = "release" => \A c \in y.tx.coins : dtx[Owner[c]]
    BY <2>1, <1>b DEF Without
  <2> QED
    BY <1>0, <1>12, <1>a, <2>2 DEF SendGone, SendRefused, Free
<1>13. ASSUME NEW s \in Subs, Apply(s) PROVE WholeInv'
  <2>1. \A x \in Subs : st'[x] = "awaiting_release" => st[x] = "awaiting_release"
    BY <1>13 DEF Apply, Outcome, TypeOK
  <2> QED
    BY <1>0, <1>13, <2>1 DEF Apply, WholeInv
<1> QED
  BY <1>1, <1>2, <1>3, <1>4, <1>5, <1>6, <1>7, <1>8, <1>9, <1>10, <1>11, <1>12, <1>13
     DEF Next, HolderStep, Issuer, SendAnswered

LEMMA WholeInit == TypeOK /\ Init => WholeInv
<1> SUFFICES ASSUME TypeOK, Init PROVE WholeInv
  OBVIOUS
<1>1. ASSUME NEW i \in Investors PROVE Cardinality(Counted(i)) <= balance[i]
  <2>1. balance[i] = 0
    BY DEF Init
  <2>2. \A s \in Subs : dtx[s] = FALSE
    BY DEF Init
  <2>3. pc = "idle"
    BY DEF Init
  <2>4. Counted(i) = {}
    BY <2>2, <2>3 DEF Counted, SubsOf
  <2> QED
    BY <2>1, <2>4, FS_EmptySet
<1> QED
  BY <1>1 DEF Init, NoTx, WholeInv

\* Whatever restarts, lost answers and reorganisations strike, an investor has
\* received at least as many deliveries as the subscriptions of theirs whose money
\* was released: the promise the order of the close makes (escrow_close.go).
THEOREM Whole == Spec => []InvestorWhole
<1>1. TypeOK /\ WholeInv => InvestorWhole
  <2> SUFFICES ASSUME TypeOK, WholeInv, NEW i \in Investors
               PROVE  Cardinality({s \in SubsOf(i) : Taken(s, {"release"})}) <= balance[i]
    BY DEF InvestorWhole
  <2> DEFINE R == {s \in SubsOf(i) : Taken(s, {"release"})}
  <2>1. R \in SUBSET Counted(i) /\ Counted(i) \in SUBSET SubsOf(i)
    BY DEF Taken, Counted, WholeInv
  <2>2. Cardinality(R) <= Cardinality(Counted(i)) /\ Cardinality(R) \in Nat /\ Cardinality(Counted(i)) \in Nat
    BY <2>1, Counting
  <2>3. balance[i] \in Nat /\ Cardinality(Counted(i)) <= balance[i]
    BY DEF TypeOK, WholeInv
  <2> QED
    BY <2>2, <2>3
<1> QED
  BY <1>1, WholeInit, WholeNext, Typed, TypeInit, PTL DEF Spec

-----------------------------------------------------------------------------
(* The books and the chain.                                                 *)

\* The step of the holder that runs a broadcast.
Sending == {"refund", "send", "sent", "apply"}

\* The books are only written for a transaction the network has, over the
\* subscriptions whose coins it took.
BooksInv ==
    /\ budget.evict <= MaxEvictions
    /\ \A sp \in spends : sp.tx.kind \in Kinds
    /\ pc \in Sending => cur.kind \in Kinds
    /\ pc = "apply" => todo \subseteq {Owner[c] : c \in cur.coins}
    /\ BooksMatchChain
    /\ budget.evict = MaxEvictions /\ pc \in {"sent", "apply"} => cur \in txs

\* What a transaction took stays taken while the network drops none.
LEMMA TakenStays ==
    ASSUME txs \subseteq txs', NEW s, NEW kinds, Taken(s, kinds)
    PROVE  Taken(s, kinds)'
  BY DEF Taken

\* Books that record nothing new agree with a chain that dropped nothing.
LEMMA BooksKept ==
    ASSUME BooksMatchChain, txs \subseteq txs', ledger' = ledger, budget'.evict = budget.evict,
           \A s \in Subs : sub'[s] = sub[s] \/ sub'[s] \notin {"settled", "refunded"}
    PROVE  BooksMatchChain'
<1>1. ASSUME NEW s \in Subs, NEW kinds PROVE Taken(s, kinds) => Taken(s, kinds)'
  BY TakenStays
<1> QED
  BY <1>1 DEF BooksMatchChain

\* One subscription is written, and its ledger row, for the transaction at hand.
LEMMA BooksApplied ==
    ASSUME TypeOK, BooksInv, NEW s \in Subs, Apply(s)
    PROVE  BooksMatchChain'
<1> USE DEF chain, rows
<1>1. budget' = budget /\ txs' = txs
  BY DEF Apply
<1> SUFFICES ASSUME budget.evict = MaxEvictions
             PROVE  /\ \A x \in Subs : /\ sub'[x] = "settled" => Taken(x, {"release"})'
                                       /\ sub'[x] = "refunded" => Taken(x, {"cancel", "refund"})'
                    /\ \A row \in ledger' : row.tx \in txs'
  BY <1>1 DEF BooksMatchChain
<1>2. cur \in txs /\ cur.kind \in Kinds /\ s \in {Owner[c] : c \in cur.coins}
  BY DEF BooksInv, Apply, Sending
<1>3. ASSUME NEW x \in Subs, NEW kinds PROVE Taken(x, kinds) => Taken(x, kinds)'
  BY <1>1, TakenStays
<1>4. /\ cur.kind = "release" => Taken(s, {"release"})
      /\ cur.kind # "release" => Taken(s, {"cancel", "refund"})
  BY <1>2 DEF Taken, Kinds
<1>5. \A x \in Subs : /\ sub[x] = "settled" => Taken(x, {"release"})
                      /\ sub[x] = "refunded" => Taken(x, {"cancel", "refund"})
  <2>1. BooksMatchChain
    BY DEF BooksInv
  <2> QED
    BY <2>1 DEF BooksMatchChain
<1>6. \A x \in Subs : sub'[x] = sub[x] \/ (x = s /\ sub'[x] = Outcome)
  BY DEF Apply, TypeOK
<1>7. Outcome = (IF cur.kind = "release" THEN "settled" ELSE "refunded")
  BY DEF Outcome
<1>8. \A row \in ledger' : row.tx \in txs'
  <2>1. ledger' = ledger \cup {[tx |-> cur, sub |-> s]}
    BY DEF Apply
  <2>2. \A row \in ledger : row.tx \in txs
    BY DEF BooksInv, BooksMatchChain
  <2> QED
    BY <1>1, <1>2, <2>1, <2>2
<1> QED
  BY <1>3, <1>4, <1>5, <1>6, <1>7, <1>8

LEMMA BooksNext == TypeOK /\ BooksInv /\ [Next]_vars => BooksInv'
<1> SUFFICES ASSUME TypeOK, BooksInv, [Next]_vars PROVE BooksInv'
  OBVIOUS
<1> USE DEF chain, policy, rows, job
<1>a. \A sp \in spends : sp.tx.kind \in Kinds
  BY DEF BooksInv
<1>b. ASSUME NEW t, NEW to PROVE \A sp \in Moved(t, to) \cup Without(t) : sp.tx.kind \in Kinds
  <2>1. \A sp \in spends : [sp EXCEPT !.state = to].tx = sp.tx
    BY DEF TypeOK, Spends
  <2> QED
    BY <1>a, <2>1 DEF Moved, Without
<1>c. ASSUME NEW kind \in Kinds, NEW S PROVE \A sp \in Insert(kind, S) : sp.tx.kind \in Kinds
  BY <1>a, <1>c DEF Insert, NewSpend
<1>d. budget.evict \in Nat /\ MaxEvictions \in Nat
  BY EscrowAssumption DEF TypeOK, EscrowAssumption
<1>e. ASSUME txs' = txs, UNCHANGED <<sub, ledger, budget>> PROVE BooksMatchChain' /\ budget'.evict <= MaxEvictions
  BY <1>e, BooksKept DEF BooksInv
\* A step that writes no book and runs no broadcast.
<1>0. ASSUME txs \subseteq txs', ledger' = ledger, budget'.evict = budget.evict,
             \A s \in Subs : sub'[s] = sub[s] \/ sub'[s] \notin {"settled", "refunded"},
             \A sp \in spends' : sp.tx.kind \in Kinds,
             UNCHANGED <<pc, cur, todo>> \/ pc' \notin Sending
      PROVE  BooksInv'
  <2>1. BooksMatchChain'
    BY <1>0, BooksKept DEF BooksInv
  <2> QED
    BY <1>0, <2>1 DEF BooksInv, Sending
<1>1. CASE Environment
  <2>1. ASSUME NEW s \in Subs, Subscribe(s) PROVE BooksInv'
    BY <1>0, <1>a, <2>1 DEF Subscribe, TypeOK
  <2>2. ASSUME NEW c \in Coins, Deposit(c) \/ OutsideReturn(c) PROVE BooksInv'
    BY <1>0, <1>a, <2>2 DEF Deposit, OutsideReturn
  <2>3. ASSUME NEW c \in Coins, DepositReorg(c) PROVE BooksInv'
    <3>1. budget'.evict = budget.evict
      BY <2>3 DEF DepositReorg, Inject, TypeOK
    <3> QED
      BY <1>0, <1>a, <2>3, <3>1 DEF DepositReorg
  <2>4. ASSUME NEW t \in txs, Evict(t) PROVE BooksInv'
    <3>1. budget'.evict < MaxEvictions
      BY <1>d, <2>4 DEF Evict, Inject, TypeOK, BooksInv
    <3>2. BooksMatchChain' /\ budget'.evict # MaxEvictions
      BY <1>d, <3>1 DEF BooksMatchChain, TypeOK
    <3>3. UNCHANGED <<spends, pc, cur, todo>> /\ budget'.evict <= MaxEvictions
      BY <1>d, <2>4, <3>1 DEF Evict, Inject, TypeOK, BooksInv
    <3> QED
      BY <3>2, <3>3 DEF BooksInv
  <2>5. CASE Advance \/ FloorRises
    BY <1>0, <1>a, <2>5 DEF Advance, FloorRises
  <2>6. CASE Crash
    <3>1. budget'.evict = budget.evict
      BY <2>6 DEF Crash, Inject, TypeOK
    <3> QED
      BY <1>0, <1>a, <2>6, <3>1 DEF Crash, Free, Sending
  <2> QED
    BY <1>1, <2>1, <2>2, <2>3, <2>4, <2>5, <2>6 DEF Environment
<1>2. CASE DepositPass \/ UNCHANGED vars
  <2>1. ASSUME NEW s \in Subs, Credit(s) PROVE BooksInv'
    BY <1>0, <1>a, <2>1 DEF Credit, TypeOK
  <2>2. CASE WatchScan \/ UNCHANGED vars
    BY <1>0, <1>a, <2>2 DEF WatchScan, vars
  <2> QED
    BY <1>2, <2>1, <2>2 DEF DepositPass
<1>3. ASSUME NEW s \in Subs, Deliver(s) PROVE BooksInv'
  <2>1. CASE DeliverDecided(s) \/ DeliverBegin(s) \/ DeliverResume(s)
    BY <1>0, <1>a, <2>1 DEF DeliverDecided, DeliverBegin, DeliverResume, Sending
  <2>2. CASE TransferDone(s) \/ TransferRefused(s)
    BY <1>0, <1>a, <2>2 DEF TransferDone, TransferRefused, TransferFailedWith, Sending
  <2>3. CASE TransferLost(s)
    <3>1. budget'.evict = budget.evict
      BY <2>3 DEF TransferLost, Inject, TypeOK
    <3> QED
      BY <1>0, <1>a, <2>3, <3>1 DEF TransferLost, TransferFailedWith, Sending
  <2>4. CASE DeliverRecord(s) \/ DeliverStamp(s)
    BY <1>0, <1>a, <2>4 DEF DeliverRecord, DeliverStamp, Sending
  <2> QED
    BY <1>3, <2>1, <2>2, <2>3, <2>4 DEF Deliver
<1>4. CASE Close \/ DeliverEnd \/ MarkCancel
  BY <1>0, <1>a, <1>4 DEF Close, DeliverEnd, MarkCancel, Free, Sending
<1>5. CASE CloseRelease \/ CloseCancel
  <2>1. \E S : spends' = spends \/ spends' = Insert("release", S) \/ spends' = Insert("cancel", S)
    BY <1>5 DEF CloseRelease, CloseCancel
  <2>2. \A sp \in spends' : sp.tx.kind \in Kinds
    BY <1>a, <1>c, <2>1 DEF Kinds
  <2> QED
    BY <1>0, <1>5, <2>2 DEF CloseRelease, CloseCancel, Free, Sending
<1>6. ASSUME NEW names \in SUBSET Subs, CancelRequest(names) PROVE BooksInv'
  <2>1. PICK S : spends' = Insert("cancel", S)
    BY <1>6 DEF CancelRequest
  <2>2. \A sp \in spends' : sp.tx.kind \in Kinds
    BY <1>c, <2>1 DEF Kinds
  <2> QED
    BY <1>0, <1>6, <2>2 DEF CancelRequest, Sending
<1>7. ASSUME NEW sp \in spends, Sign(sp) \/ SignAgain(sp) \/ Heal(sp) PROVE BooksInv'
  <2>1. \A y \in spends' : y.tx.kind \in Kinds
    BY <1>7, <1>a, <1>b DEF Sign, SignAgain, Heal
  <2>2. pc' = "send" /\ cur' = sp.tx /\ txs' = txs /\ UNCHANGED <<sub, ledger, budget>>
    BY <1>7 DEF Sign, SignAgain, Heal, BeginSend
  <2> QED
    BY <1>a, <1>e, <2>1, <2>2 DEF BooksInv
<1>8. CASE RefundBuild
  <2>1. \A y \in spends' : y.tx.kind \in Kinds
    BY <1>8, <1>c DEF RefundBuild, Kinds
  <2>2. pc' = "refund" /\ cur'.kind \in Kinds /\ txs' = txs /\ UNCHANGED <<sub, ledger, budget>>
    BY <1>8 DEF RefundBuild, NewSpend, Kinds
  <2> QED
    BY <1>e, <2>1, <2>2 DEF BooksInv
<1>9. CASE RefundArm
  <2>1. \A y \in spends' : y.tx.kind \in Kinds
    BY <1>9, <1>b DEF RefundArm
  <2>2. pc = "refund" /\ pc' = "send" /\ cur' = cur /\ txs' = txs /\ UNCHANGED <<sub, ledger, budget>>
    BY <1>9 DEF RefundArm
  <2> QED
    BY <1>e, <2>1, <2>2 DEF BooksInv, Sending
<1>10. CASE SendAccepted
  <2>1. pc = "send" /\ pc' = "sent" /\ cur' = cur /\ txs' = txs \cup {cur} /\ UNCHANGED <<sub, ledger, spends, budget>>
    BY <1>10 DEF SendAccepted
  <2>2. BooksMatchChain'
    BY <2>1, BooksKept DEF BooksInv
  <2> QED
    BY <1>a, <2>1, <2>2 DEF BooksInv, Sending
<1>11. CASE SendGone \/ SendRefused \/ SendUnanswered
  <2>1. \A y \in spends' : y.tx.kind \in Kinds
    BY <1>11, <1>a, <1>b DEF SendGone, SendRefused, SendUnanswered, AfterRefusal
  <2>2. txs \subseteq txs' /\ pc' = "idle" /\ UNCHANGED <<sub, ledger, budget>>
    BY <1>11 DEF SendGone, SendRefused, SendUnanswered, Free
  <2> QED
    BY <1>0, <2>1, <2>2 DEF Sending
<1>12. CASE MoveToBroadcast
  <2>1. \A y \in spends' : y.tx.kind \in Kinds
    BY <1>12, <1>b DEF MoveToBroadcast
  <2>2. /\ pc = "sent" /\ pc' = "apply" /\ cur' = cur /\ txs' = txs
        /\ todo' = {Owner[c] : c \in cur.coins} /\ UNCHANGED <<sub, ledger, budget>>
    BY <1>12 DEF MoveToBroadcast
  <2> QED
    BY <1>e, <2>1, <2>2 DEF BooksInv, Sending
<1>13. ASSUME NEW s \in Subs, Apply(s) PROVE BooksInv'
  <2>1. BooksMatchChain'
    BY <1>13, BooksApplied
  <2>2. pc = "apply" /\ pc' = pc /\ cur' = cur /\ todo' \subseteq todo /\ UNCHANGED <<txs, spends, budget>>
    BY <1>13 DEF Apply
  <2> QED
    BY <2>1, <2>2 DEF BooksInv, Sending
<1>14. CASE ApplyDone
  BY <1>0, <1>a, <1>14 DEF ApplyDone, Free, Sending
<1> QED
  BY <1>1, <1>2, <1>3, <1>4, <1>5, <1>6, <1>7, <1>8, <1>9, <1>10, <1>11, <1>12, <1>13, <1>14
     DEF Next, HolderStep, Issuer, SendAnswered

LEMMA BooksInit == Init => BooksInv
<1>1. ASSUME Init PROVE BooksMatchChain
  BY <1>1 DEF Init, BooksMatchChain
<1>2. ASSUME Init PROVE budget.evict <= MaxEvictions
  BY <1>2, EscrowAssumption DEF Init, EscrowAssumption
<1> QED
  BY <1>1, <1>2 DEF Init, BooksInv, Sending

\* While the chain drops nothing, whatever restarts and lost answers come, a
\* subscription is settled or refunded in the books only if a transaction of that
\* kind took its coins (finishBroadcast, applyEscrowSpend).
THEOREM BooksFollowChain == Spec => []BooksMatchChain
<1>1. BooksInv => BooksMatchChain
  BY DEF BooksInv
<1> QED
  BY <1>1, BooksInit, BooksNext, Typed, PTL DEF Spec

-----------------------------------------------------------------------------
(* The escrow implements its promise, for any number of subscriptions and   *)
(* coins, while nothing crashes and the chain takes nothing back.           *)

\* The behaviours the promise is about (escrow_close.go:238 tells of the others).
NoFaults ==
    /\ MaxCrashes = 0 /\ MaxReorgs = 0 /\ MaxEvictions = 0 /\ MaxLost = 0
    /\ OutsideFrom = 3

\* A settlement from which no delivery is begun.
Closed(s) == st[s] \notin {"none", "pending", "delivering"}
Closing   == {"deliver", "transfer", "record", "stamp", "release", "cancel"}

\* What each subscription's rows and tokens say of each other.
Honest(s) ==
    /\ tokens[s] > 0 =>
          /\ s \notin seen /\ sub[s] \notin {"none", "created"}
          /\ dtx[s] \/ (pc = "record" /\ who = {s})
          /\ st[s] # "delivery_failed" /\ (st[s] = "refunded" => sub[s] = "refunded")
          /\ st[s] = "awaiting_cancel" \/ (pc = "mark" /\ s \in who) => s \in named
    /\ dtx[s] \/ st[s] \in {"awaiting_release", "settled"} => tokens[s] > 0
    /\ st[s] = "delivering" => pc \in {"transfer", "record", "stamp"} /\ who = {s}
    /\ s \in seen => sub[s] \notin {"none", "in_escrow"}
    /\ s \in seen \/ sub[s] = "in_escrow" => \E c \in paid : Owner[c] = s

\* A close delivers to subscriptions in escrow, between the close and the deadline.
Orderly ==
    /\ pc \in Closing => actor = "issuer" /\ clock \in {1, 2} /\ work \subseteq InEscrow /\ todo \subseteq work
    /\ pc \in {"transfer", "record", "stamp"} => \E s \in work : who = {s} /\ (pc # "transfer" => tokens[s] > 0)

\* What a spend may do to the coins it is over.
Returned(c) == (tokens[Owner[c]] > 0 => Owner[c] \in named) /\ (Closed(Owner[c]) \/ (pc = "mark" /\ Owner[c] \in who))
Late(c)     == clock = 3 /\ (tokens[Owner[c]] > 0 => sub[Owner[c]] \in {"settled", "refunded"})
Lawful(t)   == \A c \in t.coins : (t.kind = "cancel" => Returned(c)) /\ (t.kind = "refund" => Late(c))

OneWay ==
    /\ \A sp \in spends : Lawful(sp.tx) /\ (sp.tx.kind = "release" /\ sp.state # "built" => clock >= 1)
    /\ pc \in Sending => Lawful(cur) /\ (cur.kind = "release" => clock >= 1)
    /\ \A t \in txs : \A c \in t.coins : c \in paid /\ (clock = 3 \/ Closed(Owner[c]))

CalmInv ==
    /\ OutsideFrom = 3
    /\ \A f \in {"crash", "reorg", "evict", "lost"} : budget[f] = 0
    /\ \A s \in Subs : Honest(s)
    /\ Orderly /\ OneWay

\* With the invariants of EscrowCloseProofs.
All == TypeOK /\ DeliveryInv /\ SpendsInv /\ WholeInv /\ BooksInv /\ CalmInv

-----------------------------------------------------------------------------
(* Nothing goes wrong, and what is done stays done.                          *)

LEMMA NoFault ==
    ASSUME CalmInv
    PROVE  ~Crash /\ (\A c \in Coins : ~DepositReorg(c)) /\ (\A t : ~Evict(t)) /\ (\A s \in Subs : ~TransferLost(s))
  BY DEF CalmInv, Crash, DepositReorg, Evict, TransferLost, Inject

LEMMA Quiet == ASSUME CalmInv, [Next]_vars PROVE \A f \in {"crash", "reorg", "evict", "lost"} : budget'[f] = 0
<1> USE DEF chain, policy, rows, job
<1>1. CASE Environment
  BY <1>1, NoFault DEF Environment, Subscribe, Deposit, OutsideReturn, Advance, FloorRises, CalmInv
<1>2. CASE DepositPass
  BY <1>2 DEF DepositPass, WatchScan, Credit, CalmInv
<1>3. CASE HolderStep
  <2>1. ASSUME NEW s \in Subs, Deliver(s) \/ Apply(s) PROVE UNCHANGED budget
    BY <2>1, NoFault DEF Deliver, DeliverDecided, DeliverBegin, DeliverResume, TransferDone, TransferRefused,
       DeliverRecord, DeliverStamp, Apply
  <2>2. CASE DeliverEnd \/ CloseRelease \/ CloseCancel \/ MarkCancel
    BY <2>2 DEF DeliverEnd, CloseRelease, CloseCancel, MarkCancel, CalmInv
  <2>3. CASE RefundArm \/ SendAnswered \/ SendUnanswered \/ MoveToBroadcast \/ ApplyDone
    BY <2>3 DEF RefundArm, SendAnswered, SendAccepted, SendGone, SendRefused, SendUnanswered, MoveToBroadcast,
       ApplyDone, CalmInv
  <2> QED
    BY <1>3, <2>1, <2>2, <2>3 DEF HolderStep, CalmInv
<1>4. CASE Issuer \/ RefundBuild \/ \E sp \in spends : Heal(sp)
  BY <1>4 DEF Issuer, Close, CancelRequest, Sign, SignAgain, RefundBuild, Heal, CalmInv
<1>5. CASE UNCHANGED vars
  BY <1>5 DEF vars, CalmInv
<1> QED
  BY <1>1, <1>2, <1>3, <1>4, <1>5 DEF Next

-----------------------------------------------------------------------------
(* The rows of a subscription.                                               *)

\* A step that leaves the row of x, and the step the holder is at with it, as they were.
LEMMA HonestKept ==
    ASSUME NEW x \in Subs, Honest(x),
           tokens'[x] = tokens[x], dtx'[x] = dtx[x], st'[x] = st[x], sub'[x] = sub[x],
           x \in seen' => x \in seen, named \subseteq named', paid \subseteq paid',
           \/ UNCHANGED <<pc, who>>
           \/ pc \notin {"transfer", "record", "stamp"} /\ pc' # "mark"
           \/ who # {x} /\ pc' # "mark"
    PROVE  Honest(x)'
  BY DEF Honest

LEMMA HonestWatch ==
    ASSUME All, Environment \/ DepositPass, NEW x \in Subs
    PROVE  Honest(x)'
<1> USE DEF chain, policy, rows, job
<1>0. Honest(x) /\ sub \in [Subs -> SubStates] /\ tokens \in [Subs -> Nat]
  BY DEF All, CalmInv, TypeOK
<1>1. ASSUME NEW s \in Subs, Subscribe(s) PROVE Honest(x)'
  <2>1. UNCHANGED <<tokens, dtx, st, seen, named, paid, pc, who>> /\ sub[s] = "none" /\ sub' = [sub EXCEPT ![s] = "created"]
    BY <1>1 DEF Subscribe
  <2>2. CASE x = s
    <3>1. tokens[x] = 0 /\ x \notin seen /\ sub'[x] = "created"
      BY <1>0, <2>1, <2>2 DEF Honest
    <3> QED
      BY <1>0, <2>1, <3>1 DEF Honest
  <2>3. CASE x # s
    BY <1>0, <2>1, <2>3, HonestKept
  <2> QED
    BY <2>2, <2>3
<1>2. ASSUME NEW c \in Coins, Deposit(c) \/ OutsideReturn(c) PROVE Honest(x)'
  BY <1>0, <1>2, HonestKept DEF Deposit, OutsideReturn
<1>3. CASE Advance \/ FloorRises
  BY <1>0, <1>3, HonestKept DEF Advance, FloorRises
<1>4. CASE WatchScan
  <2>1. /\ UNCHANGED <<tokens, dtx, st, sub, named, paid, pc, who>>
        /\ x \in seen' => sub[x] = "created" /\ CoinsOf({x}) # {}
    BY <1>4 DEF WatchScan
  <2>2. CoinsOf({x}) # {} => \E c \in paid : Owner[c] = x
    BY DEF CoinsOf, Live
  <2> QED
    BY <1>0, <2>1, <2>2 DEF Honest
<1>5. ASSUME NEW s \in Subs, Credit(s) PROVE Honest(x)'
  <2>1. UNCHANGED <<tokens, dtx, st, named, paid, pc, who>> /\ s \in seen /\ seen' = seen \ {s} /\ sub' = [sub EXCEPT ![s] = "in_escrow"]
    BY <1>5 DEF Credit
  <2>2. CASE x = s
    <3>1. tokens[x] = 0 /\ x \notin seen' /\ sub'[x] = "in_escrow" /\ \E c \in paid : Owner[c] = x
      BY <1>0, <2>1, <2>2 DEF Honest
    <3> QED
      BY <1>0, <2>1, <3>1 DEF Honest
  <2>3. CASE x # s
    BY <1>0, <2>1, <2>3, HonestKept
  <2> QED
    BY <2>2, <2>3
<1> QED
  BY <1>1, <1>2, <1>3, <1>4, <1>5, NoFault DEF Environment, DepositPass, All

LEMMA HonestDeliver ==
    ASSUME All, NEW s \in Subs, Deliver(s), NEW x \in Subs
    PROVE  Honest(x)'
<1> USE DEF chain, policy, rows, job
<1>0. /\ Honest(x) /\ Honest(s) /\ Orderly
      /\ tokens \in [Subs -> Nat] /\ st \in [Subs -> StStates] /\ dtx \in [Subs -> BOOLEAN]
  BY DEF All, CalmInv, TypeOK
<1>00. tokens[s] > 0 => st[s] \notin Undecided
  BY DEF All, DeliveryInv
<1>1. CASE DeliverDecided(s)
  BY <1>0, <1>1, HonestKept DEF DeliverDecided
<1>2. CASE DeliverBegin(s)
  <2>1. ~dtx[s] /\ tokens[s] = 0
    BY <1>0, <1>00, <1>2 DEF DeliverBegin, Honest
  <2>2. /\ UNCHANGED <<tokens, dtx, sub, seen, named, paid>> /\ pc = "deliver" /\ pc' = "transfer" /\ who' = {s}
        /\ st' = [st EXCEPT ![s] = "delivering"]
    BY <1>2, <2>1 DEF DeliverBegin
  <2>3. CASE x = s
    BY <1>0, <2>1, <2>2, <2>3 DEF Honest
  <2>4. CASE x # s
    BY <1>0, <2>2, <2>4, HonestKept
  <2> QED
    BY <2>3, <2>4
<1>3. CASE DeliverResume(s)
  BY <1>0, <1>3 DEF DeliverResume, Honest
<1>4. CASE TransferDone(s)
  <2>1. /\ UNCHANGED <<dtx, st, sub, seen, named, paid, who>> /\ pc = "transfer" /\ pc' = "record" /\ who = {s}
        /\ tokens' = [tokens EXCEPT ![s] = @ + 1]
    BY <1>4 DEF TransferDone, Transferred
  <2>2. st[s] = "delivering"
    BY <2>1 DEF All, DeliveryInv
  <2>3. sub[s] = "in_escrow"
    BY <1>0, <2>1 DEF Orderly, Closing, InEscrow
  <2>4. CASE x = s
    BY <1>0, <2>1, <2>2, <2>3, <2>4 DEF Honest
  <2>5. CASE x # s
    BY <1>0, <2>1, <2>5, HonestKept
  <2> QED
    BY <2>4, <2>5
<1>5. CASE TransferRefused(s)
  <2>1. /\ UNCHANGED <<tokens, dtx, sub, seen, named, paid>> /\ pc = "transfer" /\ pc' = "deliver" /\ who = {s}
        /\ st' = [st EXCEPT ![s] = "delivery_failed"]
    BY <1>5 DEF TransferRefused, TransferFailedWith
  <2>2. tokens[s] = 0
    BY <2>1 DEF All, DeliveryInv
  <2>3. CASE x = s
    BY <1>0, <2>1, <2>2, <2>3 DEF Honest
  <2>4. CASE x # s
    BY <1>0, <2>1, <2>4, HonestKept
  <2> QED
    BY <2>3, <2>4
<1>6. CASE DeliverRecord(s)
  <2>1. /\ UNCHANGED <<tokens, st, sub, seen, named, paid, who>> /\ pc = "record" /\ pc' = "stamp" /\ who = {s}
        /\ dtx' = [dtx EXCEPT ![s] = TRUE]
    BY <1>6 DEF DeliverRecord
  <2>2. tokens[s] > 0
    BY <1>0, <2>1 DEF Orderly
  <2>3. CASE x = s
    BY <1>0, <2>1, <2>2, <2>3 DEF Honest
  <2>4. CASE x # s
    BY <1>0, <2>1, <2>4, HonestKept
  <2> QED
    BY <2>3, <2>4
<1>7. CASE DeliverStamp(s)
  <2>1. /\ UNCHANGED <<tokens, dtx, sub, seen, named, paid>> /\ pc = "stamp" /\ pc' = "deliver" /\ who = {s}
        /\ st' = [st EXCEPT ![s] = "awaiting_release"]
    BY <1>7 DEF DeliverStamp
  <2>2. tokens[s] > 0
    BY <1>0, <2>1 DEF Orderly
  <2>3. CASE x = s
    BY <1>0, <2>1, <2>2, <2>3 DEF Honest
  <2>4. CASE x # s
    BY <1>0, <2>1, <2>4, HonestKept
  <2> QED
    BY <2>3, <2>4
<1> QED
  BY <1>1, <1>2, <1>3, <1>4, <1>5, <1>6, <1>7, NoFault DEF Deliver, All

LEMMA HonestApply ==
    ASSUME All, NEW s \in Subs, Apply(s), NEW x \in Subs
    PROVE  Honest(x)'
<1> USE DEF chain, policy, rows, job
<1>0. /\ Honest(x) /\ st \in [Subs -> StStates] /\ sub \in [Subs -> SubStates]
  BY DEF All, CalmInv, TypeOK
<1>1. /\ UNCHANGED <<tokens, dtx, seen, named, paid, pc, who>> /\ pc = "apply"
      /\ \/ st' = [st EXCEPT ![s] = Outcome] /\ sub' = [sub EXCEPT ![s] = Outcome]
         \/ st' = [st EXCEPT ![s] = IF @ = "none" THEN "pending" ELSE @] /\ UNCHANGED sub
  BY DEF Apply
<1>2. CASE x # s
  BY <1>0, <1>1, <1>2, HonestKept
<1>3. CASE x = s
  <2>1. Outcome = "settled" => tokens[s] > 0
    <3> SUFFICES ASSUME cur.kind = "release" PROVE tokens[s] > 0
      BY DEF Outcome
    <3>1. \E c \in cur.coins : Owner[c] = s
      BY DEF Apply, All, BooksInv
    <3>2. dtx[s]
      BY <3>1 DEF All, WholeInv
    <3> QED
      BY <1>0, <1>3, <3>2 DEF Honest
  <2>2. tokens[s] > 0 => st[s] # "none"
    BY DEF All, DeliveryInv, Undecided
  <2>3. Outcome \in {"settled", "refunded"}
    BY DEF Outcome
  <2>4. CASE st' = [st EXCEPT ![s] = Outcome] /\ sub' = [sub EXCEPT ![s] = Outcome]
    BY <1>0, <1>1, <1>3, <2>1, <2>3, <2>4 DEF Honest
  <2>5. CASE st' = [st EXCEPT ![s] = IF @ = "none" THEN "pending" ELSE @] /\ UNCHANGED sub
    BY <1>0, <1>1, <1>3, <2>2, <2>5 DEF Honest
  <2> QED
    BY <1>1, <2>4, <2>5
<1> QED
  BY <1>2, <1>3

LEMMA HonestCancel ==
    ASSUME All, CloseCancel \/ MarkCancel \/ \E names \in SUBSET Subs : CancelRequest(names), NEW x \in Subs
    PROVE  Honest(x)'
<1> USE DEF chain, policy, rows, job
<1>0. Honest(x) /\ st \in [Subs -> StStates]
  BY DEF All, CalmInv, TypeOK
<1>1. CASE CloseCancel
  <2>1. /\ UNCHANGED <<tokens, dtx, st, sub, seen, named, paid>> /\ pc = "cancel"
        /\ \/ pc' = "mark" /\ (x \in who' => st[x] \in {"delivery_failed", "awaiting_cancel"})
           \/ pc' = "idle"
    BY <1>1 DEF CloseCancel, Free
  <2> QED
    BY <1>0, <2>1 DEF Honest
<1>2. CASE MarkCancel
  <2>1. /\ UNCHANGED <<tokens, dtx, sub, seen, named, paid>> /\ pc = "mark" /\ pc' = "idle"
        /\ st'[x] = IF x \in who THEN "awaiting_cancel" ELSE st[x]
    BY <1>2 DEF MarkCancel, Free
  <2> QED
    BY <1>0, <2>1 DEF Honest
<1>3. ASSUME NEW names \in SUBSET Subs, CancelRequest(names) PROVE Honest(x)'
  <2>1. /\ UNCHANGED <<tokens, dtx, st, sub, seen, paid>> /\ pc = "idle" /\ pc' = "mark" /\ named \subseteq named'
        /\ x \in who' => Cancellable(x, names)
        /\ x \in names /\ Cancellable(x, names) /\ DeliveredOrDelivering(x) => x \in named'
    BY <1>3 DEF CancelRequest
  <2>2. tokens[x] > 0 /\ x \in who' => x \in named'
    BY <1>0, <2>1 DEF Honest, Cancellable, DeliveredOrDelivering
  <2> QED
    BY <1>0, <2>1, <2>2 DEF Honest
<1> QED
  BY <1>1, <1>2, <1>3

LEMMA HonestNext == ASSUME All, [Next]_vars, NEW x \in Subs PROVE Honest(x)'
<1> USE DEF chain, policy, rows, job
<1>0. Honest(x)
  BY DEF All, CalmInv
<1>1. CASE Environment \/ DepositPass
  BY <1>1, HonestWatch
<1>2. ASSUME NEW s \in Subs, Deliver(s) \/ Apply(s) PROVE Honest(x)'
  BY <1>2, HonestDeliver, HonestApply
<1>3. CASE CloseCancel \/ MarkCancel \/ \E names \in SUBSET Subs : CancelRequest(names)
  BY <1>3, HonestCancel
<1>4. CASE DeliverEnd \/ CloseRelease \/ RefundArm \/ SendAnswered \/ SendUnanswered \/ MoveToBroadcast \/ ApplyDone
  BY <1>0, <1>4, HonestKept DEF DeliverEnd, CloseRelease, RefundArm, SendAnswered, SendAccepted, SendGone,
     SendRefused, SendUnanswered, MoveToBroadcast, ApplyDone, Free
<1>5. CASE Close \/ RefundBuild
  BY <1>0, <1>5, HonestKept DEF Close, RefundBuild
<1>6. ASSUME NEW sp \in spends, Sign(sp) \/ SignAgain(sp) \/ Heal(sp) PROVE Honest(x)'
  BY <1>0, <1>6, HonestKept DEF Sign, SignAgain, Heal, BeginSend
<1>7. CASE UNCHANGED vars
  BY <1>0, <1>7, HonestKept DEF vars
<1> QED
  BY <1>1, <1>2, <1>3, <1>4, <1>5, <1>6, <1>7 DEF Next, HolderStep, Issuer

-----------------------------------------------------------------------------
(* What a spend may do to a coin stays allowed.                              *)

LEMMA Monotone ==
    ASSUME All, [Next]_vars, NEW x \in Subs
    PROVE  /\ tokens[x] > 0 => tokens'[x] > 0
           /\ Closed(x) => Closed(x)'
           /\ clock \in 0..3 /\ clock' \in 0..3 /\ clock <= clock' /\ paid \subseteq paid' /\ named \subseteq named'
           /\ tokens[x] > 0 /\ sub[x] \in {"settled", "refunded"} => sub'[x] \in {"settled", "refunded"}
           /\ pc = "mark" => UNCHANGED <<pc, who>> \/ \A s \in who : Closed(s)'
           /\ tokens[x] = 0 /\ tokens'[x] > 0 => st[x] = "delivering" /\ pc = "transfer" /\ clock \in {1, 2}
<1> USE DEF chain, policy, rows, job
<1>0. /\ tokens \in [Subs -> Nat] /\ st \in [Subs -> StStates] /\ sub \in [Subs -> SubStates] /\ clock \in 0..3
      /\ tokens[x] > 0 => x \notin seen
  BY DEF All, CalmInv, Honest, TypeOK
<1>1. CASE Environment
  <2>1. CASE Advance
    <3>1. clock < LastClock /\ clock' = clock + 1 /\ LastClock \in 0..3
      BY <2>1, EscrowAssumption DEF Advance, EscrowAssumption
    <3>2. clock' \in 0..3 /\ clock <= clock'
      BY <1>0, <3>1
    <3> QED
      BY <1>0, <2>1, <3>2 DEF Advance, Closed
  <2>2. CASE ~Advance
    BY <1>0, <1>1, <2>2, NoFault DEF Environment, Subscribe, Deposit, OutsideReturn, FloorRises, All, Closed
  <2> QED
    BY <2>1, <2>2
<1>2. CASE DepositPass
  BY <1>0, <1>2 DEF DepositPass, WatchScan, Credit, Closed
<1>3. ASSUME NEW s \in Subs, TransferDone(s) PROVE \A y \in Subs : tokens[y] = 0 /\ tokens'[y] > 0 => y = s
  BY <1>0, <1>3 DEF TransferDone, Transferred
<1>4. ASSUME NEW s \in Subs, TransferDone(s) PROVE st[s] = "delivering" /\ clock \in {1, 2}
  BY <1>4 DEF TransferDone, All, DeliveryInv, CalmInv, Orderly, Closing
<1>5. ASSUME NEW s \in Subs, Deliver(s)
      PROVE  /\ tokens[x] > 0 => tokens'[x] > 0
             /\ Closed(x) => Closed(x)'
             /\ UNCHANGED <<clock, paid, named, sub>> /\ pc # "mark"
             /\ tokens[x] = 0 /\ tokens'[x] > 0 => st[x] = "delivering" /\ pc = "transfer" /\ clock \in {1, 2}
  <2>1. CASE TransferDone(s)
    <3>1. tokens' = [tokens EXCEPT ![s] = @ + 1]
      BY <2>1 DEF TransferDone, Transferred
    <3>2. tokens[x] > 0 => tokens'[x] > 0
      BY <1>0, <3>1
    <3>3. UNCHANGED <<st, clock, paid, named, sub>> /\ pc = "transfer"
      BY <2>1 DEF TransferDone
    <3> QED
      BY <1>3, <1>4, <2>1, <3>2, <3>3 DEF Closed
  <2>2. CASE ~TransferDone(s)
    BY <1>0, <1>5, <2>2, NoFault DEF Deliver, DeliverDecided, DeliverBegin, DeliverResume, TransferRefused,
       TransferFailedWith, DeliverRecord, DeliverStamp, All, Closed, Undecided
  <2> QED
    BY <2>1, <2>2
<1>6. ASSUME NEW s \in Subs, Apply(s) PROVE UNCHANGED <<clock, paid, named, tokens>> /\ pc = "apply" /\ (Closed(x) => Closed(x)')
      /\ (sub[x] \in {"settled", "refunded"} => sub'[x] \in {"settled", "refunded"})
  BY <1>0, <1>6 DEF Apply, Outcome, Closed
<1>7. CASE DeliverEnd \/ CloseRelease \/ CloseCancel
  BY <1>0, <1>7 DEF DeliverEnd, CloseRelease, CloseCancel, Closed
<1>8. CASE MarkCancel
  BY <1>0, <1>8 DEF MarkCancel, Closed, All, TypeOK
<1>9. CASE RefundArm \/ SendAnswered \/ SendUnanswered \/ MoveToBroadcast \/ ApplyDone
  BY <1>0, <1>9 DEF RefundArm, SendAnswered, SendAccepted, SendGone, SendRefused, SendUnanswered, MoveToBroadcast,
     ApplyDone, Closed
<1>10. CASE Issuer \/ RefundBuild \/ \E sp \in spends : Heal(sp)
  <2>1. UNCHANGED <<clock, paid, tokens, st, sub>>
    BY <1>10 DEF Issuer, Close, CancelRequest, Sign, SignAgain, RefundBuild, Heal
  <2>2. pc = "idle" /\ named \subseteq named'
    BY <1>10 DEF Issuer, Close, CancelRequest, Sign, SignAgain, RefundBuild, Heal
  <2> QED
    BY <1>0, <2>1, <2>2 DEF Closed
<1>11. CASE UNCHANGED vars
  BY <1>0, <1>11 DEF vars, Closed
<1>12. CASE HolderStep
  BY <1>0, <1>5, <1>6, <1>7, <1>8, <1>9, <1>12 DEF HolderStep
<1> QED
  BY <1>1, <1>2, <1>10, <1>11, <1>12 DEF Next

LEMMA ClockNext == ASSUME All, [Next]_vars PROVE clock' = clock \/ Advance
<1> USE DEF chain, policy, rows, job
<1>1. CASE Environment \/ DepositPass \/ UNCHANGED vars
  BY <1>1 DEF Environment, Subscribe, Deposit, OutsideReturn, DepositReorg, Evict, FloorRises, Crash, DepositPass,
     WatchScan, Credit, vars
<1>2. ASSUME NEW s \in Subs, Deliver(s) \/ Apply(s) PROVE clock' = clock
  BY <1>2 DEF Deliver, DeliverDecided, DeliverBegin, DeliverResume, TransferDone, TransferRefused, TransferLost,
     DeliverRecord, DeliverStamp, Apply
<1>3. CASE DeliverEnd \/ CloseRelease \/ CloseCancel \/ MarkCancel
  BY <1>3 DEF DeliverEnd, CloseRelease, CloseCancel, MarkCancel
<1>4. CASE RefundArm \/ SendAnswered \/ SendUnanswered \/ MoveToBroadcast \/ ApplyDone
  BY <1>4 DEF RefundArm, SendAnswered, SendAccepted, SendGone, SendRefused, SendUnanswered, MoveToBroadcast, ApplyDone
<1>5. CASE Issuer \/ RefundBuild \/ \E sp \in spends : Heal(sp)
  BY <1>5 DEF Issuer, Close, CancelRequest, Sign, SignAgain, RefundBuild, Heal
<1> QED
  BY <1>1, <1>2, <1>3, <1>4, <1>5 DEF Next, HolderStep

LEMMA CoinKept ==
    ASSUME All, [Next]_vars, NEW c \in Coins
    PROVE  /\ Returned(c) => Returned(c)'
           /\ Late(c) => Late(c)'
           /\ c \in paid /\ (clock = 3 \/ Closed(Owner[c])) => c \in paid' /\ (clock' = 3 \/ Closed(Owner[c])')
<1> DEFINE x == Owner[c]
<1>1. x \in Subs /\ tokens[x] \in Nat /\ st[x] \in StStates
  BY EscrowAssumption DEF EscrowAssumption, All, TypeOK
<1>2. clock = 3 => clock' = 3
  BY <1>1, Monotone
<1>3. Closed(x) => Closed(x)'
  BY <1>1, Monotone
<1>4. (Returned(c) \/ Late(c)) /\ tokens'[x] > 0 => tokens[x] > 0
  <2> SUFFICES ASSUME Returned(c) \/ Late(c), tokens'[x] > 0, tokens[x] = 0 PROVE FALSE
    BY <1>1
  <2>1. st[x] = "delivering" /\ pc = "transfer" /\ clock \in {1, 2}
    BY <1>1, Monotone
  <2> QED
    BY <2>1 DEF Returned, Late, Closed
<1>5. named \subseteq named' /\ (tokens[x] > 0 /\ sub[x] \in {"settled", "refunded"} => sub'[x] \in {"settled", "refunded"})
      /\ paid \subseteq paid' /\ (pc = "mark" => UNCHANGED <<pc, who>> \/ \A s \in who : Closed(s)')
  BY <1>1, Monotone
<1>6. Returned(c) => Returned(c)'
  <2> SUFFICES ASSUME Returned(c) PROVE Returned(c)'
    OBVIOUS
  <2>1. tokens'[x] > 0 => x \in named'
    BY <1>4, <1>5 DEF Returned
  <2>2. Closed(x)' \/ (pc' = "mark" /\ x \in who')
    BY <1>3, <1>5 DEF Returned
  <2> QED
    BY <2>1, <2>2 DEF Returned
<1>7. Late(c) => Late(c)'
  BY <1>2, <1>4, <1>5 DEF Late
<1> QED
  BY <1>2, <1>3, <1>5, <1>6, <1>7

-----------------------------------------------------------------------------
(* The steps of a close.                                                     *)

LEMMA OrderlyNext == ASSUME All, [Next]_vars PROVE Orderly'
<1> USE DEF chain, policy, rows, job
<1>0. /\ Orderly /\ sub \in [Subs -> SubStates] /\ tokens \in [Subs -> Nat] /\ clock \in 0..3
      /\ work \subseteq Subs /\ todo \subseteq Subs /\ seen \subseteq Subs
      /\ \A s \in Subs : Honest(s)
  BY DEF All, CalmInv, TypeOK
<1>1. ASSUME pc \in Closing, UNCHANGED <<pc, actor, work, todo, who>>, InEscrow \subseteq InEscrow',
             clock' \in {1, 2}, \A s \in Subs : tokens[s] > 0 => tokens'[s] > 0
      PROVE  Orderly'
  BY <1>0, <1>1 DEF Orderly, Closing
<1>2. ASSUME UNCHANGED pc, pc \notin Closing PROVE Orderly'
  BY <1>2 DEF Orderly, Closing
<1>3. CASE Environment
  <2>1. CASE Advance
    <3>1. UNCHANGED <<pc, actor, work, todo, who, sub, tokens>> /\ clock' = clock + 1 /\ (clock = 2 => actor # "issuer")
      BY <2>1 DEF Advance
    <3>2. pc \in Closing => clock' \in {1, 2}
      BY <1>0, <3>1 DEF Orderly
    <3> QED
      BY <1>1, <1>2, <3>1, <3>2 DEF InEscrow
  <2>2. ASSUME NEW s \in Subs, Subscribe(s) PROVE Orderly'
    <3>1. UNCHANGED <<pc, actor, work, todo, who, clock, tokens>> /\ sub[s] = "none" /\ sub' = [sub EXCEPT ![s] = "created"]
      BY <2>2 DEF Subscribe
    <3>2. InEscrow \subseteq InEscrow'
      BY <1>0, <3>1 DEF InEscrow
    <3>3. pc \in Closing => clock' \in {1, 2}
      BY <1>0, <3>1 DEF Orderly
    <3> QED
      BY <1>1, <1>2, <3>1, <3>2, <3>3
  <2>3. ASSUME NEW c \in Coins, Deposit(c) \/ OutsideReturn(c) PROVE Orderly'
    BY <1>0, <1>1, <1>2, <2>3 DEF Deposit, OutsideReturn, InEscrow, Orderly
  <2>4. CASE FloorRises
    BY <1>0, <1>1, <1>2, <2>4 DEF FloorRises, InEscrow, Orderly
  <2> QED
    BY <1>3, <2>1, <2>2, <2>3, <2>4, NoFault DEF Environment, All
<1>4. CASE DepositPass
  <2>1. UNCHANGED <<pc, actor, work, todo, who, clock, tokens>>
    BY <1>4 DEF DepositPass, WatchScan, Credit
  <2>2. InEscrow \subseteq InEscrow'
    BY <1>0, <1>4 DEF DepositPass, WatchScan, Credit, InEscrow
  <2>3. pc \in Closing => clock' \in {1, 2}
    BY <1>0, <2>1 DEF Orderly
  <2> QED
    BY <1>1, <1>2, <2>1, <2>2, <2>3
<1>5. ASSUME NEW s \in Subs, Deliver(s) PROVE Orderly'
  <2>1. UNCHANGED <<actor, work, clock, sub>> /\ pc \in {"deliver", "transfer", "record", "stamp"} /\ todo' \subseteq todo
    BY <1>5, NoFault DEF Deliver, DeliverDecided, DeliverBegin, DeliverResume, TransferDone, TransferRefused,
       TransferFailedWith, DeliverRecord, DeliverStamp, All
  <2>2. pc' \in Closing => actor' = "issuer" /\ clock' \in {1, 2} /\ work' \subseteq InEscrow' /\ todo' \subseteq work'
    BY <1>0, <2>1 DEF Orderly, InEscrow, Closing
  <2>3. CASE DeliverDecided(s) \/ DeliverStamp(s) \/ TransferRefused(s)
    BY <2>2, <2>3 DEF DeliverDecided, DeliverStamp, TransferRefused, TransferFailedWith, Orderly
  <2>4. CASE DeliverBegin(s)
    <3>1. s \in work /\ who' = {s} /\ UNCHANGED <<work, tokens>> /\ (pc' = "transfer" \/ dtx[s])
      BY <1>0, <2>1, <2>4 DEF DeliverBegin, First, Orderly, Closing
    <3>2. dtx[s] => tokens[s] > 0
      BY <1>0 DEF Honest
    <3> QED
      BY <2>2, <3>1, <3>2 DEF Orderly
  <2>5. CASE DeliverResume(s)
    BY <1>0, <2>5 DEF DeliverResume, Honest
  <2>6. CASE TransferDone(s)
    <3>1. tokens' = [tokens EXCEPT ![s] = @ + 1] /\ who' = {s} /\ pc' = "record" /\ UNCHANGED work
      BY <2>6 DEF TransferDone, Transferred
    <3>2. s \in work
      BY <1>0, <2>6 DEF TransferDone, Orderly
    <3>3. tokens'[s] > 0
      BY <1>0, <3>1
    <3> QED
      BY <2>2, <3>1, <3>2, <3>3 DEF Orderly
  <2>7. CASE DeliverRecord(s)
    <3>1. pc = "record" /\ pc' = "stamp" /\ UNCHANGED <<who, work, tokens>>
      BY <2>7 DEF DeliverRecord
    <3> QED
      BY <1>0, <2>2, <3>1 DEF Orderly
  <2> QED
    BY <1>5, <2>3, <2>4, <2>5, <2>6, <2>7, NoFault DEF Deliver, All
<1>6. CASE DeliverEnd \/ CloseRelease
  BY <1>0, <1>6 DEF DeliverEnd, CloseRelease, Orderly, Closing, InEscrow
<1>7. CASE Close
  BY <1>0, <1>7 DEF Close, Orderly, Closing, InEscrow
<1>8. ASSUME pc' \notin Closing PROVE Orderly'
  BY <1>8 DEF Orderly, Closing
<1>9. CASE CloseCancel \/ MarkCancel \/ RefundBuild \/ \E names \in SUBSET Subs : CancelRequest(names)
  BY <1>8, <1>9 DEF CloseCancel, MarkCancel, RefundBuild, CancelRequest, Free, Closing
<1>10. ASSUME NEW s \in Subs, Apply(s) PROVE Orderly'
  BY <1>8, <1>10 DEF Apply, Closing
<1>11. CASE RefundArm \/ SendAnswered \/ SendUnanswered \/ MoveToBroadcast \/ ApplyDone
  BY <1>8, <1>11 DEF RefundArm, SendAnswered, SendAccepted, SendGone, SendRefused, SendUnanswered, MoveToBroadcast,
     ApplyDone, Free, Closing
<1>12. ASSUME NEW sp \in spends, Sign(sp) \/ SignAgain(sp) \/ Heal(sp) PROVE Orderly'
  BY <1>8, <1>12 DEF Sign, SignAgain, Heal, BeginSend, Closing
<1>13. CASE UNCHANGED vars
  BY <1>0, <1>13 DEF vars, Orderly, InEscrow
<1> QED
  BY <1>3, <1>4, <1>5, <1>6, <1>7, <1>9, <1>10, <1>11, <1>12, <1>13 DEF Next, HolderStep, Issuer

-----------------------------------------------------------------------------
(* What a new spend may do.                                                  *)

\* A spend built over S by the close, the issuer's cancel or the refund.
LEMMA NewLawful ==
    ASSUME All, [Next]_vars, NEW kind \in Kinds, NEW S \in SUBSET Subs, spends' = Insert(kind, S),
           \/ CloseRelease /\ kind = "release"
           \/ CloseCancel /\ kind = "cancel" /\ S = {s \in work : st[s] \in {"delivery_failed", "awaiting_cancel"}}
           \/ (\E names \in SUBSET Subs : CancelRequest(names) /\ S = {s \in Subs : Cancellable(s, names)}) /\ kind = "cancel"
           \/ RefundBuild /\ kind = "refund" /\ S = Due
    PROVE  \A c \in CoinsOf(S) : (kind = "cancel" => Returned(c)') /\ (kind = "refund" => Late(c)')
<1> USE DEF chain, policy, rows, job
<1> SUFFICES ASSUME NEW c \in CoinsOf(S) PROVE (kind = "cancel" => Returned(c)') /\ (kind = "refund" => Late(c)')
  OBVIOUS
<1> DEFINE x == Owner[c]
<1>0. x \in S /\ x \in Subs
  BY DEF CoinsOf
<1>00. Honest(x) /\ st[x] \in StStates /\ sub[x] \in SubStates /\ tokens[x] \in Nat
  BY <1>0 DEF All, CalmInv, TypeOK
<1>1. CASE CloseCancel /\ kind = "cancel" /\ S = {s \in work : st[s] \in {"delivery_failed", "awaiting_cancel"}}
  <2>1. st[x] \in {"delivery_failed", "awaiting_cancel"} /\ UNCHANGED <<st, tokens, named>> /\ pc = "cancel"
    BY <1>0, <1>1 DEF CloseCancel
  <2>2. tokens[x] > 0 => x \in named
    BY <1>00, <2>1 DEF Honest
  <2> QED
    BY <1>1, <2>1, <2>2 DEF Returned, Closed
<1>2. ASSUME NEW names \in SUBSET Subs, CancelRequest(names), S = {s \in Subs : Cancellable(s, names)}, kind = "cancel"
      PROVE  Returned(c)'
  <2>1. Cancellable(x, names)
    BY <1>0, <1>2
  <2>2. /\ UNCHANGED <<st, tokens>> /\ pc = "idle" /\ pc' = "mark" /\ x \in who'
        /\ x \in names /\ DeliveredOrDelivering(x) => x \in named'
    BY <1>0, <1>2, <2>1 DEF CancelRequest
  <2>3. tokens[x] > 0 => x \in named'
    BY <1>00, <2>1, <2>2 DEF Honest, Cancellable, DeliveredOrDelivering
  <2> QED
    BY <2>2, <2>3 DEF Returned
<1>3. CASE RefundBuild /\ kind = "refund" /\ S = Due
  <2>1. UNCHANGED <<sub, tokens>> /\ clock = 3 /\ clock' = 3 /\ pc = "idle"
    BY <1>3 DEF RefundBuild
  <2>2. ~(sub[x] \in {"created", "in_escrow"} /\ DeliveredOrDelivering(x))
    BY <1>0, <1>3 DEF Due
  <2>3. tokens[x] > 0 => sub[x] \in {"settled", "refunded"}
    BY <1>00, <2>1, <2>2 DEF Honest, DeliveredOrDelivering, SubStates
  <2> QED
    BY <1>3, <2>1, <2>3 DEF Late
<1> QED
  BY <1>1, <1>2, <1>3 DEF CloseRelease

\* The spends.
SpendsLawful(SP) ==
    \A sp \in SP : /\ \A c \in sp.tx.coins : (sp.tx.kind = "cancel" => Returned(c)') /\ (sp.tx.kind = "refund" => Late(c)')
                   /\ sp.tx.kind = "release" /\ sp.state # "built" => clock' >= 1

LEMMA SpendsStayLawful == ASSUME All, [Next]_vars PROVE SpendsLawful(spends)
<1>1. \A sp \in spends : Lawful(sp.tx) /\ (sp.tx.kind = "release" /\ sp.state # "built" => clock >= 1)
  BY DEF All, CalmInv, OneWay
<1>2. \A sp \in spends : sp.tx.coins \subseteq Coins
  BY DEF All, TypeOK, Spends, Txs
<1>3. clock >= 1 => clock' >= 1
  BY ClockNext DEF Advance, All, TypeOK
<1>4. \A c \in Coins : (Returned(c) => Returned(c)') /\ (Late(c) => Late(c)')
  BY CoinKept
<1> QED
  BY <1>1, <1>2, <1>3, <1>4 DEF SpendsLawful, Lawful

\* Every spend the next state holds was there, or was moved from one that was, or is new.
LEMMA SpendsNextLawful == ASSUME All, [Next]_vars PROVE SpendsLawful(spends')
<1> USE DEF chain, policy, rows, job
<1>0. SpendsLawful(spends) /\ spends \subseteq Spends
  BY SpendsStayLawful DEF All, TypeOK
<1>00. clock >= 1 => clock' >= 1
  BY ClockNext DEF Advance, All, TypeOK
<1>1. ASSUME spends' \subseteq spends PROVE SpendsLawful(spends')
  BY <1>0, <1>1 DEF SpendsLawful
<1>2. ASSUME NEW t, NEW to \in {"built", "broadcasting", "broadcast"}, spends' \subseteq Moved(t, to),
             t.kind = "release" /\ to # "built" => clock >= 1
      PROVE  SpendsLawful(spends')
  <2> SUFFICES ASSUME NEW y \in Moved(t, to)
               PROVE  /\ \A c \in y.tx.coins : (y.tx.kind = "cancel" => Returned(c)') /\ (y.tx.kind = "refund" => Late(c)')
                      /\ y.tx.kind = "release" /\ y.state # "built" => clock' >= 1
    BY <1>2 DEF SpendsLawful
  <2>1. CASE y \in spends
    BY <1>0, <2>1 DEF SpendsLawful
  <2>2. ASSUME NEW sp \in spends, sp.tx = t, y = [sp EXCEPT !.state = to]
        PROVE  /\ \A c \in y.tx.coins : (y.tx.kind = "cancel" => Returned(c)') /\ (y.tx.kind = "refund" => Late(c)')
               /\ y.tx.kind = "release" /\ y.state # "built" => clock' >= 1
    <3>1. y.tx = sp.tx /\ y.state = to
      BY <1>0, <2>2 DEF Spends
    <3> QED
      BY <1>0, <1>00, <1>2, <2>2, <3>1 DEF SpendsLawful
  <2> QED
    BY <2>1, <2>2 DEF Moved, Without
<1>3. ASSUME NEW kind \in Kinds, NEW S \in SUBSET Subs, spends' = Insert(kind, S),
             \A c \in CoinsOf(S) : (kind = "cancel" => Returned(c)') /\ (kind = "refund" => Late(c)')
      PROVE  SpendsLawful(spends')
  <2>1. \A y \in spends' : y \in spends \/ (y.tx.kind = kind /\ y.tx.coins = CoinsOf(S) /\ y.state = "built")
    BY <1>3 DEF Insert, NewSpend
  <2> QED
    BY <1>0, <1>3, <2>1 DEF SpendsLawful
<1>4. CASE Environment \/ DepositPass \/ UNCHANGED vars
  BY <1>1, <1>4, Bystander
<1>5. ASSUME NEW s \in Subs, Deliver(s) \/ Apply(s) PROVE SpendsLawful(spends')
  BY <1>1, <1>5 DEF Deliver, Apply, DeliverDecided, DeliverBegin, DeliverResume, TransferDone, TransferRefused,
     TransferLost, DeliverRecord, DeliverStamp
<1>6. CASE DeliverEnd \/ MarkCancel \/ SendAccepted \/ SendUnanswered \/ ApplyDone \/ Close
  BY <1>1, <1>6 DEF DeliverEnd, MarkCancel, SendAccepted, SendUnanswered, ApplyDone, Close
<1>7. CASE SendGone
  BY <1>1, <1>7 DEF SendGone, Without
<1>8. CASE SendRefused
  <2>1. CASE cur.kind = "refund"
    BY <1>1, <1>8, <2>1 DEF SendRefused, AfterRefusal, Without
  <2>2. CASE cur.kind # "refund"
    BY <1>2, <1>8, <2>2 DEF SendRefused, AfterRefusal
  <2> QED
    BY <2>1, <2>2
<1>9. CASE MoveToBroadcast
  <2>1. spends' = Moved(cur, "broadcast") /\ (cur.kind = "release" => clock >= 1)
    BY <1>9 DEF MoveToBroadcast, All, CalmInv, OneWay, Sending
  <2> QED
    BY <1>2, <2>1
<1>10. CASE RefundArm
  <2>1. cur.kind = "refund" /\ spends' \subseteq Moved(cur, "broadcasting")
    BY <1>10 DEF RefundArm, All, SpendsInv
  <2> QED
    BY <1>2, <2>1
<1>11. ASSUME NEW sp \in spends, Sign(sp) PROVE SpendsLawful(spends')
  BY <1>2, <1>11 DEF Sign
<1>12. ASSUME NEW sp \in spends, SignAgain(sp) \/ Heal(sp) PROVE SpendsLawful(spends')
  BY <1>1, <1>12 DEF SignAgain, Heal
<1>13. CASE CloseRelease
  <2>1. {s \in work : st[s] = "awaiting_release"} \in SUBSET Subs /\ "release" \in Kinds
    BY DEF All, TypeOK, Kinds
  <2> QED
    BY <1>1, <1>3, <1>13, <2>1, NewLawful DEF CloseRelease
<1>14. CASE CloseCancel
  <2>1. {s \in work : st[s] \in {"delivery_failed", "awaiting_cancel"}} \in SUBSET Subs /\ "cancel" \in Kinds
    BY DEF All, TypeOK, Kinds
  <2> QED
    BY <1>1, <1>3, <1>14, <2>1, NewLawful DEF CloseCancel
<1>15. ASSUME NEW names \in SUBSET Subs, CancelRequest(names) PROVE SpendsLawful(spends')
  <2>1. {s \in Subs : Cancellable(s, names)} \in SUBSET Subs /\ "cancel" \in Kinds
    BY DEF Kinds
  <2>2. spends' = Insert("cancel", {s \in Subs : Cancellable(s, names)})
    BY <1>15 DEF CancelRequest
  <2> QED
    BY <1>3, <1>15, <2>1, <2>2, NewLawful
<1>16. CASE RefundBuild
  <2>1. Due \in SUBSET Subs /\ "refund" \in Kinds /\ spends' = Insert("refund", Due)
    BY <1>16 DEF Due, Kinds, RefundBuild
  <2> QED
    BY <1>3, <1>16, <2>1, NewLawful
<1> QED
  BY <1>4, <1>5, <1>6, <1>7, <1>8, <1>9, <1>10, <1>11, <1>12, <1>13, <1>14, <1>15, <1>16
     DEF Next, HolderStep, Issuer, SendAnswered

-----------------------------------------------------------------------------
(* The spend being sent, and the transactions the network has.               *)

LEMMA SentLawful ==
    ASSUME All, [Next]_vars, pc' \in Sending
    PROVE  (\A c \in cur'.coins : (cur'.kind = "cancel" => Returned(c)') /\ (cur'.kind = "refund" => Late(c)'))
           /\ (cur'.kind = "release" => clock' >= 1)
<1> USE DEF chain, policy, rows, job
<1>0. clock >= 1 => clock' >= 1
  BY ClockNext DEF Advance, All, TypeOK
<1>1. ASSUME pc \in Sending, UNCHANGED cur
      PROVE  (\A c \in cur'.coins : (cur'.kind = "cancel" => Returned(c)') /\ (cur'.kind = "refund" => Late(c)'))
             /\ (cur'.kind = "release" => clock' >= 1)
  <2>1. Lawful(cur) /\ (cur.kind = "release" => clock >= 1) /\ cur.coins \subseteq Coins
    BY <1>1 DEF All, CalmInv, OneWay, TypeOK, Txs
  <2>2. \A c \in cur.coins : (Returned(c) => Returned(c)') /\ (Late(c) => Late(c)')
    BY <2>1, CoinKept
  <2> QED
    BY <1>0, <1>1, <2>1, <2>2 DEF Lawful
<1>2. ASSUME NEW sp \in spends, sp.state # "built" \/ (sp.tx.kind = "release" => clock >= 1), cur' = sp.tx
      PROVE  (\A c \in cur'.coins : (cur'.kind = "cancel" => Returned(c)') /\ (cur'.kind = "refund" => Late(c)'))
             /\ (cur'.kind = "release" => clock' >= 1)
  <2>1. \A c \in sp.tx.coins : (sp.tx.kind = "cancel" => Returned(c)') /\ (sp.tx.kind = "refund" => Late(c)')
    BY SpendsStayLawful DEF SpendsLawful
  <2>2. sp.tx.kind = "release" /\ sp.state # "built" => clock' >= 1
    BY SpendsStayLawful DEF SpendsLawful
  <2> QED
    BY <1>0, <1>2, <2>1, <2>2
<1>3. CASE Environment \/ DepositPass \/ UNCHANGED vars
  BY <1>1, <1>3, NoFault DEF Environment, Subscribe, Deposit, OutsideReturn, Advance, FloorRises, DepositPass,
     WatchScan, Credit, vars, All
<1>4. ASSUME NEW s \in Subs, Apply(s) PROVE pc \in Sending /\ UNCHANGED cur
  BY <1>4 DEF Apply, Sending
<1>5. ASSUME NEW s \in Subs, Deliver(s) PROVE FALSE
  BY <1>5, NoFault DEF Deliver, DeliverDecided, DeliverBegin, DeliverResume, TransferDone, TransferRefused,
     TransferFailedWith, DeliverRecord, DeliverStamp, All, Sending
<1>6. CASE DeliverEnd \/ CloseRelease \/ CloseCancel \/ MarkCancel \/ Close \/ ApplyDone \/ SendGone \/ SendRefused
           \/ SendUnanswered \/ \E names \in SUBSET Subs : CancelRequest(names)
  BY <1>6 DEF DeliverEnd, CloseRelease, CloseCancel, MarkCancel, Close, ApplyDone, SendGone, SendRefused,
     SendUnanswered, CancelRequest, Free, Sending
<1>7. CASE RefundArm \/ SendAccepted \/ MoveToBroadcast
  BY <1>1, <1>7 DEF RefundArm, SendAccepted, MoveToBroadcast, Sending
<1>8. ASSUME NEW sp \in spends, Sign(sp) \/ SignAgain(sp) \/ Heal(sp)
      PROVE  cur' = sp.tx /\ (sp.state # "built" \/ (sp.tx.kind = "release" => clock >= 1))
  BY <1>8 DEF Sign, SignAgain, Heal, BeginSend
<1>9. CASE RefundBuild
  <2>1. Due \in SUBSET Subs /\ "refund" \in Kinds /\ spends' = Insert("refund", Due)
    BY <1>9 DEF Due, Kinds, RefundBuild
  <2>2. cur'.kind = "refund" /\ cur'.coins = CoinsOf(Due)
    BY <1>9 DEF RefundBuild, NewSpend
  <2>3. \A c \in CoinsOf(Due) : Late(c)'
    BY <1>9, <2>1, NewLawful
  <2> QED
    BY <2>2, <2>3
<1> QED
  BY <1>1, <1>2, <1>3, <1>4, <1>5, <1>6, <1>7, <1>8, <1>9 DEF Next, HolderStep, Issuer, SendAnswered

\* What is in hand can only be sent over coins from which no delivery can follow.
LEMMA SentClosed ==
    ASSUME All, pc = "send", NEW c \in cur.coins
    PROVE  clock = 3 \/ Closed(Owner[c])
<1> DEFINE x == Owner[c]
<1>1. cur.kind \in Kinds /\ c \in Coins
  BY DEF All, BooksInv, Sending, TypeOK, Txs
<1>2. x \in Subs
  BY <1>1, EscrowAssumption DEF EscrowAssumption
<1>3. Lawful(cur) /\ Honest(x) /\ st[x] \in StStates
  BY <1>2 DEF All, CalmInv, OneWay, Sending, TypeOK
<1>4. CASE cur.kind = "release"
  <2>1. tokens[x] > 0
    BY <1>3, <1>4 DEF All, WholeInv, Honest
  <2>2. st[x] \notin Undecided /\ st[x] # "delivering"
    BY <1>2, <1>3, <2>1 DEF All, DeliveryInv, Honest
  <2> QED
    BY <1>3, <2>2 DEF Closed, Undecided
<1>5. CASE cur.kind \in {"cancel", "refund"}
  BY <1>3, <1>5 DEF Lawful, Returned, Late
<1> QED
  BY <1>1, <1>4, <1>5 DEF Kinds

LEMMA TakenClosed ==
    ASSUME All, [Next]_vars
    PROVE  \A t \in txs' : \A c \in t.coins : c \in paid' /\ (clock' = 3 \/ Closed(Owner[c])')
<1> USE DEF chain, policy, rows, job
<1>1. ASSUME NEW c \in Coins, c \in paid, clock = 3 \/ Closed(Owner[c])
      PROVE  c \in paid' /\ (clock' = 3 \/ Closed(Owner[c])')
  BY <1>1, CoinKept
<1>2. \A t \in txs : \A c \in t.coins : c \in paid /\ (clock = 3 \/ Closed(Owner[c])) /\ c \in Coins
  BY DEF All, CalmInv, OneWay, TypeOK, Txs
<1>3. ASSUME NEW C \in SUBSET Coins, NEW t, t.coins = C, txs' \subseteq txs \cup {t}, C \subseteq Live,
             \A c \in C : clock = 3 \/ Closed(Owner[c])
      PROVE  \A u \in txs' : \A c \in u.coins : c \in paid' /\ (clock' = 3 \/ Closed(Owner[c])')
  <2>1. \A c \in C : c \in paid
    BY <1>3 DEF Live
  <2> QED
    BY <1>1, <1>2, <1>3, <2>1
<1>4. ASSUME txs' \subseteq txs
      PROVE  \A u \in txs' : \A c \in u.coins : c \in paid' /\ (clock' = 3 \/ Closed(Owner[c])')
  BY <1>1, <1>2, <1>4
<1>5. CASE Environment \/ DepositPass \/ UNCHANGED vars
  <2>1. ASSUME NEW c \in Coins, OutsideReturn(c)
        PROVE \A u \in txs' : \A d \in u.coins : d \in paid' /\ (clock' = 3 \/ Closed(Owner[d])')
    <3>1. clock = 3 /\ c \in Live
      BY <2>1 DEF OutsideReturn, All, CalmInv, TypeOK
    <3> DEFINE out == [kind |-> "outside", coins |-> {c}, rate |-> 0]
    <3>2. out.coins = {c} /\ txs' \subseteq txs \cup {out}
      BY <2>1 DEF OutsideReturn
    <3> HIDE DEF out
    <3> QED
      BY <1>3, <3>1, <3>2
  <2> QED
    BY <1>4, <1>5, <2>1, NoFault DEF Environment, Subscribe, Deposit, Advance, FloorRises, DepositPass,
       WatchScan, Credit, vars, All
<1>6. ASSUME NEW s \in Subs, Deliver(s) \/ Apply(s) PROVE txs' = txs
  BY <1>6 DEF Deliver, Apply, DeliverDecided, DeliverBegin, DeliverResume, TransferDone, TransferRefused,
     TransferLost, DeliverRecord, DeliverStamp
<1>7. CASE DeliverEnd \/ CloseRelease \/ CloseCancel \/ MarkCancel \/ RefundArm \/ SendGone \/ SendRefused
           \/ MoveToBroadcast \/ ApplyDone
  BY <1>4, <1>7 DEF DeliverEnd, CloseRelease, CloseCancel, MarkCancel, RefundArm, SendGone, SendRefused,
     MoveToBroadcast, ApplyDone
<1>8. CASE SendAccepted \/ SendUnanswered
  <2>1. pc = "send" /\ (txs' = txs \/ (cur.coins \subseteq Live /\ txs' = txs \cup {cur}))
    BY <1>8 DEF SendAccepted, SendUnanswered
  <2>2. \A c \in cur.coins : clock = 3 \/ Closed(Owner[c])
    BY <2>1, SentClosed
  <2>3. cur.coins \in SUBSET Coins
    BY DEF All, TypeOK, Txs
  <2> QED
    BY <1>3, <1>4, <2>1, <2>2, <2>3
<1>9. CASE Issuer \/ RefundBuild \/ \E sp \in spends : Heal(sp)
  BY <1>4, <1>9 DEF Issuer, Close, CancelRequest, Sign, SignAgain, RefundBuild, Heal
<1> QED
  BY <1>4, <1>5, <1>6, <1>7, <1>8, <1>9 DEF Next, HolderStep, SendAnswered

-----------------------------------------------------------------------------
(* The invariant.                                                            *)

LEMMA CalmNext == ASSUME All, [Next]_vars PROVE CalmInv'
<1>1. \A t \in txs' : \A c \in t.coins : c \in paid' /\ (clock' = 3 \/ Closed(Owner[c])')
  BY TakenClosed
<1>2. \A sp \in spends' : Lawful(sp.tx)' /\ (sp.tx.kind = "release" /\ sp.state # "built" => clock' >= 1)
  BY SpendsNextLawful DEF SpendsLawful, Lawful
<1>3. pc' \in Sending => Lawful(cur)' /\ (cur'.kind = "release" => clock' >= 1)
  BY SentLawful DEF Lawful
<1>4. OneWay'
  BY <1>1, <1>2, <1>3 DEF OneWay
<1>5. \A s \in Subs : Honest(s)'
  BY HonestNext
<1>6. OutsideFrom = 3
  BY DEF All, CalmInv
<1>7. \A f \in {"crash", "reorg", "evict", "lost"} : budget'[f] = 0
  BY Quiet DEF All
<1>8. Orderly'
  BY OrderlyNext
<1> QED
  BY <1>4, <1>5, <1>6, <1>7, <1>8 DEF CalmInv

LEMMA AllNext == All /\ [Next]_vars => All'
  BY TypeNext, DeliveryNext, SpendsNext, WholeNext, BooksNext, CalmNext DEF All

LEMMA AllInit == NoFaults /\ Init => All
<1> SUFFICES ASSUME NoFaults, Init PROVE All
  OBVIOUS
<1>1. TypeOK
  BY TypeInit
<1>2. DeliveryInv /\ SpendsInv
  BY DEF Init, DeliveryInv, SpendsInv, Disjoint
<1>3. WholeInv
  BY <1>1, WholeInit
<1>4. BooksInv
  BY BooksInit
<1>5. \A s \in Subs : Honest(s)
  BY DEF Init, Honest
<1>6. Orderly /\ OneWay
  BY DEF Init, Orderly, OneWay, Closing, Sending
<1>7. \A f \in {"crash", "reorg", "evict", "lost"} : budget[f] = 0
  BY DEF Init, NoFaults
<1> QED
  BY <1>1, <1>2, <1>3, <1>4, <1>5, <1>6, <1>7 DEF All, CalmInv, NoFaults

LEMMA Calm == NoFaults => (Spec => []All)
  BY AllInit, AllNext, PTL DEF Spec

\* While nothing crashes, no answer is lost and the chain takes nothing back, the
\* money of a delivered subscription is in a cancel only if the issuer named it and
\* in a refund only once it had settled (handleEscrowCancel, refundAfterDeadline).
THEOREM ReturnedUndelivered == NoFaults => (Spec => []DeliveredNotReturned)
<1>1. All => DeliveredNotReturned
  BY DEF All, CalmInv, OneWay, Lawful, Returned, Late, DeliveredNotReturned
<1> QED
  BY <1>1, Calm, PTL

-----------------------------------------------------------------------------
(* The refinement.                                                           *)

\* Where EscrowPromise says a payment is.
Where(c) ==
    IF c \in Live THEN "escrow"
    ELSE IF c \notin paid THEN "absent"
    ELSE IF \E t \in txs : c \in t.coins /\ t.kind = "release" THEN "issuer"
    ELSE "subscriber"
Delivered == {s \in Subs : tokens[s] > 0}

LEMMA Moves ==
    ASSUME NEW C \in SUBSET Coins, NEW to, \A c \in C : Where(c)' = to, \A c \in Coins \ C : Where(c)' = Where(c)
    PROVE  Promise!Send(C, to)
  BY DEF Promise!Send, Where

\* A step that moves no coin, transfers no token and gives nothing up is a stutter.
LEMMA Stutter ==
    ASSUME UNCHANGED <<clock, paid, txs, tokens, named>>
    PROVE  UNCHANGED Promise!promise
  BY DEF Promise!promise, Live, SpentCoins

\* A transaction the network newly accepts moves its coins and no other.
LEMMA Accepted ==
    ASSUME NEW t \in Txs, t.coins \subseteq Live, txs' = txs \cup {t},
           UNCHANGED <<clock, paid, tokens, named>>,
           NEW to, to = IF t.kind = "release" THEN "issuer" ELSE "subscriber"
    PROVE  /\ \A c \in t.coins : Where(c) = "escrow" /\ Where(c)' = to
           /\ \A c \in Coins \ t.coins : Where(c)' = Where(c)
<1>1. \A c : c \in SpentCoins <=> \E u \in txs : c \in u.coins
  BY DEF SpentCoins
<1>2. \A c : c \in SpentCoins' <=> c \in SpentCoins \/ c \in t.coins
  BY <1>1 DEF SpentCoins
<1>3. ASSUME NEW c \in t.coins PROVE Where(c) = "escrow" /\ Where(c)' = to
  <2>1. c \in paid /\ c \in Live /\ \A u \in txs : c \notin u.coins
    BY <1>1 DEF Live
  <2>2. c \notin Live' /\ c \in paid'
    BY <1>2, <2>1 DEF Live
  <2>3. (\E u \in txs' : c \in u.coins /\ u.kind = "release") <=> t.kind = "release"
    BY <2>1
  <2> QED
    BY <2>1, <2>2, <2>3 DEF Where
<1>4. ASSUME NEW c \in Coins \ t.coins PROVE Where(c)' = Where(c)
  <2>1. c \in Live' <=> c \in Live
    BY <1>2 DEF Live
  <2>2. (\E u \in txs' : c \in u.coins /\ u.kind = "release") <=> \E u \in txs : c \in u.coins /\ u.kind = "release"
    OBVIOUS
  <2> QED
    BY <2>1, <2>2 DEF Where
<1> QED
  BY <1>3, <1>4

\* A deposit is a payment into escrow.
LEMMA RefinesPayIn ==
    ASSUME All, NEW c \in Coins, Deposit(c)
    PROVE  Promise!PayIn(c)
<1>1. c \notin paid /\ paid' = paid \cup {c} /\ UNCHANGED <<clock, txs, tokens, named>>
  BY DEF Deposit, policy, rows
<1>2. \A d : d \in SpentCoins <=> \E u \in txs : d \in u.coins
  BY DEF SpentCoins
<1>3. c \notin SpentCoins
  BY <1>1, <1>2 DEF All, CalmInv, OneWay
<1>4. SpentCoins' = SpentCoins
  BY <1>1 DEF SpentCoins
<1>5. Where(c) = "absent" /\ Where(c)' = "escrow"
  BY <1>1, <1>3, <1>4 DEF Where, Live
<1>6. \A d \in Coins \ {c} : Where(d)' = Where(d)
  BY <1>1, <1>4 DEF Where, Live
<1> QED
  BY <1>1, <1>5, <1>6 DEF Promise!PayIn, Promise!Send, Where

\* So is a return that anyone makes after the deadline.
LEMMA RefinesOutside ==
    ASSUME All, NEW c \in Coins, OutsideReturn(c)
    PROVE  \E C \in SUBSET Coins : Promise!Return(C)
<1> DEFINE out == [kind |-> "outside", coins |-> {c}, rate |-> 0]
<1>1. clock = 3 /\ c \in Live /\ txs' = txs \cup {out} /\ UNCHANGED <<clock, paid, tokens, named>>
  BY DEF OutsideReturn, All, CalmInv, TypeOK, policy, rows
<1>2. out \in Txs /\ out.coins = {c} /\ out.kind # "release"
  BY DEF Txs
<1>3. /\ \A d \in {c} : Where(d) = "escrow" /\ Where(d)' = "subscriber"
      /\ \A d \in Coins \ {c} : Where(d)' = Where(d)
  <2> HIDE DEF out
  <2> QED
    BY <1>1, <1>2, Accepted
<1>4. {c} \in SUBSET Coins /\ Promise!Send({c}, "subscriber")
  BY <1>3, Moves
<1>5. Promise!Return({c})
  BY <1>1, <1>3, <1>4 DEF Promise!Return, Where
<1> QED
  BY <1>4, <1>5

\* The node's acceptance of a release is the raise, that of a cancel or refund a return.
LEMMA RefinesSend ==
    ASSUME All, SendAccepted \/ SendUnanswered
    PROVE  \/ UNCHANGED Promise!promise
           \/ \E C \in SUBSET Coins : Promise!Release(C) \/ Promise!Return(C)
<1>1. /\ pc = "send" /\ UNCHANGED <<clock, paid, tokens, named>>
      /\ txs' = txs \/ (cur.coins \subseteq Live /\ txs' = txs \cup {cur})
  BY DEF SendAccepted, SendUnanswered, policy, rows
<1>2. CASE txs' = txs
  BY <1>1, <1>2, Stutter
<1>3. ASSUME cur.coins \subseteq Live, txs' = txs \cup {cur}
      PROVE  \E C \in SUBSET Coins : Promise!Release(C) \/ Promise!Return(C)
  <2>1. cur \in Txs /\ cur.kind \in Kinds /\ cur.coins \in SUBSET Coins /\ Lawful(cur)
        /\ (cur.kind = "release" => clock >= 1)
    BY <1>1 DEF All, TypeOK, BooksInv, CalmInv, OneWay, Sending, Txs
  <2> DEFINE to == IF cur.kind = "release" THEN "issuer" ELSE "subscriber"
  <2>2. /\ \A c \in cur.coins : Where(c) = "escrow" /\ Where(c)' = to
        /\ \A c \in Coins \ cur.coins : Where(c)' = Where(c)
    BY <1>1, <1>3, <2>1, Accepted
  <2> PICK C \in SUBSET Coins : C = cur.coins
    BY <2>1
  <2>3. \A c \in cur.coins : Owner[c] \in Subs
    BY <2>1, EscrowAssumption DEF EscrowAssumption
  <2>4. CASE cur.kind = "release"
    <3>1. \A c \in cur.coins : Owner[c] \in Delivered
      BY <2>3, <2>4 DEF Delivered, All, WholeInv, CalmInv, Honest
    <3>2. Promise!Send(C, "issuer")
      BY <2>1, <2>2, <2>4, Moves
    <3>3. Promise!Release(C)
      BY <1>1, <2>1, <2>2, <2>4, <3>1, <3>2 DEF Promise!Release, Where, Delivered
    <3> QED
      BY <3>3
  <2>5. CASE cur.kind # "release"
    <3>1. clock = 3 \/ \A c \in cur.coins : Owner[c] \notin Delivered \/ Owner[c] \in named
      BY <2>1, <2>5 DEF Lawful, Returned, Late, Kinds, Delivered
    <3>2. Promise!Send(C, "subscriber")
      BY <2>1, <2>2, <2>5, Moves
    <3>3. Promise!Return(C)
      BY <1>1, <2>1, <2>2, <3>1, <3>2 DEF Promise!Return, Where, Delivered
    <3> QED
      BY <3>3
  <2> QED
    BY <2>4, <2>5
<1> QED
  BY <1>1, <1>2, <1>3

\* The policy server's transfer is the delivery.
LEMMA RefinesDeliver ==
    ASSUME All, NEW s \in Subs, TransferDone(s)
    PROVE  Promise!Deliver(s)
<1>1. UNCHANGED <<clock, paid, txs, named>> /\ pc = "transfer" /\ who = {s} /\ tokens' = [tokens EXCEPT ![s] = @ + 1]
  BY DEF TransferDone, Transferred, chain, rows
<1>2. clock \in {1, 2} /\ s \in work /\ sub[s] = "in_escrow" /\ st[s] = "delivering" /\ tokens[s] = 0 /\ tokens \in [Subs -> Nat]
  BY <1>1 DEF All, CalmInv, Orderly, Closing, InEscrow, DeliveryInv, TypeOK
<1>3. PICK c \in paid : Owner[c] = s
  BY <1>2 DEF All, CalmInv, Honest
<1>4. c \in Coins /\ c \notin SpentCoins
  BY <1>2, <1>3 DEF All, CalmInv, OneWay, SpentCoins, Closed, TypeOK
<1>5. \E d \in Coins : Owner[d] = s /\ Where(d) = "escrow"
  BY <1>3, <1>4 DEF Where, Live
<1>6. s \notin Delivered /\ Delivered' = Delivered \cup {s}
  BY <1>1, <1>2 DEF Delivered
<1>7. Live' = Live /\ UNCHANGED <<clock, named>> /\ \A d : Where(d)' = Where(d)
  BY <1>1 DEF Live, SpentCoins, Where
<1> QED
  BY <1>1, <1>2, <1>5, <1>6, <1>7 DEF Promise!Deliver, Promise!InEscrow, Where, Delivered

\* The issuer's cancel gives up the delivered subscriptions it names.
LEMMA RefinesCancel ==
    ASSUME All, NEW names \in SUBSET Subs, CancelRequest(names)
    PROVE  \E S \in SUBSET Subs : Promise!GiveUp(S)
<1> DEFINE S == {s \in Subs : Cancellable(s, names) /\ s \in names /\ DeliveredOrDelivering(s)}
<1>1. UNCHANGED <<clock, paid, txs, tokens>> /\ named' = named \cup S
  BY DEF CancelRequest, chain, policy
<1>2. S \subseteq Delivered
  <2> SUFFICES ASSUME NEW s \in S PROVE tokens[s] > 0
    BY DEF Delivered
  <2>1. Honest(s)
    BY DEF All, CalmInv
  <2> QED
    BY <2>1 DEF Cancellable, DeliveredOrDelivering, Honest
<1>3. Promise!GiveUp(S)
  <2>1. \A d : Where(d)' = Where(d)
    BY <1>1 DEF Live, SpentCoins, Where
  <2> HIDE DEF S
  <2> QED
    BY <1>1, <1>2, <2>1 DEF Promise!GiveUp, Where, Delivered
<1> QED
  BY <1>3

LEMMA RefinesAdvance == ASSUME All, Advance PROVE Promise!Advance
<1>1. clock < LastClock /\ clock' = clock + 1 /\ UNCHANGED <<paid, txs, tokens, named>>
  BY DEF Advance, policy, rows
<1>2. clock < 3
  BY <1>1, EscrowAssumption DEF EscrowAssumption, All, TypeOK
<1>3. \A d : Where(d)' = Where(d)
  BY <1>1 DEF Live, SpentCoins, Where
<1> QED
  BY <1>1, <1>2, <1>3 DEF Promise!Advance, Where

\* Every step of the escrow is a step of its promise, or none.
LEMMA Refines == ASSUME All, [Next]_vars PROVE [Promise!Next]_(Promise!promise)
<1> USE DEF chain, policy, rows, job
<1>1. CASE Environment
  <2>1. ASSUME NEW c \in Coins, Deposit(c) PROVE Promise!Next
    BY <2>1, RefinesPayIn DEF Promise!Next
  <2>2. ASSUME NEW c \in Coins, OutsideReturn(c) PROVE Promise!Next
    BY <2>2, RefinesOutside DEF Promise!Next
  <2>3. CASE Advance
    BY <2>3, RefinesAdvance DEF Promise!Next
  <2>4. ASSUME FloorRises \/ \E s \in Subs : Subscribe(s) PROVE UNCHANGED Promise!promise
    BY <2>4, Stutter DEF FloorRises, Subscribe
  <2> QED
    BY <1>1, <2>1, <2>2, <2>3, <2>4, NoFault DEF Environment, All
<1>2. CASE DepositPass
  BY <1>2, Stutter DEF DepositPass, WatchScan, Credit
<1>3. ASSUME NEW s \in Subs, Deliver(s) PROVE [Promise!Next]_(Promise!promise)
  <2>1. CASE TransferDone(s)
    BY <2>1, RefinesDeliver DEF Promise!Next
  <2>2. CASE ~TransferDone(s)
    <3>1. UNCHANGED <<clock, paid, txs, tokens, named>>
      BY <1>3, <2>2, NoFault DEF Deliver, DeliverDecided, DeliverBegin, DeliverResume, TransferRefused,
         TransferFailedWith, DeliverRecord, DeliverStamp, All
    <3> QED
      BY <3>1, Stutter
  <2> QED
    BY <2>1, <2>2
<1>4. ASSUME NEW s \in Subs, Apply(s) PROVE UNCHANGED Promise!promise
  BY <1>4, Stutter DEF Apply
<1>5. CASE SendAccepted \/ SendUnanswered
  BY <1>5, RefinesSend DEF Promise!Next
<1>6. CASE DeliverEnd \/ CloseRelease \/ CloseCancel \/ MarkCancel
  BY <1>6, Stutter DEF DeliverEnd, CloseRelease, CloseCancel, MarkCancel
<1>7. CASE RefundArm \/ SendGone \/ SendRefused \/ MoveToBroadcast \/ ApplyDone
  BY <1>7, Stutter DEF RefundArm, SendGone, SendRefused, MoveToBroadcast, ApplyDone
<1>8. ASSUME NEW names \in SUBSET Subs, CancelRequest(names) PROVE Promise!Next
  BY <1>8, RefinesCancel DEF Promise!Next
<1>9. CASE Close \/ RefundBuild
  BY <1>9, Stutter DEF Close, RefundBuild
<1>10. ASSUME NEW sp \in spends, Sign(sp) \/ SignAgain(sp) \/ Heal(sp) PROVE UNCHANGED Promise!promise
  BY <1>10, Stutter DEF Sign, SignAgain, Heal
<1>11. CASE UNCHANGED vars
  BY <1>11, Stutter DEF vars
<1> QED
  BY <1>1, <1>2, <1>3, <1>4, <1>5, <1>6, <1>7, <1>8, <1>9, <1>10, <1>11
     DEF Next, HolderStep, Issuer, SendAnswered

LEMMA RefinesInit == ASSUME Init PROVE Promise!Init
<1>1. Live = {} /\ paid = {} /\ clock = 0 /\ named = {}
  BY DEF Init, Live
<1>2. \A s \in Subs : tokens[s] = 0
  BY DEF Init
<1> QED
  BY <1>1, <1>2 DEF Promise!Init

\* While nothing crashes, no answer is lost and the chain takes nothing back, every
\* behaviour of the escrow is one EscrowPromise allows: each payment goes one way,
\* to the issuer for tokens already out or back to its subscriber (escrow_close.go).
THEOREM Implements == NoFaults => (Spec => KeepsPromise)
<1>1. Init => Promise!Init
  BY RefinesInit
<1>2. All /\ [Next]_vars => [Promise!Next]_(Promise!promise)
  BY Refines
<1> QED
  BY <1>1, <1>2, Calm, PTL DEF Spec, KeepsPromise, Promise!Spec

-----------------------------------------------------------------------------
(* What a delivery rests on.                                                 *)

\* All that was ever paid to the address of s, spent or not.
Received(s) == {c \in paid : Owner[c] = s}
\* A subscription that is in escrow, or about to be credited, received its price.
WasPaid(s) == s \in seen \/ sub[s] = "in_escrow" => SumOf(Atoms, Received(s)) >= Pay[s]

LEMMA ReceivedSum ==
    ASSUME TypeOK, NEW s \in Subs, NEW R \in SUBSET Received(s)
    PROVE  /\ IsFiniteSet(Received(s)) /\ \A c \in Received(s) : Atoms[c] \in Nat
           /\ SumOf(Atoms, R) \in Nat /\ SumOf(Atoms, Received(s)) \in Nat
           /\ SumOf(Atoms, R) <= SumOf(Atoms, Received(s))
<1>1. IsFiniteSet(Received(s)) /\ \A c \in Received(s) : Atoms[c] \in Nat
  BY EscrowAssumption, FS_Subset DEF EscrowAssumption, Received, TypeOK
<1> QED
  BY <1>1, SumPart, SumNat

\* Only a transfer moves tokens.
LEMMA TokensMove ==
    ASSUME TypeOK, CalmInv, [Next]_vars, NEW x \in Subs, tokens'[x] > tokens[x]
    PROVE  TransferDone(x)
<1> USE DEF chain, policy, rows, job
<1>0. tokens[x] \in Nat
  BY DEF TypeOK
<1>1. ASSUME UNCHANGED tokens PROVE FALSE
  BY <1>0, <1>1
<1>2. ~Environment /\ ~DepositPass /\ ~UNCHANGED vars
  BY <1>1, NoFault DEF Environment, Subscribe, Deposit, OutsideReturn, Advance, FloorRises, DepositPass, WatchScan,
     Credit, vars
<1>3. ~Issuer /\ ~RefundBuild /\ ~(\E sp \in spends : Heal(sp))
  BY <1>1 DEF Issuer, Close, CancelRequest, Sign, SignAgain, RefundBuild, Heal
<1>4. ~DeliverEnd /\ ~CloseRelease /\ ~CloseCancel /\ ~MarkCancel
  BY <1>1 DEF DeliverEnd, CloseRelease, CloseCancel, MarkCancel
<1>5. ~RefundArm /\ ~SendAnswered /\ ~SendUnanswered /\ ~MoveToBroadcast /\ ~ApplyDone
  BY <1>1 DEF RefundArm, SendAnswered, SendAccepted, SendGone, SendRefused, SendUnanswered, MoveToBroadcast, ApplyDone
<1>6. PICK s \in Subs : Deliver(s) \/ Apply(s)
  BY <1>2, <1>3, <1>4, <1>5 DEF Next, HolderStep
<1>7. TransferDone(s)
  BY <1>1, <1>6, NoFault DEF Deliver, DeliverDecided, DeliverBegin, DeliverResume, TransferRefused, DeliverRecord,
     DeliverStamp, Apply
<1>8. s = x
  BY <1>0, <1>7 DEF TransferDone, Transferred, TypeOK
<1> QED
  BY <1>7, <1>8

\* A subscription gets into escrow by the deposit pass only.
LEMMA Credited ==
    ASSUME All, [Next]_vars, NEW x \in Subs
    PROVE  /\ x \in seen' => x \in seen \/ WatchScan
           /\ sub'[x] = "in_escrow" => sub[x] = "in_escrow" \/ x \in seen
<1> USE DEF chain, policy, rows, job
<1>0. sub \in [Subs -> SubStates]
  BY DEF All, TypeOK
<1>1. CASE Environment
  BY <1>0, <1>1 DEF Environment, Subscribe, Deposit, OutsideReturn, DepositReorg, Evict, Advance, FloorRises, Crash
<1>2. CASE DepositPass
  BY <1>0, <1>2 DEF DepositPass, WatchScan, Credit
<1>3. ASSUME NEW s \in Subs, Deliver(s) PROVE UNCHANGED <<seen, sub>>
  BY <1>3 DEF Deliver, DeliverDecided, DeliverBegin, DeliverResume, TransferDone, TransferRefused, TransferLost,
     DeliverRecord, DeliverStamp
<1>4. ASSUME NEW s \in Subs, Apply(s) PROVE UNCHANGED seen /\ (sub'[x] = "in_escrow" => sub[x] = "in_escrow")
  BY <1>0, <1>4 DEF Apply, Outcome
<1>5. CASE DeliverEnd \/ CloseRelease \/ CloseCancel \/ MarkCancel
  BY <1>5 DEF DeliverEnd, CloseRelease, CloseCancel, MarkCancel
<1>6. CASE RefundArm \/ SendAnswered \/ SendUnanswered \/ MoveToBroadcast \/ ApplyDone
  BY <1>6 DEF RefundArm, SendAnswered, SendAccepted, SendGone, SendRefused, SendUnanswered, MoveToBroadcast, ApplyDone
<1>7. CASE Issuer \/ RefundBuild \/ \E sp \in spends : Heal(sp)
  BY <1>7 DEF Issuer, Close, CancelRequest, Sign, SignAgain, RefundBuild, Heal
<1>8. CASE UNCHANGED vars
  BY <1>8 DEF vars
<1> QED
  BY <1>1, <1>2, <1>3, <1>4, <1>5, <1>6, <1>7, <1>8 DEF Next, HolderStep

LEMMA WasPaidNext ==
    ASSUME All, \A s \in Subs : WasPaid(s), [Next]_vars, TypeOK'
    PROVE  \A s \in Subs : WasPaid(s)'
<1> SUFFICES ASSUME NEW x \in Subs, x \in seen' \/ sub'[x] = "in_escrow"
             PROVE  SumOf(Atoms, Received(x)') >= Pay[x]
  BY DEF WasPaid
<1>1. Received(x) \in SUBSET Received(x)'
  BY Monotone DEF Received
<1>2. SumOf(Atoms, Received(x)) <= SumOf(Atoms, Received(x)')
  <2> DEFINE more == Received(x)'
  <2>1. IsFiniteSet(more) /\ \A c \in more : Atoms[c] \in Nat
    BY EscrowAssumption, FS_Subset DEF EscrowAssumption, Received, TypeOK
  <2> HIDE DEF more
  <2> QED
    BY <1>1, <2>1, SumPart DEF more
<1>3. /\ SumOf(Atoms, Received(x)) \in Nat /\ SumOf(Atoms, Received(x)') \in Nat /\ Pay[x] \in Nat
  <2> DEFINE more == Received(x)'
  <2>1. IsFiniteSet(more) /\ \A c \in more : Atoms[c] \in Nat
    BY EscrowAssumption, FS_Subset DEF EscrowAssumption, Received, TypeOK
  <2>2. SumOf(Atoms, more) \in Nat
    <3> HIDE DEF more
    <3> QED
      BY <2>1, SumNat
  <2> QED
    BY <2>2, ReceivedSum, EscrowAssumption DEF EscrowAssumption, All
<1>4. CASE x \in seen \/ sub[x] = "in_escrow"
  BY <1>2, <1>3, <1>4 DEF WasPaid
<1>5. CASE WatchScan /\ x \in seen'
  <2>1. PaidBy(x) >= Pay[x] /\ PaidBy(x) = SumOf(Atoms, CoinsOf({x}))
    BY <1>5 DEF WatchScan, PaidBy, SumOf
  <2>2. CoinsOf({x}) \in SUBSET Received(x)
    BY DEF CoinsOf, Live, Received
  <2>3. SumOf(Atoms, CoinsOf({x})) \in Nat /\ SumOf(Atoms, CoinsOf({x})) <= SumOf(Atoms, Received(x))
    BY <2>2, ReceivedSum DEF All
  <2> QED
    BY <1>2, <1>3, <2>1, <2>3
<1> QED
  BY <1>4, <1>5, Credited

\* While nothing crashes and the chain takes nothing back, tokens leave the escrow enclave only for
\* a subscription whose whole price is at its escrow address at that moment: paid in when the deposit
\* pass saw it, and not spent since (moneywatch.go: watchEscrowDeposits; escrow_close.go: closeCovenant).
THEOREM DeliveriesWerePaid == NoFaults => (Spec => DeliveredWasPaid)
<1> SUFFICES ASSUME NoFaults PROVE Spec => DeliveredWasPaid
  OBVIOUS
<1> DEFINE Paid == \A s \in Subs : WasPaid(s)
<1>1. Init => Paid
  BY DEF Init, WasPaid
<1>2. All /\ Paid /\ [Next]_vars /\ All' => Paid'
  BY WasPaidNext DEF All
<1>3. ASSUME All, Paid, [Next]_vars PROVE [\A s \in Subs : tokens'[s] > tokens[s] => PaidBy(s) >= Pay[s]]_vars
  <2> SUFFICES ASSUME NEW s \in Subs, tokens'[s] > tokens[s] PROVE PaidBy(s) >= Pay[s]
    OBVIOUS
  <2>1. TransferDone(s)
    BY <1>3, TokensMove DEF All
  <2>2. pc = "transfer" /\ who = {s}
    BY <2>1 DEF TransferDone
  <2>3. st[s] = "delivering" /\ clock \in {1, 2} /\ sub[s] = "in_escrow"
    BY <1>3, <2>2 DEF All, DeliveryInv, CalmInv, Orderly, Closing, InEscrow
  <2>4. CoinsOf({s}) = Received(s)
    <3>1. \A t \in txs : \A c \in t.coins : Owner[c] # s
      BY <1>3, <2>3 DEF All, CalmInv, OneWay, Closed
    <3> QED
      BY <3>1 DEF CoinsOf, Live, SpentCoins, Received
  <2>5. PaidBy(s) = SumOf(Atoms, CoinsOf({s}))
    BY DEF PaidBy, SumOf
  <2> QED
    BY <1>3, <2>3, <2>4, <2>5 DEF WasPaid
<1>4. Spec => []All
  BY Calm
<1> QED
  BY <1>1, <1>2, <1>3, <1>4, PTL DEF Spec, DeliveredWasPaid
=============================================================================
