------------------------- MODULE SettleCloseProofs -------------------------
(* What holds of the close on the other rails for every value of its        *)
(* constants: any number of subscriptions, investors who hold several, any  *)
(* prices, restarts and lost answers.                                       *)
EXTENDS SettleClose, Sums

\* Every question about an earlier call was answered so far.
Heard == budget.unread = MaxUnread

\* The step the close has reached with s, and what was paid out for it.
Step(s) == IF First(s) THEN pc ELSE "settle"
Pays(s) == {p \in sends : p.sub = s}
Out(s)  == Sent(s, "atomic") \/ Sent(s, "release")

Typed ==
    /\ tokens \in [Subs -> Nat] /\ balance \in [Investors -> Nat]
    /\ sub \in [Subs -> Rows \cup {"created", "in_escrow"}]
    /\ row \in [Subs -> Rows] /\ dtx \in [Subs -> BOOLEAN] /\ rtx \in [Subs -> BOOLEAN]
    /\ pc \in Steps /\ todo \subseteq Subs /\ was \in Rows /\ halfway \subseteq Subs
    /\ budget \in [{"crash", "lost", "unread"} -> Nat] /\ budget.unread <= MaxUnread

\* Whatever is answered: tokens that left show in the balance, and the columns follow the steps.
Kept(s) ==
    /\ tokens[s] > 0 => Holds(s)
    /\ rtx[s] => dtx[s]
    /\ row[s] = "settling" => ~dtx[s]
    /\ Step(s) \in {"pay", "send", "sent", "finish", "book"} => dtx[s]
    /\ Step(s) \in {"atomic", "torn", "complete", "landed"} => ~dtx[s]
    /\ Step(s) = "atomic" => row[s] = was
    /\ Step(s) \in {"atomic", "torn"} => row[s] \in {"pending", "settling"}
    /\ Step(s) \in {"complete", "landed"} => row[s] = "settling"
    /\ Step(s) \in {"transfer", "record", "undelivered"} => row[s] = "delivering"
    /\ Step(s) = "book" => row[s] \in {"delivered", "released", "settled"}
    /\ Step(s) \in {"send", "sent"} => row[s] = "releasing"
    /\ Step(s) \in {"repay", "repaid"} => row[s] = "refunding"

\* While every question is answered, tokens that left leave a row that no close begins again.
Once(s) ==
    /\ tokens[s] <= 1
    /\ tokens[s] > 0 => dtx[s] \/ row[s] \in Decided \cup {"delivering", "settling"}
    /\ Step(s) \in {"complete", "transfer", "refund", "repay", "repaid", "returned"} => tokens[s] = 0
    /\ Step(s) = "deliver" /\ tokens[s] > 0 => was = "delivering"
    /\ Step(s) = "atomic" /\ tokens[s] > 0 => was = "settling"

\* And money that left leaves a row by which the next close finds it.
OneWay(s) ==
    /\ \A p, q \in Pays(s) : p = q
    /\ Sent(s, "atomic") => tokens[s] > 0
    /\ Sent(s, "refund") => tokens[s] = 0
    /\ Pays(s) # {} => \/ row[s] \in Decided \/ rtx[s] \/ row[s] = "refunding"
                       \/ row[s] = "settling" /\ Sent(s, "atomic")
                       \/ row[s] = "releasing" /\ Sent(s, "release") /\ dtx[s]
    /\ row[s] = "refunding" => Step(s) \in {"repay", "repaid", "returned"}
    /\ Step(s) \notin {"idle", "settle"} => was # "refunding"
    /\ Step(s) \in {"complete", "deliver", "transfer", "undelivered", "record", "send", "refund", "repay"}
          => Pays(s) = {}
    /\ Step(s) = "book" /\ row[s] = "delivered" => Pays(s) = {}
    /\ Step(s) = "atomic" /\ Pays(s) # {} => was = "settling" /\ Sent(s, "atomic")
    /\ Step(s) = "torn" /\ Pays(s) # {} => Sent(s, "atomic")
    /\ Step(s) = "pay" /\ Pays(s) # {} => was = "releasing" /\ Sent(s, "release")

\* With investors apart, the columns and the books say what was done.
Booked(s) ==
    /\ Holds(s) => tokens[s] > 0
    /\ tokens[s] > 0 /\ row[s] \in {"none", "pending", "settling"} => Sent(s, "atomic")
    /\ row[s] \in {"released", "settled"} \/ rtx[s] \/ sub[s] = "settled" => Out(s)
    /\ Step(s) = "landed" => Sent(s, "atomic")
    /\ Step(s) = "finish" => Out(s)
    /\ Step(s) = "sent" => Sent(s, "release")
    /\ Step(s) = "repaid" => Sent(s, "refund")
    /\ [sub |-> s, kind |-> "release"] \in ledger => Out(s)
    /\ [sub |-> s, kind |-> "refund"] \in ledger => Sent(s, "refund")

Apart == \A x, y \in Subs : Investor[x] = Investor[y] => x = y

\* All of it, each part for as long as its condition holds.
Sound(s) ==
    /\ Kept(s)
    /\ Heard => Once(s)
    /\ Heard /\ s \notin halfway => OneWay(s)
    /\ Apart => Booked(s)

CloseInv == \A s \in Subs : Sound(s)

-----------------------------------------------------------------------------
(* Where the close is.                                                       *)

\* The close is at one subscription; with the others nothing is under way.
LEMMA AtOne ==
    ASSUME SettleAssumption, NEW s \in Subs, NEW step, At(s, step), todo \subseteq Subs
    PROVE  Step(s) = step /\ \A x \in Subs \ {s} : Step(x) = "settle"
<1>1. ASSUME NEW x \in Subs, First(x) PROVE x = s
  <2>1. Order[x] <= Order[s] /\ Order[s] <= Order[x] /\ Order[x] \in Nat /\ Order[s] \in Nat
    BY <1>1 DEF At, First, SettleAssumption
  <2> QED
    BY <2>1 DEF SettleAssumption
<1> QED
  BY <1>1 DEF At, Step

LEMMA GoTo ==
    ASSUME SettleAssumption, NEW s \in Subs, NEW step, First(s), Go(step), todo \subseteq Subs
    PROVE  Step(s)' = step /\ \A x \in Subs \ {s} : Step(x)' = "settle"
<1>1. ASSUME NEW x \in Subs, First(x) PROVE x = s
  <2>1. Order[x] <= Order[s] /\ Order[s] <= Order[x] /\ Order[x] \in Nat /\ Order[s] \in Nat
    BY <1>1 DEF First, SettleAssumption
  <2> QED
    BY <2>1 DEF SettleAssumption
<1>2. \A x \in Subs : First(x)' = First(x)
  BY DEF Go, First
<1> QED
  BY <1>1, <1>2 DEF Go, Step

LEMMA GoOn == ASSUME NEW s \in Subs, Leave(s) PROVE \A x \in Subs : Step(x)' = "settle"
  BY DEF Leave, Step

-----------------------------------------------------------------------------
(* What a call changes.                                                      *)

LEMMA Moved ==
    ASSUME SettleAssumption, Typed, NEW s \in Subs, Transferred(s)
    PROVE  /\ tokens' \in [Subs -> Nat] /\ balance' \in [Investors -> Nat]
           /\ tokens'[s] = tokens[s] + 1 /\ Holds(s)'
           /\ \A x \in Subs \ {s} : tokens'[x] = tokens[x]
           /\ \A x \in Subs : Holds(x) => Holds(x)'
           /\ Apart => \A x \in Subs \ {s} : Holds(x)' => Holds(x)
<1>1. /\ Atoms \in [Subs -> Nat] /\ Investor \in [Subs -> Investors]
      /\ tokens \in [Subs -> Nat] /\ balance \in [Investors -> Nat]
  BY DEF SettleAssumption, Typed
<1>2. /\ tokens' = [tokens EXCEPT ![s] = @ + 1]
      /\ balance' = [balance EXCEPT ![Investor[s]] = @ + Atoms[s]]
  BY DEF Transferred
<1>3. tokens' \in [Subs -> Nat] /\ tokens'[s] = tokens[s] + 1 /\ \A x \in Subs \ {s} : tokens'[x] = tokens[x]
  BY <1>1, <1>2
<1>4. balance' \in [Investors -> Nat] /\ balance'[Investor[s]] = balance[Investor[s]] + Atoms[s]
  BY <1>1, <1>2
<1>5. \A i \in Investors : balance'[i] >= balance[i] /\ (i # Investor[s] => balance'[i] = balance[i])
  BY <1>1, <1>2
<1>6. \A x \in Subs : Holds(x) => Holds(x)'
  <2> TAKE x \in Subs
  <2>1. balance'[Investor[x]] >= balance[Investor[x]] /\ balance'[Investor[x]] \in Nat /\ balance[Investor[x]] \in Nat
    BY <1>1, <1>4, <1>5
  <2> QED
    BY <2>1, <1>1 DEF Holds
<1>7. Holds(s)'
  <2>1. balance[Investor[s]] \in Nat /\ Atoms[s] \in Nat
    BY <1>1
  <2> QED
    BY <2>1, <1>4 DEF Holds
<1>8. Apart => \A x \in Subs \ {s} : Holds(x)' => Holds(x)
  BY <1>1, <1>5 DEF Apart, Holds
<1> QED
  BY <1>3, <1>4, <1>6, <1>7, <1>8

LEMMA Paid ==
    ASSUME NEW s \in Subs, NEW kind, PayOut(s, kind)
    PROVE  /\ Sent(s, kind)' /\ \A k : k # kind => Sent(s, k)' = Sent(s, k)
           /\ \A x \in Subs \ {s} : Pays(x)' = Pays(x) /\ \A k : Sent(x, k)' = Sent(x, k)
           /\ Pays(s) = {} => \A p, q \in Pays(s)' : p = q
<1> DEFINE new == [sub |-> s, kind |-> kind, amount |-> amount, nth |-> Cardinality(PaidOut(s, {kind})) + 1]
<1>1. sends' = sends \cup {new}
  BY DEF PayOut
<1>2. new.sub = s /\ new.kind = kind
  OBVIOUS
<1> HIDE DEF new
<1>3. Sent(s, kind)' /\ \A k : k # kind => Sent(s, k)' = Sent(s, k)
  BY <1>1, <1>2 DEF Sent
<1>4. \A x \in Subs \ {s} : Pays(x)' = Pays(x)
  BY <1>1, <1>2 DEF Pays
<1>5. \A x \in Subs \ {s} : \A k : Sent(x, k)' = Sent(x, k)
  BY <1>1, <1>2 DEF Sent
<1>6. Pays(s) = {} => \A p, q \in Pays(s)' : p = q
  BY <1>1, <1>2 DEF Pays
<1> QED
  BY <1>3, <1>4, <1>5, <1>6

LEMMA Unpaid ==
    ASSUME UNCHANGED sends
    PROVE  \A x \in Subs : Pays(x)' = Pays(x) /\ \A k : Sent(x, k)' = Sent(x, k)
  BY DEF Pays, Sent

LEMMA Unmoved ==
    ASSUME UNCHANGED <<tokens, balance>>
    PROVE  \A x \in Subs : tokens'[x] = tokens[x] /\ Holds(x)' = Holds(x)
  BY DEF Holds

LEMMA Spends == ASSUME Typed, NEW f \in {"crash", "lost", "unread"}, Inject(f)
                PROVE  /\ budget' \in [{"crash", "lost", "unread"} -> Nat] /\ budget'.unread <= MaxUnread
                       /\ Heard' => Heard /\ f # "unread"
  BY SettleAssumption DEF Typed, Inject, Heard, SettleAssumption

LEMMA Answered ==
    ASSUME Typed, NEW truth \in BOOLEAN, NEW answer \in BOOLEAN, Answer(truth, answer)
    PROVE  /\ budget' \in [{"crash", "lost", "unread"} -> Nat] /\ budget'.unread <= MaxUnread
           /\ answer => truth
           /\ Heard' => Heard /\ answer = truth
<1>1. CASE answer = truth /\ UNCHANGED budget
  BY <1>1 DEF Typed, Heard
<1>2. CASE truth /\ ~answer /\ Inject("unread")
  BY <1>2, Spends
<1> QED
  BY <1>1, <1>2 DEF Answer

-----------------------------------------------------------------------------
(* A step of the close touches one subscription.                             *)

Booking(x) == /\ ([sub |-> x, kind |-> "release"] \in ledger)' <=> [sub |-> x, kind |-> "release"] \in ledger
              /\ ([sub |-> x, kind |-> "refund"] \in ledger)' <=> [sub |-> x, kind |-> "refund"] \in ledger

Aside(x) ==
    /\ row'[x] = row[x] /\ dtx'[x] = dtx[x] /\ rtx'[x] = rtx[x] /\ sub'[x] = sub[x]
    /\ tokens'[x] = tokens[x] /\ (Holds(x) => Holds(x)') /\ (Apart => (Holds(x)' => Holds(x)))
    /\ Pays(x)' = Pays(x) /\ (\A k : Sent(x, k)' = Sent(x, k))
    /\ Booking(x)

LEMMA SettleTyped == ASSUME SettleAssumption, Typed, NEW s \in Subs, Settle(s) PROVE Typed'
<1>1. CASE SettleDecided(s)
  BY <1>1 DEF SettleDecided, Leave, Typed, Steps, world, rows, First
<1>2. CASE SettleResume(s)
  <2>1. was' \in Rows /\ row' \in [Subs -> Rows] /\ pc' \in Steps
    BY <1>2 DEF SettleResume, Row, Rows, Go, Typed, Steps
  <2> QED
    BY <1>2, <2>1 DEF SettleResume, Go, Typed, world
<1>3. CASE AtomicOpen(s)
  <2>1. PICK landed \in BOOLEAN :
            /\ Answer(was = "settling" /\ Holds(s), landed)
            /\ IF landed THEN AtomicSettled(s) /\ Go("mark")
               ELSE /\ \/ Row(s, "failed") /\ Leave(s)
                       \/ was = "settling" /\ Leave(s) /\ UNCHANGED row
                       \/ was # "settling" /\ Go("deliver") /\ UNCHANGED row
                       \/ Go("torn") /\ UNCHANGED row
                       \/ Row(s, "settling") /\ Go("complete")
                    /\ UNCHANGED <<dtx, rtx>>
    BY <1>3 DEF AtomicOpen
  <2>2. budget' \in [{"crash", "lost", "unread"} -> Nat] /\ budget'.unread <= MaxUnread
    BY <2>1, Answered
  <2> QED
    BY <1>3, <2>1, <2>2 DEF AtomicOpen, AtomicSettled, Row, Leave, Go, Typed, Steps, Rows, world
<1>4. CASE AtomicComplete(s)
  <2>1. budget' \in [{"crash", "lost", "unread"} -> Nat] /\ budget'.unread <= MaxUnread
    BY <1>4, Spends DEF AtomicComplete, Typed
  <2>2. tokens' \in [Subs -> Nat] /\ balance' \in [Investors -> Nat]
    BY <1>4, Moved DEF AtomicComplete, Typed, world
  <2> QED
    BY <1>4, <2>1, <2>2 DEF AtomicComplete, Go, Typed, Steps, rows
<1>5. CASE AtomicRecord(s)
  BY <1>5 DEF AtomicRecord, AtomicSettled, Row, Go, Typed, Steps, Rows, world
<1>6. CASE AtomicTorn(s)
  <2>1. PICK landed \in BOOLEAN :
            /\ Answer(Holds(s), landed)
            /\ IF landed THEN AtomicSettled(s) /\ Go("mark") ELSE Go("refund") /\ UNCHANGED <<dtx, rtx, row>>
    BY <1>6 DEF AtomicTorn
  <2>2. budget' \in [{"crash", "lost", "unread"} -> Nat] /\ budget'.unread <= MaxUnread
    <3>1. Holds(s) \in BOOLEAN
      BY DEF Holds
    <3> QED
      BY <2>1, <3>1, Answered
  <2> QED
    BY <1>6, <2>1, <2>2 DEF AtomicTorn, AtomicSettled, Row, Go, Typed, Steps, Rows, world
<1>7. CASE Deliver(s)
  <2>1. PICK landed \in BOOLEAN :
            /\ Answer(was = "delivering" /\ Holds(s), landed)
            /\ IF landed THEN Delivered(s) /\ Go("pay") ELSE Row(s, "delivering") /\ Go("transfer") /\ UNCHANGED dtx
    BY <1>7 DEF Deliver
  <2>2. budget' \in [{"crash", "lost", "unread"} -> Nat] /\ budget'.unread <= MaxUnread
    BY <2>1, Answered
  <2> QED
    BY <1>7, <2>1, <2>2 DEF Deliver, Delivered, Row, Go, Typed, Steps, Rows, world
<1>8. CASE Transfer(s)
  <2>1. budget' \in [{"crash", "lost", "unread"} -> Nat] /\ budget'.unread <= MaxUnread
    BY <1>8, Spends DEF Transfer, Typed
  <2>2. tokens' \in [Subs -> Nat] /\ balance' \in [Investors -> Nat]
    BY <1>8, Moved DEF Transfer, Typed
  <2> QED
    BY <1>8, <2>1, <2>2 DEF Transfer, Go, Typed, Steps, rows
<1>9. CASE DeliverRecord(s)
  BY <1>9 DEF DeliverRecord, Delivered, Row, Go, Typed, Steps, Rows, world
<1>10. CASE Undelivered(s)
  <2>1. PICK landed \in BOOLEAN :
            /\ Answer(Holds(s), landed)
            /\ IF landed THEN Delivered(s) /\ Go("pay") ELSE Go("refund") /\ UNCHANGED <<dtx, row>>
    BY <1>10 DEF Undelivered
  <2>2. budget' \in [{"crash", "lost", "unread"} -> Nat] /\ budget'.unread <= MaxUnread
    <3>1. Holds(s) \in BOOLEAN
      BY DEF Holds
    <3> QED
      BY <2>1, <3>1, Answered
  <2> QED
    BY <1>10, <2>1, <2>2 DEF Undelivered, Delivered, Row, Go, Typed, Steps, Rows, world
<1>11. CASE Book(s)
  BY <1>11 DEF Book, Go, Typed, Steps, world
<1>12. CASE Pay(s)
  <2>1. PICK found \in BOOLEAN :
            /\ Answer(was = "releasing" /\ Sent(s, "release"), found)
            /\ IF found THEN rtx' = [rtx EXCEPT ![s] = TRUE] /\ Row(s, "released") /\ Go("finish")
                        ELSE Row(s, "releasing") /\ Go("send") /\ UNCHANGED rtx
    BY <1>12 DEF Pay
  <2>2. budget' \in [{"crash", "lost", "unread"} -> Nat] /\ budget'.unread <= MaxUnread
    BY <2>1, Answered
  <2> QED
    BY <1>12, <2>1, <2>2 DEF Pay, Row, Go, Typed, Steps, Rows, world
<1>13. CASE PaySend(s)
  <2>1. budget' \in [{"crash", "lost", "unread"} -> Nat] /\ budget'.unread <= MaxUnread
    BY <1>13, Spends DEF PaySend, Typed
  <2> QED
    BY <1>13, <2>1 DEF PaySend, Row, Go, Leave, Typed, Steps, Rows
<1>14. CASE PayRecord(s)
  BY <1>14 DEF PayRecord, Row, Go, Typed, Steps, Rows, world
<1>15. CASE Finish(s)
  BY <1>15 DEF Finish, Row, Go, Typed, Steps, Rows, world
<1>16. CASE Mark(s)
  BY <1>16 DEF Mark, Leave, Typed, Steps, world
<1>17. CASE Refund(s)
  <2>1. PICK found \in BOOLEAN :
            /\ Answer(was = "refunding" /\ Sent(s, "refund"), found)
            /\ IF found THEN Go("returned") /\ UNCHANGED row
                        ELSE Row(s, "refunding") /\ Go(IF Net(s) > 0 THEN "repay" ELSE "returned")
    BY <1>17 DEF Refund
  <2>2. budget' \in [{"crash", "lost", "unread"} -> Nat] /\ budget'.unread <= MaxUnread
    BY <2>1, Answered
  <2> QED
    BY <1>17, <2>1, <2>2 DEF Refund, Row, Go, Typed, Steps, Rows, world
<1>18. CASE RefundSend(s)
  <2>1. budget' \in [{"crash", "lost", "unread"} -> Nat] /\ budget'.unread <= MaxUnread
    BY <1>18, Spends DEF RefundSend, Typed
  <2> QED
    BY <1>18, <2>1 DEF RefundSend, Row, Go, Leave, Typed, Steps, Rows
<1>19. CASE RefundBook(s)
  BY <1>19 DEF RefundBook, Go, Typed, Steps, world
<1>20. CASE RefundRecord(s)
  BY <1>20 DEF RefundRecord, Row, Go, Typed, Steps, Rows, world
<1> QED
  BY <1>1, <1>2, <1>3, <1>4, <1>5, <1>6, <1>7, <1>8, <1>9, <1>10, <1>11, <1>12, <1>13, <1>14, <1>15,
     <1>16, <1>17, <1>18, <1>19, <1>20 DEF Settle

\* What a close learns from a question, and what it does on either answer.
LEMMA Opened ==
    ASSUME Typed, NEW s \in Subs, AtomicOpen(s)
    PROVE  /\ Heard' => Heard
           /\ \/ was = "settling" /\ Holds(s) /\ AtomicSettled(s) /\ Go("mark")
              \/ /\ Heard' => ~(was = "settling" /\ Holds(s))
                 /\ UNCHANGED <<dtx, rtx>>
                 /\ \/ Row(s, "failed") /\ Leave(s)
                    \/ was = "settling" /\ Leave(s) /\ UNCHANGED row
                    \/ was # "settling" /\ Go("deliver") /\ UNCHANGED row
                    \/ Go("torn") /\ UNCHANGED row
                    \/ Row(s, "settling") /\ Go("complete")
<1>1. PICK landed \in BOOLEAN :
          /\ Answer(was = "settling" /\ Holds(s), landed)
          /\ IF landed THEN AtomicSettled(s) /\ Go("mark")
             ELSE /\ \/ Row(s, "failed") /\ Leave(s)
                     \/ was = "settling" /\ Leave(s) /\ UNCHANGED row
                     \/ was # "settling" /\ Go("deliver") /\ UNCHANGED row
                     \/ Go("torn") /\ UNCHANGED row
                     \/ Row(s, "settling") /\ Go("complete")
                  /\ UNCHANGED <<dtx, rtx>>
  BY DEF AtomicOpen
<1>2. (Heard' => Heard /\ landed = (was = "settling" /\ Holds(s))) /\ (landed => was = "settling" /\ Holds(s))
  BY <1>1, Answered
<1> QED
  BY <1>1, <1>2

LEMMA Torn ==
    ASSUME Typed, NEW s \in Subs, AtomicTorn(s)
    PROVE  /\ Heard' => Heard
           /\ \/ Holds(s) /\ AtomicSettled(s) /\ Go("mark")
              \/ (Heard' => ~Holds(s)) /\ Go("refund") /\ UNCHANGED <<dtx, rtx, row>>
<1>1. PICK landed \in BOOLEAN :
          /\ Answer(Holds(s), landed)
          /\ IF landed THEN AtomicSettled(s) /\ Go("mark") ELSE Go("refund") /\ UNCHANGED <<dtx, rtx, row>>
  BY DEF AtomicTorn
<1>2. Holds(s) \in BOOLEAN
  BY DEF Holds
<1>3. (Heard' => Heard /\ landed = Holds(s)) /\ (landed => Holds(s))
  BY <1>1, <1>2, Answered
<1> QED
  BY <1>1, <1>3

LEMMA Looked ==
    ASSUME Typed, NEW s \in Subs, Deliver(s)
    PROVE  /\ Heard' => Heard
           /\ \/ was = "delivering" /\ Holds(s) /\ Delivered(s) /\ Go("pay")
              \/ /\ Heard' => ~(was = "delivering" /\ Holds(s))
                 /\ Row(s, "delivering") /\ Go("transfer") /\ UNCHANGED dtx
<1>1. PICK landed \in BOOLEAN :
          /\ Answer(was = "delivering" /\ Holds(s), landed)
          /\ IF landed THEN Delivered(s) /\ Go("pay") ELSE Row(s, "delivering") /\ Go("transfer") /\ UNCHANGED dtx
  BY DEF Deliver
<1>2. (Heard' => Heard /\ landed = (was = "delivering" /\ Holds(s))) /\ (landed => was = "delivering" /\ Holds(s))
  BY <1>1, Answered
<1> QED
  BY <1>1, <1>2

LEMMA LookedAgain ==
    ASSUME Typed, NEW s \in Subs, Undelivered(s)
    PROVE  /\ Heard' => Heard
           /\ \/ Holds(s) /\ Delivered(s) /\ Go("pay")
              \/ (Heard' => ~Holds(s)) /\ Go("refund") /\ UNCHANGED <<dtx, row>>
<1>1. PICK landed \in BOOLEAN :
          /\ Answer(Holds(s), landed)
          /\ IF landed THEN Delivered(s) /\ Go("pay") ELSE Go("refund") /\ UNCHANGED <<dtx, row>>
  BY DEF Undelivered
<1>2. Holds(s) \in BOOLEAN
  BY DEF Holds
<1>3. (Heard' => Heard /\ landed = Holds(s)) /\ (landed => Holds(s))
  BY <1>1, <1>2, Answered
<1> QED
  BY <1>1, <1>3

LEMMA Found ==
    ASSUME Typed, NEW s \in Subs, Pay(s)
    PROVE  /\ Heard' => Heard
           /\ \/ /\ was = "releasing" /\ Sent(s, "release")
                 /\ rtx' = [rtx EXCEPT ![s] = TRUE] /\ Row(s, "released") /\ Go("finish")
              \/ /\ Heard' => ~(was = "releasing" /\ Sent(s, "release"))
                 /\ Row(s, "releasing") /\ Go("send") /\ UNCHANGED rtx
<1>1. PICK found \in BOOLEAN :
          /\ Answer(was = "releasing" /\ Sent(s, "release"), found)
          /\ IF found THEN rtx' = [rtx EXCEPT ![s] = TRUE] /\ Row(s, "released") /\ Go("finish")
                      ELSE Row(s, "releasing") /\ Go("send") /\ UNCHANGED rtx
  BY DEF Pay
<1>2. /\ Heard' => Heard /\ found = (was = "releasing" /\ Sent(s, "release"))
      /\ found => was = "releasing" /\ Sent(s, "release")
  BY <1>1, Answered
<1> QED
  BY <1>1, <1>2

LEMMA FoundRefund ==
    ASSUME Typed, NEW s \in Subs, Refund(s)
    PROVE  /\ Heard' => Heard
           /\ \/ /\ was = "refunding" /\ Sent(s, "refund") /\ ledger' = ledger \cup {[sub |-> s, kind |-> "refund"]}
                 /\ Go("returned") /\ UNCHANGED row
              \/ /\ Row(s, "refunding") /\ UNCHANGED ledger
                 /\ Go("repay") \/ Go("returned")
<1>1. PICK found \in BOOLEAN :
          /\ Answer(was = "refunding" /\ Sent(s, "refund"), found)
          /\ IF found THEN ledger' = ledger \cup {[sub |-> s, kind |-> "refund"]} /\ Go("returned") /\ UNCHANGED row
                      ELSE Row(s, "refunding") /\ UNCHANGED ledger /\ Go(IF Net(s) > 0 THEN "repay" ELSE "returned")
  BY DEF Refund
<1>2. (Heard' => Heard) /\ (found => was = "refunding" /\ Sent(s, "refund"))
  BY <1>1, Answered
<1>3. Go(IF Net(s) > 0 THEN "repay" ELSE "returned") => Go("repay") \/ Go("returned")
  BY DEF Go
<1> QED
  BY <1>1, <1>2, <1>3

LEMMA Elsewhere ==
    ASSUME SettleAssumption, Typed, NEW s \in Subs, Settle(s)
    PROVE  /\ \A x \in Subs \ {s} : Aside(x) /\ Step(x) = "settle" /\ Step(x)' = "settle"
           /\ halfway' = halfway /\ (Heard' => Heard)
<1>1. \A x \in Subs \ {s} : Step(x) = "settle"
  <2>1. \E step \in Steps : At(s, step)
    BY DEF Settle, SettleDecided, SettleResume, AtomicOpen, AtomicComplete, AtomicRecord, AtomicTorn, Deliver,
           Transfer, DeliverRecord, Undelivered, Book, Pay, PaySend, PayRecord, Finish, Mark, Refund,
           RefundSend, RefundBook, RefundRecord, Steps, At
  <2> QED
    BY <2>1, AtOne DEF Typed
<1>2. \A x \in Subs \ {s} : Step(x)' = "settle"
  <2>1. First(s) /\ (Leave(s) \/ \E step : Go(step))
    BY Opened, Torn, Looked, LookedAgain, Found, FoundRefund
       DEF Settle, SettleDecided, SettleResume, AtomicOpen, AtomicComplete, AtomicRecord, AtomicTorn, Deliver,
           Transfer, DeliverRecord, Undelivered, Book, Pay, PaySend, PayRecord, Finish, Mark, Refund,
           RefundSend, RefundBook, RefundRecord, At
  <2> QED
    BY <2>1, GoTo, GoOn DEF Typed
<1>3. halfway' = halfway
  BY DEF Settle, SettleDecided, SettleResume, AtomicOpen, AtomicComplete, AtomicRecord, AtomicTorn, Deliver,
         Transfer, DeliverRecord, Undelivered, Book, Pay, PaySend, PayRecord, Finish, Mark, Refund,
         RefundSend, RefundBook, RefundRecord
<1>4. Heard' => Heard
  <2>1. UNCHANGED budget => (Heard' => Heard)
    BY DEF Heard
  <2>2. Inject("lost") => (Heard' => Heard)
    BY Spends
  <2> QED
    BY <2>1, <2>2, Opened, Torn, Looked, LookedAgain, Found, FoundRefund
       DEF Settle, SettleDecided, SettleResume, AtomicComplete, AtomicRecord,
           Transfer, DeliverRecord, Book, PaySend, PayRecord, Finish, Mark,
           RefundSend, RefundBook, RefundRecord
<1>5. \A x \in Subs \ {s} : tokens'[x] = tokens[x] /\ (Holds(x) => Holds(x)') /\ (Apart => (Holds(x)' => Holds(x)))
  <2>1. UNCHANGED <<tokens, balance>> \/ Transferred(s)
    BY DEF Settle, SettleDecided, SettleResume, AtomicOpen, AtomicComplete, AtomicRecord, AtomicTorn, Deliver,
           Transfer, DeliverRecord, Undelivered, Book, Pay, PaySend, PayRecord, Finish, Mark, Refund,
           RefundSend, RefundBook, RefundRecord, world
  <2> QED
    BY <2>1, Moved, Unmoved
<1>6. \A x \in Subs \ {s} : Pays(x)' = Pays(x) /\ \A k : Sent(x, k)' = Sent(x, k)
  <2>1. UNCHANGED sends \/ \E k : PayOut(s, k)
    BY DEF Settle, SettleDecided, SettleResume, AtomicOpen, AtomicComplete, AtomicRecord, AtomicTorn, Deliver,
           Transfer, DeliverRecord, Undelivered, Book, Pay, PaySend, PayRecord, Finish, Mark, Refund,
           RefundSend, RefundBook, RefundRecord, world
  <2> QED
    BY <2>1, Paid, Unpaid
<1>7. \A x \in Subs \ {s} : row'[x] = row[x]
  BY Opened, Torn, Looked, LookedAgain, Found, FoundRefund
     DEF Settle, SettleDecided, SettleResume, AtomicComplete, AtomicRecord, AtomicSettled, Delivered, Row,
         Transfer, DeliverRecord, Book, PaySend, PayRecord, Finish, Mark,
         RefundSend, RefundBook, RefundRecord, Typed, rows
<1>8. \A x \in Subs \ {s} : dtx'[x] = dtx[x] /\ rtx'[x] = rtx[x]
  BY Opened, Torn, Looked, LookedAgain, Found
     DEF Settle, SettleDecided, SettleResume, AtomicComplete, AtomicRecord, AtomicSettled, Delivered,
         AtomicTorn, Deliver, Undelivered, Pay, Refund,
         Transfer, DeliverRecord, Book, PaySend, PayRecord, Finish, Mark,
         RefundSend, RefundBook, RefundRecord, Typed, rows
<1>9. \A x \in Subs \ {s} : sub'[x] = sub[x]
  BY DEF Settle, SettleDecided, SettleResume, AtomicOpen, AtomicComplete, AtomicRecord, AtomicTorn, Deliver,
         Transfer, DeliverRecord, Undelivered, Book, Pay, PaySend, PayRecord, Finish, Mark, Refund,
         RefundSend, RefundBook, RefundRecord, Typed, rows
<1>10. \A x \in Subs \ {s} : Booking(x)
  <2>1. \A e \in ledger' \ ledger : e.sub = s
    BY FoundRefund
       DEF Settle, SettleDecided, SettleResume, AtomicOpen, AtomicComplete, AtomicRecord, AtomicTorn, Deliver,
           Transfer, DeliverRecord, Undelivered, Book, Pay, PaySend, PayRecord, Finish, Mark,
           RefundSend, RefundBook, RefundRecord, rows
  <2>2. ledger \subseteq ledger'
    BY FoundRefund
       DEF Settle, SettleDecided, SettleResume, AtomicOpen, AtomicComplete, AtomicRecord, AtomicTorn, Deliver,
           Transfer, DeliverRecord, Undelivered, Book, Pay, PaySend, PayRecord, Finish, Mark,
           RefundSend, RefundBook, RefundRecord, rows
  <2> QED
    BY <2>1, <2>2 DEF Booking
<1> QED
  BY <1>1, <1>2, <1>3, <1>4, <1>5, <1>6, <1>7, <1>8, <1>9, <1>10 DEF Aside

LEMMA TypedInit == SettleAssumption /\ Init => Typed
  BY DEF SettleAssumption, Init, Typed, Rows, Steps

LEMMA TypedNext == SettleAssumption /\ Typed /\ [Next]_vars => Typed'
<1> SUFFICES ASSUME SettleAssumption, Typed, [Next]_vars PROVE Typed'
  OBVIOUS
<1>1. ASSUME NEW s \in Subs, Settle(s) PROVE Typed'
  BY <1>1, SettleTyped
<1>2. ASSUME NEW s \in Subs, Credit(s) PROVE Typed'
  BY <1>2 DEF Credit, Typed, world, job
<1>3. CASE Close
  BY <1>3 DEF Close, Typed, Steps, world, rows
<1>4. CASE CloseEnd
  BY <1>4 DEF CloseEnd, Typed, Steps, Rows, world, rows
<1>5. CASE NextDay
  BY <1>5 DEF NextDay, Typed, world, rows, job
<1>6. CASE Crash
  <2>1. budget' \in [{"crash", "lost", "unread"} -> Nat] /\ budget'.unread <= MaxUnread
    BY <1>6, Spends DEF Crash
  <2> QED
    BY <1>6, <2>1 DEF Crash, Typed, Steps, Rows, world, rows
<1>7. CASE UNCHANGED vars
  BY <1>7 DEF vars, Typed, world, rows, job
<1> QED
  BY <1>1, <1>2, <1>3, <1>4, <1>5, <1>6, <1>7 DEF Next

\* Between closes, and where a stop or a new close leaves it, nothing is under way.
LEMMA Between ==
    ASSUME Typed,
           \/ Close \/ CloseEnd \/ NextDay \/ Crash \/ UNCHANGED vars \/ \E s \in Subs : Credit(s)
    PROVE  /\ UNCHANGED <<tokens, balance, sends, row, dtx, rtx, ledger>>
           /\ (Heard' => Heard) /\ halfway \subseteq halfway'
           /\ \A x \in Subs : \/ Step(x)' = Step(x) /\ was' = was
                              \/ /\ Step(x)' \in {"idle", "settle"}
                                 /\ Step(x) \in {"idle", "settle"} \/ (row[x] = "refunding" => x \in halfway')
           /\ \A x \in Subs : sub'[x] = sub[x] \/ sub'[x] = "in_escrow"
<1>1. CASE Close
  BY <1>1 DEF Close, Step, First, Heard, world, rows
<1>2. CASE CloseEnd
  BY <1>2 DEF CloseEnd, Step, First, Heard, world, rows
<1>3. CASE NextDay
  BY <1>3 DEF NextDay, Step, First, Heard, world, rows, job
<1>4. CASE Crash
  <2>1. Heard' => Heard
    BY <1>4, Spends DEF Crash
  <2>2. \A x \in Subs : Step(x)' = "settle"
    BY <1>4 DEF Crash, Step, First
  <2> QED
    BY <1>4, <2>1, <2>2 DEF Crash, world, rows
<1>5. CASE UNCHANGED vars
  BY <1>5 DEF vars, Step, First, Heard, world, rows, job
<1>6. CASE \E s \in Subs : Credit(s)
  BY <1>6 DEF Credit, Step, First, Heard, world, job, Typed
<1> QED
  BY <1>1, <1>2, <1>3, <1>4, <1>5, <1>6

-----------------------------------------------------------------------------
(* The invariant.                                                            *)

LEMMA SoundInit == SettleAssumption /\ Init => CloseInv
<1> SUFFICES ASSUME SettleAssumption, Init, NEW s \in Subs PROVE Kept(s) /\ Once(s) /\ OneWay(s) /\ Booked(s)
  BY DEF CloseInv, Sound
<1>1. /\ tokens[s] = 0 /\ row[s] = "none" /\ dtx[s] = FALSE /\ rtx[s] = FALSE
      /\ sub[s] = "created" /\ Step(s) \in {"idle", "settle"} /\ ledger = {}
  BY DEF Init, Step
<1>2. Pays(s) = {} /\ \A k : ~Sent(s, k)
  BY DEF Init, Pays, Sent
<1>3. ~Holds(s)
  BY DEF Init, SettleAssumption, Holds
<1> QED
  BY <1>1, <1>2, <1>3 DEF Kept, Once, OneWay, Booked

LEMMA SoundAside ==
    ASSUME NEW x \in Subs, Sound(x), Aside(x), Step(x) = "settle", Step(x)' = "settle",
           Heard' => Heard, halfway' = halfway
    PROVE  Sound(x)'
<1>1. Kept(x)'
  BY DEF Sound, Kept, Aside
<1>2. Heard' => Once(x)'
  BY DEF Sound, Once, Aside
<1>3. Heard' /\ x \notin halfway' => OneWay(x)'
  BY DEF Sound, OneWay, Aside
<1>4. Apart => Booked(x)'
  BY DEF Sound, Booked, Aside, Booking, Out
<1> QED
  BY <1>1, <1>2, <1>3, <1>4 DEF Sound, Apart

LEMMA SentPays == \A s \in Subs : \A k : Sent(s, k) => Pays(s) # {}
  BY DEF Sent, Pays

LEMMA SoundHere ==
    ASSUME SettleAssumption, Typed, NEW s \in Subs, Sound(s), Settle(s)
    PROVE  Sound(s)'
<1>0. /\ (Heard' => Heard) /\ halfway' = halfway
      /\ tokens \in [Subs -> Nat] /\ row \in [Subs -> Rows] /\ dtx \in [Subs -> BOOLEAN] /\ rtx \in [Subs -> BOOLEAN]
      /\ tokens[s] \in Nat /\ todo \subseteq Subs
  BY Elsewhere DEF Typed
<1>a. Kept(s) /\ (Heard => Once(s)) /\ (Heard /\ s \notin halfway => OneWay(s)) /\ (Apart => Booked(s))
  BY DEF Sound
<1>b. SUFFICES Kept(s)' /\ (Heard' => Once(s)') /\ (Heard' /\ s \notin halfway' => OneWay(s)') /\ (Apart => Booked(s)')
  BY DEF Sound, Apart
<1>1. CASE SettleDecided(s)
  <2>1. Step(s) = "settle" /\ First(s)
    BY <1>1, <1>0, AtOne DEF SettleDecided, At
  <2>2. tokens'[s] = tokens[s] /\ Holds(s)' = Holds(s) /\ Pays(s)' = Pays(s) /\ \A k : Sent(s, k)' = Sent(s, k)
    BY <1>1, Unmoved, Unpaid DEF SettleDecided, world
  <2>3. Step(s)' = "settle" /\ row'[s] = row[s] /\ dtx'[s] = dtx[s] /\ rtx'[s] = rtx[s]
    BY <1>1, <1>0, <2>1, GoTo, GoOn DEF SettleDecided, rows
  <2>4. /\ was' = was /\ sub'[s] = sub[s]
        /\ Booking(s)
    BY <1>1 DEF SettleDecided, Booking, rows
  <2>5. Kept(s)'
    BY <1>0, <1>a, <2>1, <2>2, <2>3, <2>4 DEF Kept
  <2>6. Heard' => Once(s)'
    BY <1>0, <1>a, <2>1, <2>2, <2>3, <2>4 DEF Once, Kept, Decided
  <2>7. Heard' /\ s \notin halfway' => OneWay(s)'
    BY <1>0, <1>a, <2>1, <2>2, <2>3, <2>4, SentPays DEF OneWay, Once, Kept, Decided
  <2>8. Apart => Booked(s)'
    BY <1>0, <1>a, <2>1, <2>2, <2>3, <2>4 DEF Booked, Kept, Booking, Out, Decided
  <2> QED
    BY <2>5, <2>6, <2>7, <2>8
<1>2. CASE SettleResume(s)
  <2>1. Step(s) = "settle" /\ First(s)
    BY <1>2, <1>0, AtOne DEF SettleResume, At
  <2>2. tokens'[s] = tokens[s] /\ Holds(s)' = Holds(s) /\ Pays(s)' = Pays(s) /\ \A k : Sent(s, k)' = Sent(s, k)
    BY <1>2, Unmoved, Unpaid DEF SettleResume, world
  <2>3. /\ row[s] \notin Decided /\ was' = row'[s] /\ dtx'[s] = dtx[s] /\ rtx'[s] = rtx[s]
        /\ row'[s] = (IF row[s] = "none" THEN "pending" ELSE row[s])
        /\ \/ Step(s)' = "atomic" /\ ~dtx[s] /\ row'[s] \in {"pending", "settling"}
           \/ Step(s)' = "deliver" /\ ~dtx[s] /\ ~(~rtx[s] /\ row'[s] = "settling")
           \/ Step(s)' = "pay" /\ dtx[s] /\ ~rtx[s]
           \/ Step(s)' = "finish" /\ dtx[s] /\ rtx[s]
    BY <1>2, <1>0, <2>1, GoTo, GoOn DEF SettleResume, Row
  <2>4. /\ sub'[s] = sub[s]
        /\ Booking(s)
    BY <1>2 DEF SettleResume, Booking, rows
  <2>5. Kept(s)'
    BY <1>0, <1>a, <2>1, <2>2, <2>3, <2>4 DEF Kept
  <2>6. Heard' => Once(s)'
    BY <1>0, <1>a, <2>1, <2>2, <2>3, <2>4 DEF Once, Kept, Decided
  <2>7. Heard' /\ s \notin halfway' => OneWay(s)'
    BY <1>0, <1>a, <2>1, <2>2, <2>3, <2>4, SentPays DEF OneWay, Once, Kept, Decided
  <2>8. Apart => Booked(s)'
    BY <1>0, <1>a, <2>1, <2>2, <2>3, <2>4 DEF Booked, Kept, Booking, Out, Decided
  <2> QED
    BY <2>5, <2>6, <2>7, <2>8
<1>3. CASE AtomicOpen(s)
  <2>1. Step(s) = "atomic" /\ First(s)
    BY <1>3, <1>0, AtOne DEF AtomicOpen, At
  <2>2. tokens'[s] = tokens[s] /\ Holds(s)' = Holds(s) /\ Pays(s)' = Pays(s) /\ \A k : Sent(s, k)' = Sent(s, k)
    BY <1>3, Unmoved, Unpaid DEF AtomicOpen, world
  <2>3. \/ /\ was = "settling" /\ Holds(s) /\ dtx'[s] /\ rtx'[s] /\ row'[s] = "settled" /\ Step(s)' = "mark"
        \/ /\ Heard' => ~(was = "settling" /\ Holds(s))
           /\ dtx'[s] = dtx[s] /\ rtx'[s] = rtx[s]
           /\ \/ row'[s] = "failed" /\ Step(s)' = "settle"
              \/ row'[s] = row[s] /\ Step(s)' = "settle"
              \/ row'[s] = row[s] /\ Step(s)' = "deliver" /\ was # "settling"
              \/ row'[s] = row[s] /\ Step(s)' = "torn"
              \/ row'[s] = "settling" /\ Step(s)' = "complete"
    BY <1>3, <1>0, <2>1, GoTo, GoOn, Opened DEF AtomicOpen, AtomicSettled, Row
  <2>4. /\ was' = was /\ sub'[s] = sub[s]
        /\ Booking(s)
    BY <1>3 DEF AtomicOpen, Booking, rows
  <2>5. Kept(s)'
    BY <1>0, <1>a, <2>1, <2>2, <2>3, <2>4 DEF Kept
  <2>6. Heard' => Once(s)'
    BY <1>0, <1>a, <2>1, <2>2, <2>3, <2>4 DEF Once, Kept, Decided
  <2>7. Heard' /\ s \notin halfway' => OneWay(s)'
    BY <1>0, <1>a, <2>1, <2>2, <2>3, <2>4, SentPays DEF OneWay, Once, Kept, Decided
  <2>8. Apart => Booked(s)'
    BY <1>0, <1>a, <2>1, <2>2, <2>3, <2>4 DEF Booked, Kept, Booking, Out, Decided
  <2> QED
    BY <2>5, <2>6, <2>7, <2>8
<1>4. CASE AtomicComplete(s)
  <2>1. Step(s) = "complete" /\ First(s)
    BY <1>4, <1>0, AtOne DEF AtomicComplete, At
  <2>2. \/ /\ tokens'[s] = tokens[s] + 1 /\ Holds(s)' /\ Step(s)' \in {"landed", "torn"}
           /\ Sent(s, "atomic")' /\ (\A k : k # "atomic" => Sent(s, k)' = Sent(s, k))
           /\ Pays(s) = {} => \A p, q \in Pays(s)' : p = q
        \/ tokens'[s] = tokens[s] /\ Holds(s)' = Holds(s) /\ Pays(s)' = Pays(s) /\ \A k : Sent(s, k)' = Sent(s, k) /\ Step(s)' = "torn"
    BY <1>4, <1>0, <2>1, GoTo, Moved, Unmoved, Paid, Unpaid DEF AtomicComplete, world
  <2>3. row'[s] = row[s] /\ dtx'[s] = dtx[s] /\ rtx'[s] = rtx[s]
    BY <1>4 DEF AtomicComplete, rows
  <2>4. /\ was' = was /\ sub'[s] = sub[s]
        /\ Booking(s)
    BY <1>4 DEF AtomicComplete, Booking, rows
  <2>5. Kept(s)'
    BY <1>0, <1>a, <2>1, <2>2, <2>3, <2>4 DEF Kept
  <2>6. Heard' => Once(s)'
    BY <1>0, <1>a, <2>1, <2>2, <2>3, <2>4 DEF Once, Kept, Decided
  <2>7. Heard' /\ s \notin halfway' => OneWay(s)'
    BY <1>0, <1>a, <2>1, <2>2, <2>3, <2>4, SentPays DEF OneWay, Once, Kept, Decided
  <2>8. Apart => Booked(s)'
    BY <1>0, <1>a, <2>1, <2>2, <2>3, <2>4 DEF Booked, Kept, Booking, Out, Decided
  <2> QED
    BY <2>5, <2>6, <2>7, <2>8
<1>5. CASE AtomicRecord(s)
  <2>1. Step(s) = "landed" /\ First(s)
    BY <1>5, <1>0, AtOne DEF AtomicRecord, At
  <2>2. tokens'[s] = tokens[s] /\ Holds(s)' = Holds(s) /\ Pays(s)' = Pays(s) /\ \A k : Sent(s, k)' = Sent(s, k)
    BY <1>5, Unmoved, Unpaid DEF AtomicRecord, world
  <2>3. dtx'[s] /\ rtx'[s] /\ row'[s] = "settled" /\ Step(s)' = "book"
    BY <1>5, <1>0, <2>1, GoTo, GoOn DEF AtomicRecord, AtomicSettled, Row
  <2>4. /\ was' = was /\ sub'[s] = sub[s]
        /\ Booking(s)
    BY <1>5 DEF AtomicRecord, Booking, rows
  <2>5. Kept(s)'
    BY <1>0, <1>a, <2>1, <2>2, <2>3, <2>4 DEF Kept
  <2>6. Heard' => Once(s)'
    BY <1>0, <1>a, <2>1, <2>2, <2>3, <2>4 DEF Once, Kept, Decided
  <2>7. Heard' /\ s \notin halfway' => OneWay(s)'
    BY <1>0, <1>a, <2>1, <2>2, <2>3, <2>4, SentPays DEF OneWay, Once, Kept, Decided
  <2>8. Apart => Booked(s)'
    BY <1>0, <1>a, <2>1, <2>2, <2>3, <2>4 DEF Booked, Kept, Booking, Out, Decided
  <2> QED
    BY <2>5, <2>6, <2>7, <2>8
<1>6. CASE AtomicTorn(s)
  <2>1. Step(s) = "torn" /\ First(s)
    BY <1>6, <1>0, AtOne DEF AtomicTorn, At
  <2>2. tokens'[s] = tokens[s] /\ Holds(s)' = Holds(s) /\ Pays(s)' = Pays(s) /\ \A k : Sent(s, k)' = Sent(s, k)
    BY <1>6, Unmoved, Unpaid DEF AtomicTorn, world
  <2>3. \/ Holds(s) /\ dtx'[s] /\ rtx'[s] /\ row'[s] = "settled" /\ Step(s)' = "mark"
        \/ (Heard' => ~Holds(s)) /\ Step(s)' = "refund" /\ row'[s] = row[s] /\ dtx'[s] = dtx[s] /\ rtx'[s] = rtx[s]
    BY <1>6, <1>0, <2>1, GoTo, GoOn, Torn DEF AtomicTorn, AtomicSettled, Row
  <2>4. /\ was' = was /\ sub'[s] = sub[s]
        /\ Booking(s)
    BY <1>6 DEF AtomicTorn, Booking, rows
  <2>5. Kept(s)'
    BY <1>0, <1>a, <2>1, <2>2, <2>3, <2>4 DEF Kept
  <2>6. Heard' => Once(s)'
    BY <1>0, <1>a, <2>1, <2>2, <2>3, <2>4 DEF Once, Kept, Decided
  <2>7. Heard' /\ s \notin halfway' => OneWay(s)'
    BY <1>0, <1>a, <2>1, <2>2, <2>3, <2>4, SentPays DEF OneWay, Once, Kept, Decided
  <2>8. Apart => Booked(s)'
    BY <1>0, <1>a, <2>1, <2>2, <2>3, <2>4 DEF Booked, Kept, Booking, Out, Decided
  <2> QED
    BY <2>5, <2>6, <2>7, <2>8
<1>7. CASE Deliver(s)
  <2>1. Step(s) = "deliver" /\ First(s)
    BY <1>7, <1>0, AtOne DEF Deliver, At
  <2>2. tokens'[s] = tokens[s] /\ Holds(s)' = Holds(s) /\ Pays(s)' = Pays(s) /\ \A k : Sent(s, k)' = Sent(s, k)
    BY <1>7, Unmoved, Unpaid DEF Deliver, world
  <2>3. /\ rtx'[s] = rtx[s]
        /\ \/ dtx'[s] /\ row'[s] = "delivered" /\ Step(s)' = "pay"
           \/ /\ Heard' => ~(was = "delivering" /\ Holds(s))
              /\ dtx'[s] = dtx[s] /\ row'[s] = "delivering" /\ Step(s)' = "transfer"
    BY <1>7, <1>0, <2>1, GoTo, GoOn, Looked DEF Deliver, Delivered, Row
  <2>4. /\ was' = was /\ sub'[s] = sub[s]
        /\ Booking(s)
    BY <1>7 DEF Deliver, Booking, rows
  <2>5. Kept(s)'
    BY <1>0, <1>a, <2>1, <2>2, <2>3, <2>4 DEF Kept
  <2>6. Heard' => Once(s)'
    BY <1>0, <1>a, <2>1, <2>2, <2>3, <2>4 DEF Once, Kept, Decided
  <2>7. Heard' /\ s \notin halfway' => OneWay(s)'
    BY <1>0, <1>a, <2>1, <2>2, <2>3, <2>4, SentPays DEF OneWay, Once, Kept, Decided
  <2>8. Apart => Booked(s)'
    BY <1>0, <1>a, <2>1, <2>2, <2>3, <2>4 DEF Booked, Kept, Booking, Out, Decided
  <2> QED
    BY <2>5, <2>6, <2>7, <2>8
<1>8. CASE Transfer(s)
  <2>1. Step(s) = "transfer" /\ First(s)
    BY <1>8, <1>0, AtOne DEF Transfer, At
  <2>2. /\ \/ tokens'[s] = tokens[s] + 1 /\ Holds(s)' /\ Step(s)' \in {"record", "undelivered"}
           \/ tokens'[s] = tokens[s] /\ Holds(s)' = Holds(s) /\ Step(s)' = "undelivered"
        /\ Pays(s)' = Pays(s) /\ \A k : Sent(s, k)' = Sent(s, k)
    BY <1>8, <1>0, <2>1, GoTo, Moved, Unmoved, Unpaid DEF Transfer, world
  <2>3. row'[s] = row[s] /\ dtx'[s] = dtx[s] /\ rtx'[s] = rtx[s]
    BY <1>8 DEF Transfer, rows
  <2>4. /\ was' = was /\ sub'[s] = sub[s]
        /\ Booking(s)
    BY <1>8 DEF Transfer, Booking, rows
  <2>5. Kept(s)'
    BY <1>0, <1>a, <2>1, <2>2, <2>3, <2>4 DEF Kept
  <2>6. Heard' => Once(s)'
    BY <1>0, <1>a, <2>1, <2>2, <2>3, <2>4 DEF Once, Kept, Decided
  <2>7. Heard' /\ s \notin halfway' => OneWay(s)'
    BY <1>0, <1>a, <2>1, <2>2, <2>3, <2>4, SentPays DEF OneWay, Once, Kept, Decided
  <2>8. Apart => Booked(s)'
    BY <1>0, <1>a, <2>1, <2>2, <2>3, <2>4 DEF Booked, Kept, Booking, Out, Decided
  <2> QED
    BY <2>5, <2>6, <2>7, <2>8
<1>9. CASE DeliverRecord(s)
  <2>1. Step(s) = "record" /\ First(s)
    BY <1>9, <1>0, AtOne DEF DeliverRecord, At
  <2>2. tokens'[s] = tokens[s] /\ Holds(s)' = Holds(s) /\ Pays(s)' = Pays(s) /\ \A k : Sent(s, k)' = Sent(s, k)
    BY <1>9, Unmoved, Unpaid DEF DeliverRecord, world
  <2>3. dtx'[s] /\ rtx'[s] = rtx[s] /\ row'[s] = "delivered" /\ Step(s)' = "book"
    BY <1>9, <1>0, <2>1, GoTo, GoOn DEF DeliverRecord, Delivered, Row
  <2>4. /\ was' = was /\ sub'[s] = sub[s]
        /\ Booking(s)
    BY <1>9 DEF DeliverRecord, Booking, rows
  <2>5. Kept(s)'
    BY <1>0, <1>a, <2>1, <2>2, <2>3, <2>4 DEF Kept
  <2>6. Heard' => Once(s)'
    BY <1>0, <1>a, <2>1, <2>2, <2>3, <2>4 DEF Once, Kept, Decided
  <2>7. Heard' /\ s \notin halfway' => OneWay(s)'
    BY <1>0, <1>a, <2>1, <2>2, <2>3, <2>4, SentPays DEF OneWay, Once, Kept, Decided
  <2>8. Apart => Booked(s)'
    BY <1>0, <1>a, <2>1, <2>2, <2>3, <2>4 DEF Booked, Kept, Booking, Out, Decided
  <2> QED
    BY <2>5, <2>6, <2>7, <2>8
<1>10. CASE Undelivered(s)
  <2>1. Step(s) = "undelivered" /\ First(s)
    BY <1>10, <1>0, AtOne DEF Undelivered, At
  <2>2. tokens'[s] = tokens[s] /\ Holds(s)' = Holds(s) /\ Pays(s)' = Pays(s) /\ \A k : Sent(s, k)' = Sent(s, k)
    BY <1>10, Unmoved, Unpaid DEF Undelivered, world
  <2>3. /\ rtx'[s] = rtx[s]
        /\ \/ Holds(s) /\ dtx'[s] /\ row'[s] = "delivered" /\ Step(s)' = "pay"
           \/ (Heard' => ~Holds(s)) /\ Step(s)' = "refund" /\ row'[s] = row[s] /\ dtx'[s] = dtx[s]
    BY <1>10, <1>0, <2>1, GoTo, GoOn, LookedAgain DEF Undelivered, Delivered, Row
  <2>4. /\ was' = was /\ sub'[s] = sub[s]
        /\ Booking(s)
    BY <1>10 DEF Undelivered, Booking, rows
  <2>5. Kept(s)'
    BY <1>0, <1>a, <2>1, <2>2, <2>3, <2>4 DEF Kept
  <2>6. Heard' => Once(s)'
    BY <1>0, <1>a, <2>1, <2>2, <2>3, <2>4 DEF Once, Kept, Decided
  <2>7. Heard' /\ s \notin halfway' => OneWay(s)'
    BY <1>0, <1>a, <2>1, <2>2, <2>3, <2>4, SentPays DEF OneWay, Once, Kept, Decided
  <2>8. Apart => Booked(s)'
    BY <1>0, <1>a, <2>1, <2>2, <2>3, <2>4 DEF Booked, Kept, Booking, Out, Decided
  <2> QED
    BY <2>5, <2>6, <2>7, <2>8
<1>11. CASE Book(s)
  <2>1. Step(s) = "book" /\ First(s)
    BY <1>11, <1>0, AtOne DEF Book, At
  <2>2. tokens'[s] = tokens[s] /\ Holds(s)' = Holds(s) /\ Pays(s)' = Pays(s) /\ \A k : Sent(s, k)' = Sent(s, k)
    BY <1>11, Unmoved, Unpaid DEF Book, world
  <2>3. /\ row'[s] = row[s] /\ dtx'[s] = dtx[s] /\ rtx'[s] = rtx[s]
        /\ Step(s)' = (IF row[s] = "delivered" THEN "pay" ELSE IF row[s] = "released" THEN "finish" ELSE "mark")
    BY <1>11, <1>0, <2>1, GoTo, GoOn DEF Book
  <2>4. /\ was' = was /\ sub'[s] = sub[s]
        /\ ([sub |-> s, kind |-> "refund"] \in ledger)' <=> [sub |-> s, kind |-> "refund"] \in ledger
        /\ ([sub |-> s, kind |-> "release"] \in ledger)' =>
              [sub |-> s, kind |-> "release"] \in ledger \/ row[s] # "delivered"
    BY <1>11, <1>0 DEF Book
  <2>5. Kept(s)'
    BY <1>0, <1>a, <2>1, <2>2, <2>3, <2>4 DEF Kept
  <2>6. Heard' => Once(s)'
    BY <1>0, <1>a, <2>1, <2>2, <2>3, <2>4 DEF Once, Kept, Decided
  <2>7. Heard' /\ s \notin halfway' => OneWay(s)'
    BY <1>0, <1>a, <2>1, <2>2, <2>3, <2>4, SentPays DEF OneWay, Once, Kept, Decided
  <2>8. Apart => Booked(s)'
    BY <1>0, <1>a, <2>1, <2>2, <2>3, <2>4 DEF Booked, Kept, Booking, Out, Decided
  <2> QED
    BY <2>5, <2>6, <2>7, <2>8
<1>12. CASE Pay(s)
  <2>1. Step(s) = "pay" /\ First(s)
    BY <1>12, <1>0, AtOne DEF Pay, At
  <2>2. tokens'[s] = tokens[s] /\ Holds(s)' = Holds(s) /\ Pays(s)' = Pays(s) /\ \A k : Sent(s, k)' = Sent(s, k)
    BY <1>12, Unmoved, Unpaid DEF Pay, world
  <2>3. /\ dtx'[s] = dtx[s]
        /\ \/ Sent(s, "release") /\ rtx'[s] /\ row'[s] = "released" /\ Step(s)' = "finish"
           \/ /\ Heard' => ~(was = "releasing" /\ Sent(s, "release"))
              /\ rtx'[s] = rtx[s] /\ row'[s] = "releasing" /\ Step(s)' = "send"
    BY <1>12, <1>0, <2>1, GoTo, GoOn, Found DEF Pay, Row
  <2>4. /\ was' = was /\ sub'[s] = sub[s]
        /\ Booking(s)
    BY <1>12 DEF Pay, Booking, rows
  <2>5. Kept(s)'
    BY <1>0, <1>a, <2>1, <2>2, <2>3, <2>4 DEF Kept
  <2>6. Heard' => Once(s)'
    BY <1>0, <1>a, <2>1, <2>2, <2>3, <2>4 DEF Once, Kept, Decided
  <2>7. Heard' /\ s \notin halfway' => OneWay(s)'
    BY <1>0, <1>a, <2>1, <2>2, <2>3, <2>4, SentPays DEF OneWay, Once, Kept, Decided
  <2>8. Apart => Booked(s)'
    BY <1>0, <1>a, <2>1, <2>2, <2>3, <2>4 DEF Booked, Kept, Booking, Out, Decided
  <2> QED
    BY <2>5, <2>6, <2>7, <2>8
<1>13. CASE PaySend(s)
  <2>1. Step(s) = "send" /\ First(s)
    BY <1>13, <1>0, AtOne DEF PaySend, At
  <2>2. tokens'[s] = tokens[s] /\ Holds(s)' = Holds(s)
    BY <1>13, Unmoved DEF PaySend
  <2>3. /\ dtx'[s] = dtx[s] /\ rtx'[s] = rtx[s]
        /\ \/ /\ (row'[s] = row[s] /\ Step(s)' = "sent") \/ (row'[s] = "failed" /\ Step(s)' = "settle")
              /\ Sent(s, "release")' /\ (\A k : k # "release" => Sent(s, k)' = Sent(s, k))
              /\ Pays(s) = {} => \A p, q \in Pays(s)' : p = q
           \/ row'[s] = "failed" /\ Step(s)' = "settle" /\ Pays(s)' = Pays(s) /\ \A k : Sent(s, k)' = Sent(s, k)
    <3>1. /\ dtx'[s] = dtx[s] /\ rtx'[s] = rtx[s]
          /\ \/ /\ (row'[s] = row[s] /\ Step(s)' = "sent") \/ (row'[s] = "failed" /\ Step(s)' = "settle")
                /\ PayOut(s, "release")
             \/ row'[s] = "failed" /\ Step(s)' = "settle" /\ UNCHANGED sends
      BY <1>13, <1>0, <2>1, GoTo, GoOn DEF PaySend, Row
    <3> QED
      BY <3>1, Paid, Unpaid
  <2>4. /\ was' = was /\ sub'[s] = sub[s]
        /\ Booking(s)
    BY <1>13 DEF PaySend, Booking, rows
  <2>5. Kept(s)'
    BY <1>0, <1>a, <2>1, <2>2, <2>3, <2>4 DEF Kept
  <2>6. Heard' => Once(s)'
    BY <1>0, <1>a, <2>1, <2>2, <2>3, <2>4 DEF Once, Kept, Decided
  <2>7. Heard' /\ s \notin halfway' => OneWay(s)'
    BY <1>0, <1>a, <2>1, <2>2, <2>3, <2>4, SentPays DEF OneWay, Once, Kept, Decided
  <2>8. Apart => Booked(s)'
    BY <1>0, <1>a, <2>1, <2>2, <2>3, <2>4 DEF Booked, Kept, Booking, Out, Decided
  <2> QED
    BY <2>5, <2>6, <2>7, <2>8
<1>14. CASE PayRecord(s)
  <2>1. Step(s) = "sent" /\ First(s)
    BY <1>14, <1>0, AtOne DEF PayRecord, At
  <2>2. tokens'[s] = tokens[s] /\ Holds(s)' = Holds(s) /\ Pays(s)' = Pays(s) /\ \A k : Sent(s, k)' = Sent(s, k)
    BY <1>14, Unmoved, Unpaid DEF PayRecord, world
  <2>3. dtx'[s] = dtx[s] /\ rtx'[s] /\ row'[s] = "released" /\ Step(s)' = "book"
    BY <1>14, <1>0, <2>1, GoTo, GoOn DEF PayRecord, Row
  <2>4. /\ was' = was /\ sub'[s] = sub[s]
        /\ Booking(s)
    BY <1>14 DEF PayRecord, Booking, rows
  <2>5. Kept(s)'
    BY <1>0, <1>a, <2>1, <2>2, <2>3, <2>4 DEF Kept
  <2>6. Heard' => Once(s)'
    BY <1>0, <1>a, <2>1, <2>2, <2>3, <2>4 DEF Once, Kept, Decided
  <2>7. Heard' /\ s \notin halfway' => OneWay(s)'
    BY <1>0, <1>a, <2>1, <2>2, <2>3, <2>4, SentPays DEF OneWay, Once, Kept, Decided
  <2>8. Apart => Booked(s)'
    BY <1>0, <1>a, <2>1, <2>2, <2>3, <2>4 DEF Booked, Kept, Booking, Out, Decided
  <2> QED
    BY <2>5, <2>6, <2>7, <2>8
<1>15. CASE Finish(s)
  <2>1. Step(s) = "finish" /\ First(s)
    BY <1>15, <1>0, AtOne DEF Finish, At
  <2>2. tokens'[s] = tokens[s] /\ Holds(s)' = Holds(s) /\ Pays(s)' = Pays(s) /\ \A k : Sent(s, k)' = Sent(s, k)
    BY <1>15, Unmoved, Unpaid DEF Finish, world
  <2>3. dtx'[s] = dtx[s] /\ rtx'[s] = rtx[s] /\ row'[s] = "settled" /\ Step(s)' = "mark"
    BY <1>15, <1>0, <2>1, GoTo, GoOn DEF Finish, Row
  <2>4. /\ was' = was /\ sub'[s] = sub[s]
        /\ Booking(s)
    BY <1>15 DEF Finish, Booking, rows
  <2>5. Kept(s)'
    BY <1>0, <1>a, <2>1, <2>2, <2>3, <2>4 DEF Kept
  <2>6. Heard' => Once(s)'
    BY <1>0, <1>a, <2>1, <2>2, <2>3, <2>4 DEF Once, Kept, Decided
  <2>7. Heard' /\ s \notin halfway' => OneWay(s)'
    BY <1>0, <1>a, <2>1, <2>2, <2>3, <2>4, SentPays DEF OneWay, Once, Kept, Decided
  <2>8. Apart => Booked(s)'
    BY <1>0, <1>a, <2>1, <2>2, <2>3, <2>4 DEF Booked, Kept, Booking, Out, Decided
  <2> QED
    BY <2>5, <2>6, <2>7, <2>8
<1>16. CASE Mark(s)
  <2>1. Step(s) = "mark" /\ First(s)
    BY <1>16, <1>0, AtOne DEF Mark, At
  <2>2. tokens'[s] = tokens[s] /\ Holds(s)' = Holds(s) /\ Pays(s)' = Pays(s) /\ \A k : Sent(s, k)' = Sent(s, k)
    BY <1>16, Unmoved, Unpaid DEF Mark, world
  <2>3. row'[s] = row[s] /\ dtx'[s] = dtx[s] /\ rtx'[s] = rtx[s] /\ Step(s)' = "settle"
    BY <1>16, <1>0, <2>1, GoTo, GoOn DEF Mark
  <2>4. /\ was' = was
        /\ sub'[s] = row[s] /\ Booking(s)
    BY <1>16, <1>0 DEF Mark, Booking, Typed
  <2>5. Kept(s)'
    BY <1>0, <1>a, <2>1, <2>2, <2>3, <2>4 DEF Kept
  <2>6. Heard' => Once(s)'
    BY <1>0, <1>a, <2>1, <2>2, <2>3, <2>4 DEF Once, Kept, Decided
  <2>7. Heard' /\ s \notin halfway' => OneWay(s)'
    BY <1>0, <1>a, <2>1, <2>2, <2>3, <2>4, SentPays DEF OneWay, Once, Kept, Decided
  <2>8. Apart => Booked(s)'
    BY <1>0, <1>a, <2>1, <2>2, <2>3, <2>4 DEF Booked, Kept, Booking, Out, Decided
  <2> QED
    BY <2>5, <2>6, <2>7, <2>8
<1>17. CASE Refund(s)
  <2>1. Step(s) = "refund" /\ First(s)
    BY <1>17, <1>0, AtOne DEF Refund, At
  <2>2. tokens'[s] = tokens[s] /\ Holds(s)' = Holds(s) /\ Pays(s)' = Pays(s) /\ \A k : Sent(s, k)' = Sent(s, k)
    BY <1>17, Unmoved, Unpaid DEF Refund, world
  <2>3. /\ dtx'[s] = dtx[s] /\ rtx'[s] = rtx[s]
        /\ \/ was = "refunding" /\ row'[s] = row[s] /\ Step(s)' = "returned"
           \/ row'[s] = "refunding" /\ Step(s)' \in {"repay", "returned"}
    BY <1>17, <1>0, <2>1, GoTo, GoOn, FoundRefund DEF Refund, Row
  <2>4. /\ was' = was /\ sub'[s] = sub[s]
        /\ ([sub |-> s, kind |-> "release"] \in ledger)' <=> [sub |-> s, kind |-> "release"] \in ledger
        /\ ([sub |-> s, kind |-> "refund"] \in ledger)' => [sub |-> s, kind |-> "refund"] \in ledger \/ Sent(s, "refund")
    BY <1>17, <1>0, FoundRefund DEF Refund
  <2>5. Kept(s)'
    BY <1>0, <1>a, <2>1, <2>2, <2>3, <2>4 DEF Kept
  <2>6. Heard' => Once(s)'
    BY <1>0, <1>a, <2>1, <2>2, <2>3, <2>4 DEF Once, Kept, Decided
  <2>7. Heard' /\ s \notin halfway' => OneWay(s)'
    BY <1>0, <1>a, <2>1, <2>2, <2>3, <2>4, SentPays DEF OneWay, Once, Kept, Decided
  <2>8. Apart => Booked(s)'
    BY <1>0, <1>a, <2>1, <2>2, <2>3, <2>4 DEF Booked, Kept, Booking, Out, Decided
  <2> QED
    BY <2>5, <2>6, <2>7, <2>8
<1>18. CASE RefundSend(s)
  <2>1. Step(s) = "repay" /\ First(s)
    BY <1>18, <1>0, AtOne DEF RefundSend, At
  <2>2. tokens'[s] = tokens[s] /\ Holds(s)' = Holds(s)
    BY <1>18, Unmoved DEF RefundSend
  <2>3. /\ dtx'[s] = dtx[s] /\ rtx'[s] = rtx[s]
        /\ \/ /\ (row'[s] = row[s] /\ Step(s)' = "repaid") \/ (row'[s] = "failed" /\ Step(s)' = "settle")
              /\ Sent(s, "refund")' /\ (\A k : k # "refund" => Sent(s, k)' = Sent(s, k))
              /\ Pays(s) = {} => \A p, q \in Pays(s)' : p = q
           \/ row'[s] = "failed" /\ Step(s)' = "settle" /\ Pays(s)' = Pays(s) /\ \A k : Sent(s, k)' = Sent(s, k)
    <3>1. /\ dtx'[s] = dtx[s] /\ rtx'[s] = rtx[s]
          /\ \/ /\ (row'[s] = row[s] /\ Step(s)' = "repaid") \/ (row'[s] = "failed" /\ Step(s)' = "settle")
                /\ PayOut(s, "refund")
             \/ row'[s] = "failed" /\ Step(s)' = "settle" /\ UNCHANGED sends
      BY <1>18, <1>0, <2>1, GoTo, GoOn DEF RefundSend, Row
    <3> QED
      BY <3>1, Paid, Unpaid
  <2>4. /\ was' = was /\ sub'[s] = sub[s]
        /\ Booking(s)
    BY <1>18 DEF RefundSend, Booking, rows
  <2>5. Kept(s)'
    BY <1>0, <1>a, <2>1, <2>2, <2>3, <2>4 DEF Kept
  <2>6. Heard' => Once(s)'
    BY <1>0, <1>a, <2>1, <2>2, <2>3, <2>4 DEF Once, Kept, Decided
  <2>7. Heard' /\ s \notin halfway' => OneWay(s)'
    BY <1>0, <1>a, <2>1, <2>2, <2>3, <2>4, SentPays DEF OneWay, Once, Kept, Decided
  <2>8. Apart => Booked(s)'
    BY <1>0, <1>a, <2>1, <2>2, <2>3, <2>4 DEF Booked, Kept, Booking, Out, Decided
  <2> QED
    BY <2>5, <2>6, <2>7, <2>8
<1>19. CASE RefundBook(s)
  <2>1. Step(s) = "repaid" /\ First(s)
    BY <1>19, <1>0, AtOne DEF RefundBook, At
  <2>2. tokens'[s] = tokens[s] /\ Holds(s)' = Holds(s) /\ Pays(s)' = Pays(s) /\ \A k : Sent(s, k)' = Sent(s, k)
    BY <1>19, Unmoved, Unpaid DEF RefundBook, world
  <2>3. row'[s] = row[s] /\ dtx'[s] = dtx[s] /\ rtx'[s] = rtx[s] /\ Step(s)' = "returned"
    BY <1>19, <1>0, <2>1, GoTo, GoOn DEF RefundBook
  <2>4. /\ was' = was /\ sub'[s] = sub[s]
        /\ ([sub |-> s, kind |-> "release"] \in ledger)' <=> [sub |-> s, kind |-> "release"] \in ledger
    BY <1>19, <1>0 DEF RefundBook
  <2>5. Kept(s)'
    BY <1>0, <1>a, <2>1, <2>2, <2>3, <2>4 DEF Kept
  <2>6. Heard' => Once(s)'
    BY <1>0, <1>a, <2>1, <2>2, <2>3, <2>4 DEF Once, Kept, Decided
  <2>7. Heard' /\ s \notin halfway' => OneWay(s)'
    BY <1>0, <1>a, <2>1, <2>2, <2>3, <2>4, SentPays DEF OneWay, Once, Kept, Decided
  <2>8. Apart => Booked(s)'
    BY <1>0, <1>a, <2>1, <2>2, <2>3, <2>4 DEF Booked, Kept, Booking, Out, Decided
  <2> QED
    BY <2>5, <2>6, <2>7, <2>8
<1>20. CASE RefundRecord(s)
  <2>1. Step(s) = "returned" /\ First(s)
    BY <1>20, <1>0, AtOne DEF RefundRecord, At
  <2>2. tokens'[s] = tokens[s] /\ Holds(s)' = Holds(s) /\ Pays(s)' = Pays(s) /\ \A k : Sent(s, k)' = Sent(s, k)
    BY <1>20, Unmoved, Unpaid DEF RefundRecord, world
  <2>3. dtx'[s] = dtx[s] /\ rtx'[s] = rtx[s] /\ row'[s] = "refunded" /\ Step(s)' = "mark"
    BY <1>20, <1>0, <2>1, GoTo, GoOn DEF RefundRecord, Row
  <2>4. /\ was' = was /\ sub'[s] = sub[s]
        /\ Booking(s)
    BY <1>20 DEF RefundRecord, Booking, rows
  <2>5. Kept(s)'
    BY <1>0, <1>a, <2>1, <2>2, <2>3, <2>4 DEF Kept
  <2>6. Heard' => Once(s)'
    BY <1>0, <1>a, <2>1, <2>2, <2>3, <2>4 DEF Once, Kept, Decided
  <2>7. Heard' /\ s \notin halfway' => OneWay(s)'
    BY <1>0, <1>a, <2>1, <2>2, <2>3, <2>4, SentPays DEF OneWay, Once, Kept, Decided
  <2>8. Apart => Booked(s)'
    BY <1>0, <1>a, <2>1, <2>2, <2>3, <2>4 DEF Booked, Kept, Booking, Out, Decided
  <2> QED
    BY <2>5, <2>6, <2>7, <2>8
<1> QED
  BY <1>1, <1>2, <1>3, <1>4, <1>5, <1>6, <1>7, <1>8, <1>9, <1>10, <1>11, <1>12, <1>13, <1>14, <1>15,
     <1>16, <1>17, <1>18, <1>19, <1>20 DEF Settle

LEMMA SoundNext == SettleAssumption /\ Typed /\ CloseInv /\ [Next]_vars => CloseInv'
<1> SUFFICES ASSUME SettleAssumption, Typed, CloseInv, [Next]_vars, NEW x \in Subs PROVE Sound(x)'
  BY DEF CloseInv
<1>0. Sound(x)
  BY DEF CloseInv
<1>1. ASSUME NEW s \in Subs, Settle(s) PROVE Sound(x)'
  <2>1. CASE x = s
    BY <1>0, <1>1, <2>1, SoundHere
  <2>2. CASE x # s
    BY <1>0, <1>1, <2>2, Elsewhere, SoundAside
  <2> QED
    BY <2>1, <2>2
<1>2. CASE Close \/ CloseEnd \/ NextDay \/ Crash \/ UNCHANGED vars \/ \E s \in Subs : Credit(s)
  <2>1. /\ UNCHANGED <<row, dtx, rtx, ledger>> /\ (Heard' => Heard) /\ halfway \subseteq halfway'
        /\ \/ Step(x)' = Step(x) /\ was' = was
           \/ /\ Step(x)' \in {"idle", "settle"}
              /\ Step(x) \in {"idle", "settle"} \/ (row[x] = "refunding" => x \in halfway')
        /\ sub'[x] = sub[x] \/ sub'[x] = "in_escrow"
    BY <1>2, Between
  <2>2. /\ tokens'[x] = tokens[x] /\ Holds(x)' = Holds(x)
        /\ Pays(x)' = Pays(x) /\ \A k : Sent(x, k)' = Sent(x, k)
    BY <1>2, Between, Unmoved, Unpaid
  <2>3. Kept(x)'
    BY <1>0, <2>1, <2>2 DEF Sound, Kept
  <2>4. Heard' => Once(x)'
    BY <1>0, <2>1, <2>2 DEF Sound, Once
  <2>5. Heard' /\ x \notin halfway' => OneWay(x)'
    BY <1>0, <2>1, <2>2 DEF Sound, OneWay
  <2>6. Apart => Booked(x)'
    BY <1>0, <2>1, <2>2 DEF Sound, Booked, Out
  <2> QED
    BY <2>3, <2>4, <2>5, <2>6 DEF Sound, Apart
<1> QED
  BY <1>1, <1>2 DEF Next

-----------------------------------------------------------------------------
(* What follows.                                                             *)

\* However a close is interrupted and repeated, and whichever answers are lost, the tokens of a
\* subscription go out at most once, as long as every question about a balance was answered.
THEOREM DeliveredOnce == Spec => []NoDoubleDelivery
<1>1. Init => Typed /\ CloseInv
  BY TypedInit, SoundInit, SettleAssumption
<1>2. Typed /\ CloseInv /\ [Next]_vars => Typed' /\ CloseInv'
  BY TypedNext, SoundNext, SettleAssumption
<1>3. CloseInv => NoDoubleDelivery
  BY DEF CloseInv, Sound, NoDoubleDelivery, Once, Heard
<1> QED
  BY <1>1, <1>2, <1>3, PTL DEF Spec

\* A subscription's money leaves escrow at most once and one way, to the issuer or back, and back only
\* to a subscriber without the tokens, as long as every question was answered and no stop hit its refund:
\* also where investors hold several.
THEOREM LeftOnce == Spec => []PaidOnce
<1>1. Init => Typed /\ CloseInv
  BY TypedInit, SoundInit, SettleAssumption
<1>2. Typed /\ CloseInv /\ [Next]_vars => Typed' /\ CloseInv'
  BY TypedNext, SoundNext, SettleAssumption
<1>3. CloseInv => PaidOnce
  <2> SUFFICES ASSUME CloseInv, Heard, NEW s \in Subs \ halfway
               PROVE  /\ Cardinality(PaidOut(s, {"atomic", "release", "refund"})) <= 1
                      /\ PaidOut(s, {"refund"}) # {} => tokens[s] = 0
    BY DEF PaidOnce, Heard
  <2> DEFINE out == PaidOut(s, {"atomic", "release", "refund"})
  <2>1. \A p, q \in out : p = q
    BY DEF CloseInv, Sound, OneWay, Pays, PaidOut
  <2>2. Cardinality(out) <= 1
    <3>1. CASE out = {}
      BY <3>1, FS_EmptySet
    <3>2. CASE out # {}
      <4>1. PICK p : out = {p}
        BY <2>1, <3>2
      <4> QED
        BY <4>1, FS_Singleton
    <3> QED
      BY <3>1, <3>2
  <2>3. PaidOut(s, {"refund"}) # {} => Sent(s, "refund")
    BY DEF PaidOut, Sent
  <2>4. PaidOut(s, {"refund"}) # {} => tokens[s] = 0
    BY <2>3 DEF CloseInv, Sound, OneWay
  <2> QED
    BY <2>2, <2>4
<1> QED
  BY <1>1, <1>2, <1>3, PTL DEF Spec

\* Where no two subscriptions are of one investor, the books show no release, refund or settlement
\* that was not made, whatever stops, lost answers and unanswered questions there were.
THEOREM BooksTrue == Apart => (Spec => []BookedWasDone)
<1> SUFFICES ASSUME Apart PROVE Spec => []BookedWasDone
  OBVIOUS
<1>1. Init => Typed /\ CloseInv
  BY TypedInit, SoundInit, SettleAssumption
<1>2. Typed /\ CloseInv /\ [Next]_vars => Typed' /\ CloseInv'
  BY TypedNext, SoundNext, SettleAssumption
<1>3. CloseInv => BookedWasDone
  <2> SUFFICES ASSUME CloseInv, NEW s \in Subs
               PROVE  /\ [sub |-> s, kind |-> "release"] \in ledger \/ sub[s] = "settled"
                            => PaidOut(s, {"atomic", "release"}) # {}
                      /\ [sub |-> s, kind |-> "refund"] \in ledger => PaidOut(s, {"refund"}) # {}
    BY DEF BookedWasDone
  <2>1. Out(s) => PaidOut(s, {"atomic", "release"}) # {}
    BY DEF Out, Sent, PaidOut
  <2>2. Sent(s, "refund") => PaidOut(s, {"refund"}) # {}
    BY DEF Sent, PaidOut
  <2> QED
    BY <2>1, <2>2 DEF CloseInv, Sound, Booked
<1> QED
  BY <1>1, <1>2, <1>3, PTL DEF Spec

-----------------------------------------------------------------------------
(* The fee.                                                                  *)

\* The steps at which money is about to leave.
Sending == {"complete", "send", "repay"}

\* What the prices rest on: the clock of a subscription started in the past, a close works on
\* subscriptions that are paid in, and at a payment the price is the deposit less the booked fee.
Priced ==
    /\ TypeOK /\ IsFiniteSet(sends)
    /\ \A s \in Subs : since[s] <= day /\ booked[s] <= Deposit[s]
    /\ \A s \in todo : sub[s] # "created"
    /\ \A s \in Subs : Step(s) = "mark" => row[s] \in {"settled", "refunded"}
    /\ \A s \in Subs : Step(s) \in Sending => amount + booked[s] = Deposit[s]
    /\ FeeFixed

\* The smaller and the larger of two.
LEMMA Ends ==
    \A a, b \in Nat : /\ Min({a, b}) \in Nat /\ Min({a, b}) <= a /\ Min({a, b}) <= b
                      /\ Max({a, b}) \in Nat /\ Max({a, b}) >= a /\ Max({a, b}) >= b
<1> SUFFICES ASSUME NEW a \in Nat, NEW b \in Nat
             PROVE  /\ Min({a, b}) \in Nat /\ Min({a, b}) <= a /\ Min({a, b}) <= b
                    /\ Max({a, b}) \in Nat /\ Max({a, b}) >= a /\ Max({a, b}) >= b
  OBVIOUS
<1>1. \E x \in {a, b} : \A y \in {a, b} : x <= y
  BY a <= b \/ b <= a
<1>2. \E x \in {a, b} : \A y \in {a, b} : x >= y
  BY a <= b \/ b <= a
<1>3. Min({a, b}) \in {a, b} /\ \A y \in {a, b} : Min({a, b}) <= y
  BY <1>1 DEF Min
<1>4. Max({a, b}) \in {a, b} /\ \A y \in {a, b} : Max({a, b}) >= y
  BY <1>2 DEF Max
<1> QED
  BY <1>3, <1>4

LEMMA Quotient == ASSUME NEW a \in Nat, NEW b \in Nat \ {0} PROVE a \div b \in Nat
  OBVIOUS

LEMMA AccruedSum ==
    ASSUME NEW S \in SUBSET Subs, IsFiniteSet(S), \A s \in S : Accrued(s) \in Nat
    PROVE  MapThenSumSet(Accrued, S) \in Nat
<1> DEFINE f == [s \in S |-> Accrued(s)]
           it == CHOOSE h : h = [t \in SUBSET S |-> IF t = {} THEN 0 ELSE Accrued(AnyOf(t)) + h[t \ {AnyOf(t)}]]
<1>1. PICK g : Accumulator(g, f, S)
  BY SomeAccumulates
<1>2. \A t \in SUBSET S : t # {} => f[AnyOf(t)] = Accrued(AnyOf(t))
  BY AnyIn
<1>3. g = [t \in SUBSET S |-> IF t = {} THEN 0 ELSE Accrued(AnyOf(t)) + g[t \ {AnyOf(t)}]]
  <2> HIDE DEF f
  <2> QED
    BY <1>1, <1>2 DEF Accumulator
<1>4. it = [t \in SUBSET S |-> IF t = {} THEN 0 ELSE Accrued(AnyOf(t)) + it[t \ {AnyOf(t)}]]
  BY <1>3
<1>5. Accumulates(it, f, S)
  <2> HIDE DEF f, it
  <2> QED
    BY <1>2, <1>4 DEF Accumulates
<1>6. MapThenSumSet(Accrued, S) = it[S]
  BY DEF MapThenSumSet, MapThenFoldSet, AnyOf
<1>7. SumOf(f, S) = it[S]
  <2> HIDE DEF f, it
  <2> QED
    BY <1>5, SumAccumulated
<1>8. SumOf(f, S) \in Nat
  <2>1. \A s \in S : f[s] \in Nat
    OBVIOUS
  <2> HIDE DEF f
  <2> QED
    BY <2>1, SumNat
<1> QED
  BY <1>6, <1>7, <1>8

\* escrowFeeFor: a price is never more than the deposit.
LEMMA PublishedFits ==
    ASSUME SettleAssumption, Typed, Priced, NEW s \in todo
    PROVE  Published(s) \in Nat /\ Published(s) <= Deposit[s]
<1> DEFINE r == Rail[s]
           all == AllAccrued(r)
           funds == Funds(r)
<1>1. /\ s \in Subs /\ r \in {"usdx", "btc"} /\ Deposit \in [Subs -> Nat \ {0}] /\ MinimumFee[r] \in Nat
      /\ CapBps \in Nat /\ MonthBps \in Nat /\ MonthDays \in Nat \ {0}
  BY DEF SettleAssumption, Typed
<1>2. s \in Group(r) /\ Group(r) \in SUBSET Subs /\ IsFiniteSet(Group(r))
  BY FS_Subset DEF Group, SettleAssumption, Priced, Typed
<1>3. \A x \in Subs : Accrued(x) \in Nat
  <2> SUFFICES ASSUME NEW x \in Subs PROVE Accrued(x) \in Nat
    OBVIOUS
  <2>1. day - since[x] \in Nat /\ Deposit[x] \in Nat
    BY <1>1 DEF Priced, TypeOK, SettleAssumption
  <2>2. Deposit[x] * MonthBps \in Nat
    BY <1>1, <2>1
  <2>3. Deposit[x] * MonthBps * (day - since[x]) \in Nat /\ 10000 * MonthDays \in Nat \ {0}
    BY <1>1, <2>1, <2>2
  <2> QED
    BY <2>3, Quotient DEF Accrued
<1>4. all \in Nat
  BY <1>2, <1>3, AccruedSum DEF AllAccrued
<1>5. funds \in Nat /\ funds >= Deposit[s]
  <2>1. funds = SumOf(Deposit, Group(r))
    BY DEF Funds, SumOf
  <2>2. \A x \in Group(r) : Deposit[x] \in Nat
    BY <1>1, <1>2
  <2>3. SumOf(Deposit, Group(r)) \in Nat /\ SumOf(Deposit, Group(r)) = Deposit[s] + SumOf(Deposit, Group(r) \ {s})
    BY <1>2, <2>2, SumNat
  <2>4. SumOf(Deposit, Group(r) \ {s}) \in Nat
    BY <1>2, <2>2, SumPart
  <2> QED
    BY <1>1, <2>1, <2>3, <2>4
<1> DEFINE cap   == (funds * CapBps) \div 10000
           least == Min({all, cap})
<1>6. Total(r) \in Nat
  <2>1. cap \in Nat
    <3>1. funds * CapBps \in Nat
      BY <1>1, <1>5
    <3> QED
      BY <3>1, Quotient
  <2>2. least \in Nat
    <3> HIDE DEF all, cap
    <3> QED
      BY <1>4, <2>1, Ends
  <2>3. Total(r) = Max({MinimumFee[r], least})
    BY DEF Total
  <2> HIDE DEF least
  <2> QED
    BY <1>1, <2>2, <2>3, Ends
<1> DEFINE owed == IF all > 0 THEN (Total(r) * Accrued(s)) \div all ELSE (Total(r) * Deposit[s]) \div funds
<1>7. owed \in Nat
  <2>1. Total(r) * Accrued(s) \in Nat /\ Total(r) * Deposit[s] \in Nat
    BY <1>1, <1>3, <1>6
  <2>2. funds \in Nat \ {0} /\ (all > 0 => all \in Nat \ {0})
    BY <1>1, <1>4, <1>5
  <2> HIDE DEF all, funds
  <2> QED
    BY <2>1, <2>2, Quotient
<1>8. Published(s) = Min({owed, Deposit[s]})
  BY DEF Published
<1>9. Deposit[s] \in Nat
  BY <1>1
<1> HIDE DEF owed
<1>10. Min({owed, Deposit[s]}) \in Nat /\ Min({owed, Deposit[s]}) <= Deposit[s]
  BY <1>7, <1>9, Ends
<1> QED
  BY <1>8, <1>10

\* What a step of the close does to the fee, the payments and the rows of money.
LEMMA Charges ==
    ASSUME SettleAssumption, Typed, NEW s \in Subs, Kept(s), Settle(s)
    PROVE  /\ day' = day /\ since' = since /\ todo' \subseteq todo /\ s \in todo
           /\ UNCHANGED <<booked, amount>> \/ (FixFee(s) /\ amount' = Net(s) /\ UNCHANGED sends)
           /\ \/ UNCHANGED sends
              \/ /\ Step(s) \in Sending /\ UNCHANGED booked
                 /\ \E kind \in {"atomic", "release", "refund"} : PayOut(s, kind)
           /\ UNCHANGED sub \/ (Step(s) = "mark" /\ sub' = [sub EXCEPT ![s] = row[s]])
           /\ \A e \in ledger' \ ledger : e \in [sub : {s}, kind : {"delivery", "release", "refund"}]
           /\ pc' \in Sending => FixFee(s) /\ amount' = Net(s)
           /\ pc' = "mark" => row'[s] \in {"settled", "refunded"}
<1> USE DEF SettleDecided, SettleResume, AtomicOpen, AtomicComplete, AtomicRecord, AtomicTorn, Deliver,
            Transfer, DeliverRecord, Undelivered, Book, Pay, PaySend, PayRecord, Finish, Mark, Refund,
            RefundSend, RefundBook, RefundRecord
<1>1. day' = day /\ since' = since
  BY DEF Settle, rows
<1>2. First(s) /\ todo' \subseteq todo
  BY DEF Settle, At, Leave, Go
<1>3. UNCHANGED <<booked, amount>> \/ (FixFee(s) /\ amount' = Net(s) /\ UNCHANGED sends)
  BY DEF Settle, rows, world
<1>4. \A step : At(s, step) => Step(s) = step
  BY DEF At, Step
<1>5. \/ UNCHANGED sends
      \/ /\ Step(s) \in Sending /\ UNCHANGED booked
         /\ \E kind \in {"atomic", "release", "refund"} : PayOut(s, kind)
  BY <1>4 DEF Settle, rows, world, Sending
<1>6. UNCHANGED sub \/ (Step(s) = "mark" /\ sub' = [sub EXCEPT ![s] = row[s]])
  BY <1>4 DEF Settle, rows
<1>7. \A e \in ledger' \ ledger : e \in [sub : {s}, kind : {"delivery", "release", "refund"}]
  BY DEF Settle, rows
<1>8. pc' \in Sending => FixFee(s) /\ amount' = Net(s)
  BY DEF Settle, Sending, Go, Leave
<1>9. pc' = "mark" => row'[s] \in {"settled", "refunded"}
  BY <1>4 DEF Settle, Go, Leave, Row, AtomicSettled, Delivered, Typed, Kept, rows
<1> QED
  BY <1>1, <1>2, <1>3, <1>5, <1>6, <1>7, <1>8, <1>9 DEF First

\* The price is booked once, and before the payment.
LEMMA FeeStays ==
    ASSUME SettleAssumption, Typed, Priced, NEW s \in todo, FixFee(s) /\ amount' = Net(s)
    PROVE  /\ booked' \in [Subs -> Nat] /\ (\A x \in Subs : booked'[x] <= Deposit[x])
           /\ amount' \in Nat /\ amount' + booked'[s] = Deposit[s]
           /\ \A x \in Subs : booked[x] = 0 \/ booked'[x] = booked[x]
<1>1. s \in Subs /\ Deposit \in [Subs -> Nat \ {0}] /\ booked \in [Subs -> Nat] /\ booked[s] <= Deposit[s]
  BY DEF Typed, Priced, TypeOK, SettleAssumption
<1>2. Published(s) \in Nat /\ Published(s) <= Deposit[s]
  BY PublishedFits
<1>3. Fee(s) \in Nat /\ Fee(s) <= Deposit[s] /\ (booked[s] = 0 \/ Fee(s) = booked[s])
  BY <1>1, <1>2 DEF Fee
<1>4. booked' = [booked EXCEPT ![s] = Fee(s)] /\ amount' = Deposit[s] - Fee(s)
  BY DEF FixFee, Net
<1>5. booked' \in [Subs -> Nat] /\ booked'[s] = Fee(s) /\ \A x \in Subs \ {s} : booked'[x] = booked[x]
  BY <1>1, <1>3, <1>4
<1>6. amount' \in Nat /\ amount' + booked'[s] = Deposit[s]
  BY <1>1, <1>3, <1>4, <1>5
<1>7. \A x \in Subs : booked'[x] <= Deposit[x]
  BY <1>3, <1>5 DEF Priced
<1> QED
  BY <1>3, <1>5, <1>6, <1>7

LEMMA PaymentStays ==
    ASSUME SettleAssumption, Typed, Priced, NEW s \in Subs, NEW kind \in {"atomic", "release", "refund"},
           Step(s) \in Sending, PayOut(s, kind), UNCHANGED booked
    PROVE  /\ sends' \subseteq [sub : Subs, kind : {"atomic", "release", "refund"}, amount : Nat, nth : Nat \ {0}]
           /\ IsFiniteSet(sends') /\ FeeFixed'
<1> DEFINE nth == Cardinality(PaidOut(s, {kind})) + 1
           new == [sub |-> s, kind |-> kind, amount |-> amount, nth |-> nth]
<1>1. sends' = sends \cup {new}
  BY DEF PayOut
<1>2. nth \in Nat \ {0}
  <2>1. IsFiniteSet(PaidOut(s, {kind}))
    BY FS_Subset DEF PaidOut, Priced
  <2>2. Cardinality(PaidOut(s, {kind})) \in Nat
    BY <2>1, FS_CardinalityType
  <2> QED
    BY <2>2
<1>3. new \in [sub : Subs, kind : {"atomic", "release", "refund"}, amount : Nat, nth : Nat \ {0}]
  BY <1>2 DEF Priced, TypeOK
<1>4. new.sub = s /\ new.amount = amount /\ amount + booked[s] = Deposit[s]
  BY DEF Priced
<1> HIDE DEF new
<1>5. IsFiniteSet(sends')
  BY <1>1, FS_AddElement DEF Priced
<1>6. FeeFixed'
  BY <1>1, <1>4 DEF FeeFixed, Priced
<1> QED
  BY <1>1, <1>3, <1>5, <1>6 DEF Priced, TypeOK

LEMMA PricedNext ==
    ASSUME SettleAssumption, Typed, CloseInv, Priced, [Next]_vars, Typed'
    PROVE  Priced'
<1>1. ASSUME NEW s \in Subs, Settle(s) PROVE Priced'
  <2>1. Kept(s)
    BY DEF CloseInv, Sound
  <2>2. /\ day' = day /\ since' = since /\ todo' \subseteq todo /\ s \in todo
        /\ UNCHANGED <<booked, amount>> \/ (FixFee(s) /\ amount' = Net(s) /\ UNCHANGED sends)
        /\ \/ UNCHANGED sends
           \/ /\ Step(s) \in Sending /\ UNCHANGED booked
              /\ \E kind \in {"atomic", "release", "refund"} : PayOut(s, kind)
        /\ UNCHANGED sub \/ (Step(s) = "mark" /\ sub' = [sub EXCEPT ![s] = row[s]])
        /\ \A e \in ledger' \ ledger : e \in [sub : {s}, kind : {"delivery", "release", "refund"}]
        /\ pc' \in Sending => FixFee(s) /\ amount' = Net(s)
        /\ pc' = "mark" => row'[s] \in {"settled", "refunded"}
    BY <1>1, <2>1, Charges
  <2>3. \A x \in Subs : Step(x)' # "settle" => x = s /\ Step(s)' = pc'
    BY <1>1, Elsewhere DEF Step
  <2>4. /\ booked' \in [Subs -> Nat] /\ (\A x \in Subs : booked'[x] <= Deposit[x]) /\ amount' \in Nat
        /\ \A x \in Subs : booked[x] = 0 \/ booked'[x] = booked[x]
    BY <2>2, FeeStays DEF Priced, TypeOK
  <2>5. pc' \in Sending => amount' + booked'[s] = Deposit[s]
    BY <2>2, FeeStays
  <2>6. sends' \subseteq [sub : Subs, kind : {"atomic", "release", "refund"}, amount : Nat, nth : Nat \ {0}]
        /\ IsFiniteSet(sends') /\ FeeFixed'
    <3>1. CASE UNCHANGED sends
      <4>1. ASSUME NEW p \in sends PROVE p.amount = Deposit[p.sub] \/ p.amount + booked'[p.sub] = Deposit[p.sub]
        <5>1. p.sub \in Subs /\ p.amount \in Nat
          BY DEF Priced, TypeOK
        <5>2. p.amount = Deposit[p.sub] \/ p.amount + booked[p.sub] = Deposit[p.sub]
          BY DEF Priced, FeeFixed
        <5> QED
          BY <2>4, <5>1, <5>2
      <4> QED
        BY <3>1, <4>1 DEF Priced, TypeOK, FeeFixed
    <3>2. CASE Step(s) \in Sending /\ UNCHANGED booked /\ \E kind \in {"atomic", "release", "refund"} : PayOut(s, kind)
      BY <3>2, PaymentStays
    <3> QED
      BY <2>2, <3>1, <3>2
  <2>7. sub' \in [Subs -> {"created", "in_escrow", "settled", "refunded"}] /\ \A x \in Subs : sub[x] # "created" => sub'[x] # "created"
    BY <2>2 DEF Priced, TypeOK
  <2>8. ledger' \subseteq [sub : Subs, kind : {"delivery", "release", "refund"}]
    <3>1. ASSUME NEW e \in ledger' PROVE e \in [sub : Subs, kind : {"delivery", "release", "refund"}]
      <4>1. CASE e \in ledger
        BY <4>1 DEF Priced, TypeOK
      <4>2. CASE e \notin ledger
        BY <2>2, <4>2
      <4> QED
        BY <4>1, <4>2
    <3> QED
      BY <3>1
  <2>9. TypeOK'
    BY <2>2, <2>4, <2>6, <2>7, <2>8 DEF Priced, Typed, TypeOK
  <2>10. /\ \A x \in Subs : since'[x] <= day' /\ booked'[x] <= Deposit[x]
         /\ \A x \in todo' : sub'[x] # "created"
    BY <2>2, <2>4, <2>7 DEF Priced, Typed
  <2>11. /\ \A x \in Subs : Step(x)' = "mark" => row'[x] \in {"settled", "refunded"}
         /\ \A x \in Subs : Step(x)' \in Sending => amount' + booked'[x] = Deposit[x]
    BY <2>2, <2>3, <2>5 DEF Sending
  <2> QED
    BY <2>6, <2>9, <2>10, <2>11 DEF Priced
<1>2. ASSUME \/ Close \/ CloseEnd \/ NextDay \/ Crash \/ UNCHANGED vars \/ \E s \in Subs : Credit(s)
      PROVE  Priced'
  <2>1. /\ UNCHANGED <<sends, row, ledger>>
        /\ \A x \in Subs : \/ Step(x)' = Step(x)
                           \/ Step(x)' \in {"idle", "settle"}
    BY <1>2, Between
  <2>2. booked' = booked
    BY <1>2 DEF Close, CloseEnd, NextDay, Crash, Credit, vars, rows
  <2>3. amount' = amount \/ (amount' = 0 /\ pc' = "idle")
    BY <1>2 DEF Close, CloseEnd, NextDay, Crash, Credit, vars, job
  <2>4. /\ day' \in 0..LastDay /\ since' \in [Subs -> 0..LastDay] /\ \A x \in Subs : since'[x] <= day'
        /\ sub' \in [Subs -> {"created", "in_escrow", "settled", "refunded"}]
        /\ \A x \in Subs : sub[x] # "created" => sub'[x] # "created"
    <3>1. /\ day \in 0..LastDay /\ since \in [Subs -> 0..LastDay] /\ (\A x \in Subs : since[x] <= day)
          /\ sub \in [Subs -> {"created", "in_escrow", "settled", "refunded"}] /\ LastDay \in Nat
      BY DEF Priced, TypeOK, SettleAssumption
    <3>2. ASSUME NEW s \in Subs, Credit(s)
          PROVE  /\ day' \in 0..LastDay /\ since' \in [Subs -> 0..LastDay] /\ \A x \in Subs : since'[x] <= day'
                 /\ sub' \in [Subs -> {"created", "in_escrow", "settled", "refunded"}]
                 /\ \A x \in Subs : sub[x] # "created" => sub'[x] # "created"
      BY <3>1, <3>2 DEF Credit
    <3>3. CASE NextDay
      BY <3>1, <3>3 DEF NextDay, rows
    <3>4. CASE Close \/ CloseEnd \/ Crash \/ UNCHANGED vars
      BY <3>1, <3>4 DEF Close, CloseEnd, Crash, vars, rows
    <3> QED
      BY <1>2, <3>2, <3>3, <3>4
  <2>5. \A x \in todo' : sub'[x] # "created"
    <3>1. todo' \subseteq todo \/ todo' = {x \in Subs : sub[x] = "in_escrow"}
      BY <1>2 DEF Close, CloseEnd, NextDay, Crash, Credit, vars, job
    <3> QED
      BY <2>4, <3>1 DEF Priced, Typed
  <2>6. \A x \in Subs : Step(x)' \in Sending => Step(x) = Step(x)' /\ amount' = amount
    BY <2>1, <2>3 DEF Sending, Step
  <2>7. TypeOK'
    BY <2>1, <2>2, <2>3, <2>4 DEF Priced, Typed, TypeOK
  <2>8. /\ IsFiniteSet(sends') /\ FeeFixed'
        /\ \A x \in Subs : since'[x] <= day' /\ booked'[x] <= Deposit[x]
        /\ \A x \in Subs : Step(x)' = "mark" => row'[x] \in {"settled", "refunded"}
    BY <2>1, <2>2, <2>4 DEF Priced, FeeFixed
  <2>9. \A x \in Subs : Step(x)' \in Sending => amount' + booked'[x] = Deposit[x]
    BY <2>2, <2>6 DEF Priced
  <2> QED
    BY <2>5, <2>7, <2>8, <2>9 DEF Priced
<1> QED
  BY <1>1, <1>2 DEF Next

LEMMA PricedInit == SettleAssumption /\ Init => Priced
<1> SUFFICES ASSUME SettleAssumption, Init PROVE Priced
  OBVIOUS
<1>1. \A s \in Subs : Step(s) \in {"idle", "settle"}
  BY DEF Init, Step
<1>2. TypeOK
  BY DEF Init, TypeOK, SettleAssumption, Rows, Steps
<1>3. IsFiniteSet(sends) /\ FeeFixed
  BY FS_EmptySet DEF Init, FeeFixed
<1> QED
  BY <1>1, <1>2, <1>3 DEF Init, Priced, Sending, SettleAssumption

\* The fee is fixed when it is first charged: whatever leaves a deposit leaves exactly the booked
\* fee behind, on whichever day, in whichever close and after however many stops it is paid
\* (closing.go: escrowFeeFor, recordEscrowFee).
THEOREM FeeChargedOnce == Spec => [](FeeFixed /\ TypeOK)
<1>1. Init => Typed /\ CloseInv /\ Priced
  BY TypedInit, SoundInit, PricedInit, SettleAssumption
<1>2. Typed /\ CloseInv /\ Priced /\ [Next]_vars => Typed' /\ CloseInv' /\ Priced'
  BY TypedNext, SoundNext, PricedNext, SettleAssumption
<1>3. Priced => FeeFixed /\ TypeOK
  BY DEF Priced
<1> QED
  BY <1>1, <1>2, <1>3, PTL DEF Spec

-----------------------------------------------------------------------------
(* The tokens.                                                               *)

\* The balance shows the tokens of every delivery recorded, of one being recorded, and of every
\* subscription whose money went to the issuer.
Shown(s) ==
    /\ dtx[s] => Holds(s)
    /\ Step(s) \in {"record", "landed"} => Holds(s)
    /\ Out(s) => Holds(s)

\* A step of the close records a delivery it made or saw, and pays for one that is recorded.
LEMMA Shows ==
    ASSUME SettleAssumption, Typed, NEW s \in Subs, Settle(s)
    PROVE  /\ Holds(s) => Holds(s)'
           /\ dtx'[s] = dtx[s] \/ Holds(s) \/ Step(s) \in {"record", "landed"}
           /\ pc' \in {"record", "landed"} => Holds(s)'
           /\ \/ UNCHANGED sends
              \/ PayOut(s, "release") /\ Step(s) = "send"
              \/ PayOut(s, "refund")
              \/ PayOut(s, "atomic") /\ Holds(s)'
<1> USE DEF SettleDecided, SettleResume, AtomicOpen, AtomicComplete, AtomicRecord, AtomicTorn, Deliver,
            Transfer, DeliverRecord, Undelivered, Book, Pay, PaySend, PayRecord, Finish, Mark, Refund,
            RefundSend, RefundBook, RefundRecord
<1>1. \A step : At(s, step) => Step(s) = step
  BY DEF At, Step
<1>2. Transferred(s) => Holds(s)' /\ (Holds(s) => Holds(s)')
  BY Moved
<1>3. UNCHANGED <<tokens, balance>> => (Holds(s) => Holds(s)')
  BY DEF Holds
<1>4. Holds(s) => Holds(s)'
  <2>1. UNCHANGED <<tokens, balance>> \/ Transferred(s)
    BY DEF Settle, world
  <2> QED
    BY <1>2, <1>3, <2>1
<1>5. dtx'[s] = dtx[s] \/ Holds(s) \/ Step(s) \in {"record", "landed"}
  BY <1>1, Opened, Torn, Looked, LookedAgain DEF Settle, rows
<1>6. pc' \in {"record", "landed"} => Holds(s)'
  BY <1>2 DEF Settle, Go, Leave
<1>7. \/ UNCHANGED sends
      \/ PayOut(s, "release") /\ Step(s) = "send"
      \/ PayOut(s, "refund")
      \/ PayOut(s, "atomic") /\ Holds(s)'
  BY <1>1, <1>2 DEF Settle, world
<1> QED
  BY <1>4, <1>5, <1>6, <1>7

LEMMA ShownHere ==
    ASSUME SettleAssumption, Typed, NEW s \in Subs, Settle(s), Kept(s), Shown(s)
    PROVE  Shown(s)'
<1>1. /\ Holds(s) => Holds(s)'
      /\ dtx'[s] = dtx[s] \/ Holds(s) \/ Step(s) \in {"record", "landed"}
      /\ pc' \in {"record", "landed"} => Holds(s)'
      /\ \/ UNCHANGED sends
         \/ PayOut(s, "release") /\ Step(s) = "send"
         \/ PayOut(s, "refund")
         \/ PayOut(s, "atomic") /\ Holds(s)'
  BY Shows
<1>2. Step(s)' \in {"record", "landed"} => Holds(s)'
  BY <1>1 DEF Step
<1>3. dtx'[s] => Holds(s)'
  BY <1>1 DEF Shown
<1>4. Out(s)' => Holds(s)'
  <2>1. CASE UNCHANGED sends
    BY <1>1, <2>1, Unpaid DEF Shown, Out
  <2>2. CASE PayOut(s, "release") /\ Step(s) = "send"
    BY <1>1, <2>2 DEF Shown, Kept
  <2>3. CASE PayOut(s, "refund")
    <3>1. Sent(s, "atomic")' = Sent(s, "atomic") /\ Sent(s, "release")' = Sent(s, "release")
      BY <2>3, Paid
    <3> QED
      BY <1>1, <3>1 DEF Shown, Out
  <2>4. CASE PayOut(s, "atomic") /\ Holds(s)'
    BY <2>4
  <2> QED
    BY <1>1, <2>1, <2>2, <2>3, <2>4
<1> QED
  BY <1>2, <1>3, <1>4 DEF Shown

LEMMA ShownNext ==
    ASSUME SettleAssumption, Typed, CloseInv, \A x \in Subs : Shown(x), [Next]_vars
    PROVE  \A x \in Subs : Shown(x)'
<1> SUFFICES ASSUME NEW x \in Subs PROVE Shown(x)'
  OBVIOUS
<1>1. ASSUME NEW s \in Subs, Settle(s) PROVE Shown(x)'
  <2>1. CASE x = s
    BY <1>1, <2>1, ShownHere DEF CloseInv, Sound
  <2>2. CASE x # s
    BY <1>1, <2>2, Elsewhere DEF Shown, Aside, Out
  <2> QED
    BY <2>1, <2>2
<1>2. CASE Close \/ CloseEnd \/ NextDay \/ Crash \/ UNCHANGED vars \/ \E s \in Subs : Credit(s)
  <2>1. /\ UNCHANGED dtx /\ (Step(x)' = Step(x) \/ Step(x)' \in {"idle", "settle"})
        /\ Holds(x)' = Holds(x) /\ \A k : Sent(x, k)' = Sent(x, k)
    BY <1>2, Between, Unmoved, Unpaid
  <2> QED
    BY <2>1 DEF Shown, Out
<1> QED
  BY <1>1, <1>2 DEF Next

\* Where no two subscriptions are of one investor, an investor holds at least the tokens of the
\* subscriptions whose money went to the issuer, whatever stops, lost answers and unanswered
\* questions there were. (Where one investor has two, the balance from the first vouches for the
\* second: the run says so.)
THEOREM Whole == Apart => (Spec => []InvestorWhole)
<1> SUFFICES ASSUME Apart PROVE Spec => []InvestorWhole
  OBVIOUS
<1> DEFINE AllShown == \A x \in Subs : Shown(x)
<1>1. Init => Typed /\ CloseInv /\ AllShown
  <2>1. Init => AllShown
    BY DEF Init, Shown, Step, Out, Sent
  <2> QED
    BY <2>1, TypedInit, SoundInit, SettleAssumption
<1>2. Typed /\ CloseInv /\ AllShown /\ [Next]_vars => Typed' /\ CloseInv' /\ AllShown'
  BY TypedNext, SoundNext, ShownNext, SettleAssumption
<1>3. Typed /\ AllShown => InvestorWhole
  <2> SUFFICES ASSUME Typed, AllShown, NEW i \in Investors
               PROVE  SumOf(Atoms, {s \in Subs : Investor[s] = i /\ PaidOut(s, {"atomic", "release"}) # {}}) <= balance[i]
    BY DEF InvestorWhole, SumOf
  <2> DEFINE done == {s \in Subs : Investor[s] = i /\ PaidOut(s, {"atomic", "release"}) # {}}
  <2>1. balance[i] \in Nat /\ \A s \in Subs : Atoms[s] \in Nat
    BY SettleAssumption DEF Typed, SettleAssumption
  <2>2. CASE done = {}
    BY <2>1, <2>2, SumEmpty
  <2>3. CASE done # {}
    <3>1. PICK s \in Subs : done = {s} /\ Investor[s] = i /\ PaidOut(s, {"atomic", "release"}) # {}
      BY <2>3 DEF Apart
    <3>2. Holds(s)
      BY <3>1 DEF PaidOut, Shown, Out, Sent
    <3>3. SumOf(Atoms, {s}) = Atoms[s]
      BY <2>1, SumOne
    <3> QED
      BY <2>1, <3>1, <3>2, <3>3 DEF Holds
  <2> QED
    BY <2>2, <2>3
<1> QED
  BY <1>1, <1>2, <1>3, PTL DEF Spec
=============================================================================
