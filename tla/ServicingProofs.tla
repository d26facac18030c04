-------------------------- MODULE ServicingProofs --------------------------
(***************************************************************************)
(* Theorems about distributions, refunds and payments to wallets, for any  *)
(* payees, payouts, payments of the service and bounds.                    *)
(***************************************************************************)
EXTENDS Servicing, Sums

-----------------------------------------------------------------------------
(* The payouts and the service's payments.                                  *)

RowStates   == {"none", "left_out", "planned", "pending", "paid", "collected", "returned"}
ClaimStates == {"none", "open", "claimed", "returned"}
PayoutRows  == [st : RowStates, idx : Nat]
PayoutType  == [st : {"none", "planned", "paying", "paid", "complete"}, ref : Refs \cup {"none"},
                rows : [Payees -> PayoutRows]]
ServiceType == [st : {"none", "pending", "void", "released"}, for : Payouts \cup {"none"},
                idx : [Payees -> Nat], claim : [Payees -> ClaimStates]]
PoSteps     == {"idle", "list", "rows", "taken", "index", "follow", "void", "went", "out", "claims"}
PoType      == [pc : PoSteps, p : Payouts \cup {"none"}, todo : SUBSET Payees]

WalletsTyped == payout \in [Payouts -> PayoutType] /\ service \in [Refs -> ServiceType] /\ po \in PoType

Lines(r) == {x \in Payees : service[r].idx[x] # 0}

\* A payment has a claim for each of its lines once it is out, and an index for each line of its own.
ServiceHeld(r) ==
    /\ \A x \in Payees : service[r].claim[x] # "none" <=> service[r].st = "released" /\ service[r].idx[x] # 0
    /\ \A x, y \in Payees : service[r].idx[x] # 0 /\ service[r].idx[x] = service[r].idx[y] => x = y

\* A payout has a reference while a payment is taken for it, which names its list.
PayoutHeld(p) ==
    /\ payout[p].st = "none" => payout[p] = NoPayout
    /\ payout[p].ref # "none" <=> payout[p].st \in {"paying", "paid", "complete"}
    /\ payout[p].ref # "none" => service[payout[p].ref].st # "none" /\ Lines(payout[p].ref) = Listed(p)
    /\ payout[p].st \in {"paid", "complete"} => service[payout[p].ref].st = "released"
    /\ payout[p].st \in {"planned", "paying"} => \A x \in Payees : payout[p].rows[x].st \in {"none", "left_out", "planned", "pending"}
    /\ \A x \in Payees : payout[p].rows[x].st \in {"none", "left_out"} => payout[p].rows[x].idx = 0

RefsApart == \A p, q \in Payouts : payout[p].ref # "none" /\ payout[p].ref = payout[q].ref => p = q

PoHeld ==
    /\ po.pc = "list" => \A p \in Payouts : payout[p].st = "none"
    /\ po.pc \in {"rows", "taken", "index", "follow", "void", "went", "out", "claims"} => po.p \in Payouts
    /\ po.pc \in {"rows", "taken"} => payout[po.p].st = "planned"
    /\ po.pc = "index" => payout[po.p].st = "paying" /\ \A x \in po.todo : payout[po.p].rows[x].st = "planned"
    /\ po.pc = "follow" => payout[po.p].st \in {"paying", "paid"}
    /\ po.pc = "void" => payout[po.p].st = "planned" /\ \A x \in po.todo : payout[po.p].rows[x].st = "pending"
    /\ po.pc = "went" => payout[po.p].st = "paid" /\ \A x \in po.todo : payout[po.p].rows[x].st = "pending"
    /\ po.pc \in {"out", "claims"} => payout[po.p].st = "paid"

WalletsInv == WalletsTyped /\ (\A r \in Refs : ServiceHeld(r)) /\ (\A p \in Payouts : PayoutHeld(p)) /\ RefsApart /\ PoHeld

\* No stop falls among the writes of the indexes of a new payment, or among those that
\* take the indexes of a void one back.
Indexed   == "index" \notin Stops
TakenBack == "void" \notin Stops

\* What the rows say, where indexes are taken back.

At(p, pc, x) == po.pc = pc /\ po.p = p /\ x \in po.todo
RowHeld(p, x) ==
    LET row == payout[p].rows[x] IN
    /\ payout[p].st = "planned" => row.st # "pending" \/ At(p, "void", x)
    /\ row.st = "planned" => row.idx = 0
    /\ payout[p].ref # "none" /\ row.st # "planned" => row.idx = service[payout[p].ref].idx[x]
    /\ row.st = "collected" => service[payout[p].ref].claim[x] = "claimed"
    /\ row.st = "returned"  => service[payout[p].ref].claim[x] = "returned"
    /\ row.st = "paid"      => service[payout[p].ref].claim[x] # "none"
    /\ Indexed => /\ payout[p].st \in {"paying", "paid", "complete"} => row.st # "planned" \/ At(p, "index", x)
                  /\ payout[p].st = "complete" => row.st \in {"none", "left_out", "collected", "returned"}

HoldStates == {"planned", "pending", "paid", "collected"}
HeldOnce == \A p, q \in Payouts, x \in Payees :
                payout[p].rows[x].st \in HoldStates /\ payout[q].rows[x].st \in HoldStates => p = q
RowsInv == (\A p \in Payouts, x \in Payees : RowHeld(p, x)) /\ HeldOnce

-----------------------------------------------------------------------------
(* What each step does to the payouts and the payments.                     *)

Others(p) == \A q \in Payouts : q # p => payout'[q] = payout[q]

LEMMA RowSet ==
    ASSUME WalletsTyped, NEW p \in Payouts, NEW x \in Payees, NEW st \in RowStates, NEW i \in Nat, SetRow(p, x, st, i)
    PROVE  /\ payout' \in [Payouts -> PayoutType] /\ Others(p)
           /\ payout'[p].st = payout[p].st /\ payout'[p].ref = payout[p].ref
           /\ payout'[p].rows[x] = [st |-> st, idx |-> i]
           /\ \A y \in Payees : y # x => payout'[p].rows[y] = payout[p].rows[y]
<1> DEFINE row == [st |-> st, idx |-> i]
           new == [payout[p] EXCEPT !.rows = [payout[p].rows EXCEPT ![x] = row]]
<1>1. row \in PayoutRows
  BY DEF PayoutRows
<1>2. payout[p] \in PayoutType /\ payout[p].rows \in [Payees -> PayoutRows]
  BY DEF WalletsTyped, PayoutType
<1>3. payout' = [payout EXCEPT ![p] = new]
  BY DEF SetRow
<1> HIDE DEF row
<1>4. /\ new \in PayoutType /\ new.st = payout[p].st /\ new.ref = payout[p].ref
      /\ new.rows[x] = row /\ \A y \in Payees : y # x => new.rows[y] = payout[p].rows[y]
  BY <1>1, <1>2 DEF PayoutType
<1> HIDE DEF new
<1>5. payout' \in [Payouts -> PayoutType] /\ payout'[p] = new /\ Others(p)
  BY <1>3, <1>4 DEF WalletsTyped, Others
<1> QED
  BY <1>4, <1>5 DEF row

LEMMA TodoLess ==
    ASSUME po \in PoType, NEW x \in po.todo, NEW next \in PoSteps, RowsDone(x, next)
    PROVE  /\ po' \in PoType
           /\ \/ po'.pc = po.pc /\ po'.p = po.p /\ po'.todo = po.todo \ {x}
              \/ po.todo = {x} /\ po'.pc = next /\ po'.todo = {} /\ (next # "idle" => po'.p = po.p)
<1>1. CASE po.todo # {x}
  BY <1>1 DEF RowsDone, PoType, PoSteps
<1>2. CASE po.todo = {x} /\ next = "idle"
  BY <1>2 DEF RowsDone, PoType, PoSteps, Still
<1>3. CASE po.todo = {x} /\ next # "idle"
  BY <1>3 DEF RowsDone, PoType, PoSteps
<1> QED
  BY <1>1, <1>2, <1>3

LEMMA IdleIsTyped == Still \in PoType /\ Still.pc = "idle"
  BY DEF Still, PoType, PoSteps

\* A payment that is made goes on, and a claim that was collected or returned stays so.
ServiceGrows ==
    \A r \in Refs :
        /\ service[r].st # "none" => service'[r].st # "none" /\ service'[r].idx = service[r].idx
        /\ service[r].st = "released" => service'[r].st = "released"
        /\ \A x \in Payees : /\ service[r].claim[x] # "none" => service'[r].claim[x] # "none"
                             /\ service[r].claim[x] \in {"claimed", "returned"} => service'[r].claim[x] = service[r].claim[x]

\* A payment goes on from what it was.
GoesOn(was, new) ==
    /\ was.st # "none" => new.st # "none" /\ new.idx = was.idx
    /\ was.st = "released" => new.st = "released"
    /\ \A x \in Payees : /\ was.claim[x] # "none" => new.claim[x] # "none"
                         /\ was.claim[x] \in {"claimed", "returned"} => new.claim[x] = was.claim[x]
    /\ \A x \in Payees : new.claim[x] # "none" <=> new.st = "released" /\ new.idx[x] # 0
    /\ \A x, y \in Payees : new.idx[x] # 0 /\ new.idx[x] = new.idx[y] => x = y

\* One payment changes.
LEMMA OnePayment ==
    ASSUME WalletsInv, NEW r \in Refs, NEW new \in ServiceType, service' = [service EXCEPT ![r] = new],
           GoesOn(service[r], new)
    PROVE  service' \in [Refs -> ServiceType] /\ ServiceGrows /\ \A q \in Refs : ServiceHeld(q)'
<1>1. /\ service' \in [Refs -> ServiceType] /\ service'[r] = new
      /\ \A q \in Refs : q # r => service'[q] = service[q]
  BY DEF WalletsInv, WalletsTyped
<1>2. ServiceGrows
  BY <1>1 DEF ServiceGrows, GoesOn
<1>3. ASSUME NEW q \in Refs PROVE ServiceHeld(q)'
  <2>1. CASE q = r
    BY <1>1, <2>1 DEF ServiceHeld, GoesOn
  <2>2. CASE q # r
    BY <1>1, <2>2 DEF WalletsInv, ServiceHeld
  <2> QED
    BY <2>1, <2>2
<1> QED
  BY <1>1, <1>2, <1>3

\* The numbers of a payment's lines are the lines', one each.
LEMMA Numbered ==
    ASSUME NEW lines \in SUBSET Payees, NEW idx \in [Payees -> Nat],
           \A x \in Payees : idx[x] # 0 <=> x \in lines, {idx[x] : x \in lines} = 1..Cardinality(lines)
    PROVE  \A x, y \in Payees : idx[x] # 0 /\ idx[x] = idx[y] => x = y
<1> DEFINE n == Cardinality(lines)
           f == [x \in lines |-> idx[x]]
<1>1. IsFiniteSet(lines) /\ n \in Nat
  BY ServicingAssumption, FS_Subset, FS_CardinalityType
<1>2. f \in Surjection(lines, 1..n)
  BY DEF Surjection
<1>3. Cardinality(1..n) = n
  BY <1>1, FS_Interval
<1>4. f \in Injection(lines, 1..n)
  <2> HIDE DEF f, n
  <2> QED
    BY <1>1, <1>2, <1>3, FS_Surjection DEF n
<1>5. \A x, y \in lines : idx[x] = idx[y] => x = y
  BY <1>4 DEF Injection, IsInjective
<1> QED
  BY <1>5

LEMMA ServiceDoes ==
    ASSUME WalletsInv, Service
    PROVE  /\ service' \in [Refs -> ServiceType] /\ ServiceGrows /\ \A r \in Refs : ServiceHeld(r)'
           /\ UNCHANGED <<kind, funded, state, signed, landed, sends, ex, po, budget>>
<1> DEFINE Does == service' \in [Refs -> ServiceType] /\ ServiceGrows /\ \A r \in Refs : ServiceHeld(r)'
<1>1. ASSUME NEW p \in Payouts, NEW r \in Refs, WalletPays(p, r) PROVE Does
  <2>1. PICK lines \in SUBSET Listed(p), idx \in [Payees -> 0..Cardinality(Payees)] :
               /\ \A x \in Payees : idx[x] # 0 <=> x \in lines
               /\ {idx[x] : x \in lines} = 1..Cardinality(lines)
               /\ service' = [service EXCEPT ![r] = [NoClaims EXCEPT !.st = "pending", !.for = p, !.idx = idx]]
    BY <1>1 DEF WalletPays
  <2> DEFINE new == [NoClaims EXCEPT !.st = "pending", !.for = p, !.idx = idx]
  <2>2. lines \in SUBSET Payees /\ idx \in [Payees -> Nat]
    BY ServicingAssumption, FS_CardinalityType DEF Listed
  <2>3. \A x, y \in Payees : idx[x] # 0 /\ idx[x] = idx[y] => x = y
    BY <2>1, <2>2, Numbered
  <2>4. /\ new \in ServiceType /\ new.st = "pending" /\ new.idx = idx
        /\ \A x \in Payees : new.claim[x] = "none"
    BY <2>2 DEF ServiceType, NoClaims, ClaimStates
  <2>5. service[r].st = "none" /\ \A x \in Payees : service[r].claim[x] = "none"
    BY <1>1 DEF WalletPays, WalletsInv, ServiceHeld
  <2>6. service' = [service EXCEPT ![r] = new]
    BY <2>1
  <2> HIDE DEF new
  <2>7. GoesOn(service[r], new)
    BY <2>3, <2>4, <2>5 DEF GoesOn
  <2> QED
    BY <2>4, <2>6, <2>7, OnePayment
<1>2. ASSUME NEW r \in Refs, Settles(r) PROVE Does
  <2> DEFINE void == [service[r] EXCEPT !.st = "void"]
             claim == [x \in Payees |-> IF service[r].idx[x] # 0 THEN "open" ELSE "none"]
             out == [[service[r] EXCEPT !.st = "released"] EXCEPT !.claim = claim]
  <2>1. /\ service[r] \in ServiceType /\ service[r].st = "pending"
        /\ \A x \in Payees : service[r].claim[x] = "none"
        /\ \A x, y \in Payees : service[r].idx[x] # 0 /\ service[r].idx[x] = service[r].idx[y] => x = y
    BY <1>2 DEF Settles, WalletsInv, WalletsTyped, ServiceHeld
  <2>2. service' = [service EXCEPT ![r] = void] \/ service' = [service EXCEPT ![r] = out]
    BY <1>2 DEF Settles, WalletsInv, WalletsTyped
  <2>3. void \in ServiceType /\ void.st = "void" /\ void.idx = service[r].idx /\ void.claim = service[r].claim
    BY <2>1 DEF ServiceType
  <2>4. claim \in [Payees -> ClaimStates]
    BY DEF ClaimStates
  <2> HIDE DEF claim
  <2>5. out \in ServiceType /\ out.st = "released" /\ out.idx = service[r].idx /\ out.claim = claim
    BY <2>1, <2>4 DEF ServiceType
  <2>6. \A x \in Payees : claim[x] # "none" <=> service[r].idx[x] # 0
    BY DEF claim
  <2> HIDE DEF void, out
  <2>7. CASE service' = [service EXCEPT ![r] = void]
    <3>1. GoesOn(service[r], void)
      BY <2>1, <2>3 DEF GoesOn
    <3> QED
      BY <2>3, <2>7, <3>1, OnePayment
  <2>8. CASE service' = [service EXCEPT ![r] = out]
    <3>1. GoesOn(service[r], out)
      BY <2>1, <2>5, <2>6 DEF GoesOn
    <3> QED
      BY <2>5, <2>8, <3>1, OnePayment
  <2> QED
    BY <2>2, <2>7, <2>8
<1>3. ASSUME NEW r \in Refs, NEW x \in Payees, Resolves(r, x) PROVE Does
  <2>1. PICK c \in {"claimed", "returned"} : service' = [service EXCEPT ![r].claim[x] = c]
    BY <1>3 DEF Resolves
  <2> DEFINE claim == [service[r].claim EXCEPT ![x] = c]
             new == [service[r] EXCEPT !.claim = claim]
  <2>2. service[r] \in ServiceType /\ service[r].claim \in [Payees -> ClaimStates] /\ service[r].claim[x] = "open"
    BY <1>3 DEF Resolves, WalletsInv, WalletsTyped, ServiceType
  <2>3. service' = [service EXCEPT ![r] = new]
    BY <2>1
  <2>4. claim \in [Payees -> ClaimStates] /\ claim[x] = c /\ \A y \in Payees : y # x => claim[y] = service[r].claim[y]
    BY <2>2 DEF ClaimStates
  <2> HIDE DEF claim
  <2>5. new \in ServiceType /\ new.st = service[r].st /\ new.idx = service[r].idx /\ new.claim = claim
    BY <2>2, <2>4 DEF ServiceType
  <2>6. /\ \A y \in Payees : service[r].claim[y] # "none" <=> claim[y] # "none"
        /\ \A y \in Payees : service[r].claim[y] \in {"claimed", "returned"} => claim[y] = service[r].claim[y]
    BY <2>2, <2>4
  <2>7. ServiceHeld(r)
    BY DEF WalletsInv
  <2> HIDE DEF new
  <2>8. GoesOn(service[r], new)
    BY <2>5, <2>6, <2>7 DEF ServiceHeld, GoesOn
  <2> QED
    BY <2>3, <2>5, <2>8, OnePayment
<1>4. UNCHANGED <<kind, funded, state, signed, landed, sends, ex, po, budget>>
  BY DEF Service, WalletPays, Settles, Resolves
<1> QED
  BY <1>1, <1>2, <1>3, <1>4 DEF Service

\* While the payments go on, what the payouts rest on stays.
LEMMA PaymentsKeep ==
    ASSUME WalletsInv, UNCHANGED <<payout, po>>, service' \in [Refs -> ServiceType], ServiceGrows,
           \A r \in Refs : ServiceHeld(r)'
    PROVE  WalletsInv'
<1>1. ASSUME NEW p \in Payouts PROVE PayoutHeld(p)'
  <2>1. payout[p].ref # "none" => payout[p].ref \in Refs
    BY DEF WalletsInv, WalletsTyped, PayoutType
  <2>2. \A r \in Refs : service[r].st # "none" => Lines(r)' = Lines(r)
    BY DEF ServiceGrows, Lines
  <2>3. payout[p].st \in {"paid", "complete"} => payout[p].ref # "none"
    BY DEF WalletsInv, PayoutHeld
  <2> QED
    BY <2>1, <2>2, <2>3 DEF WalletsInv, PayoutHeld, ServiceGrows, Listed
<1>2. RefsApart' /\ PoHeld'
  BY DEF WalletsInv, RefsApart, PoHeld
<1>3. WalletsTyped'
  BY DEF WalletsInv, WalletsTyped
<1> QED
  BY <1>1, <1>2, <1>3 DEF WalletsInv

\* The payouts stay, and the handler moves on.
LEMMA HandlerMoves ==
    ASSUME WalletsInv, UNCHANGED <<payout, service>>, po' \in PoType, PoHeld'
    PROVE  WalletsInv'
  BY DEF WalletsInv, WalletsTyped, ServiceHeld, PayoutHeld, RefsApart, Lines, Listed

\* One payout changes, and no payment.
LEMMA OnePayout ==
    ASSUME WalletsInv, service' = service, NEW p \in Payouts, payout' \in [Payouts -> PayoutType], Others(p),
           PayoutHeld(p)', \A q \in Payouts : q # p /\ payout'[p].ref # "none" => payout[q].ref # payout'[p].ref,
           po' \in PoType, PoHeld'
    PROVE  WalletsInv'
<1>1. ASSUME NEW q \in Payouts PROVE PayoutHeld(q)'
  <2>1. CASE q = p
    BY <2>1
  <2>2. CASE q # p
    BY <2>2 DEF WalletsInv, Others, PayoutHeld, Lines, Listed
  <2> QED
    BY <2>1, <2>2
<1>2. RefsApart'
  BY DEF WalletsInv, RefsApart, Others
<1>3. WalletsTyped' /\ \A r \in Refs : ServiceHeld(r)'
  BY DEF WalletsInv, WalletsTyped, ServiceHeld
<1> QED
  BY <1>1, <1>2, <1>3 DEF WalletsInv

\* The rows of a new payout: planned, left out, or none.
LEMMA RowsPlanned ==
    ASSUME NEW wanted \in SUBSET Payees
    PROVE  /\ PlannedRows(wanted) \in [Payees -> PayoutRows]
           /\ \A x \in Payees : /\ PlannedRows(wanted)[x].st \in {"none", "left_out", "planned"}
                                /\ PlannedRows(wanted)[x].idx = 0
                                /\ PlannedRows(wanted)[x].st = "planned" => x \in wanted
<1>1. ASSUME NEW x \in Payees, NEW st \in {"planned", "left_out"}
      PROVE  NoRow \in PayoutRows /\ [NoRow EXCEPT !.st = st] \in PayoutRows
  BY DEF NoRow, PayoutRows, RowStates
<1>2. ASSUME NEW x \in Payees
      PROVE  /\ PlannedRows(wanted)[x] \in PayoutRows
             /\ PlannedRows(wanted)[x].st \in {"none", "left_out", "planned"}
             /\ PlannedRows(wanted)[x].idx = 0
             /\ PlannedRows(wanted)[x].st = "planned" => x \in wanted
  BY <1>1 DEF PlannedRows, NoRow
<1>3. PlannedRows(wanted) \in [Payees -> PayoutRows]
  BY <1>2 DEF PlannedRows
<1> QED
  BY <1>2, <1>3

\* A payout that did not exist is planned.
LEMMA NewPayout ==
    ASSUME WalletsInv, NEW wanted \in SUBSET Payees, NEW p \in Payouts, payout[p].st = "none",
           payout' = [payout EXCEPT ![p] = [NoPayout EXCEPT !.st = "planned", !.rows = PlannedRows(wanted)]]
    PROVE  /\ Others(p) /\ payout' \in [Payouts -> PayoutType] /\ PayoutHeld(p)'
           /\ payout'[p].st = "planned" /\ payout'[p].ref = "none" /\ payout'[p].rows = PlannedRows(wanted)
<1> DEFINE new == [NoPayout EXCEPT !.st = "planned", !.rows = PlannedRows(wanted)]
<1>2. new \in PayoutType /\ new.st = "planned" /\ new.ref = "none" /\ new.rows = PlannedRows(wanted)
  BY RowsPlanned DEF NoPayout, PayoutType
<1>3. payout' = [payout EXCEPT ![p] = new]
  OBVIOUS
<1> HIDE DEF new
<1>4. payout' \in [Payouts -> PayoutType] /\ payout'[p] = new /\ Others(p)
  BY <1>2, <1>3 DEF WalletsInv, WalletsTyped, Others
<1>5. PayoutHeld(p)'
  <2>1. \A x \in Payees : new.rows[x].st \in {"none", "left_out", "planned"} /\ new.rows[x].idx = 0
    BY <1>2, RowsPlanned
  <2> QED
    BY <1>2, <1>4, <2>1 DEF PayoutHeld
<1> QED
  BY <1>2, <1>4, <1>5

LEMMA FreeIsFree ==
    ASSUME \E p \in Payouts : payout[p].st = "none"
    PROVE  Free \in Payouts /\ payout[Free].st = "none"
  BY DEF Free

\* A payout is planned, for holders no other payout holds.
Planned(p) ==
    /\ payout[p].st = "none" /\ Others(p) /\ payout'[p].st = "planned" /\ payout'[p].ref = "none"
    /\ \A x \in Payees : /\ payout'[p].rows[x].st \in {"none", "left_out", "planned"} /\ payout'[p].rows[x].idx = 0
                         /\ payout'[p].rows[x].st = "planned" => \A q \in Payouts : payout[q].rows[x].st \notin HoldStates

LEMMA PlansDo ==
    ASSUME WalletsInv, ListInsert \/ RefundPlan
    PROVE  /\ WalletsInv' /\ UNCHANGED <<service, returns>> /\ po.pc \in {"list", "idle"} /\ po'.pc \in {"rows", "idle"}
           /\ UNCHANGED payout \/ \E p \in Payouts : Planned(p)
<1>1. CASE ListInsert
  <2> DEFINE holders == {x \in Payees : pay[x].st # "none"}
  <2>1. /\ po.pc = "list" /\ UNCHANGED <<service, returns>>
        /\ \A p \in Payouts : payout[p].st = "none" /\ \A x \in Payees : payout[p].rows[x].st = "none"
    BY <1>1 DEF ListInsert, world, WalletsInv, PoHeld, PayoutHeld, NoPayout, NoRow
  <2>2. CASE po' = Still /\ UNCHANGED payout
    BY <2>1, <2>2, IdleIsTyped, HandlerMoves DEF PoHeld
  <2>3. CASE /\ payout' = [payout EXCEPT ![Free] = [NoPayout EXCEPT !.st = "planned", !.rows = PlannedRows(holders)]]
             /\ po' = [pc |-> "rows", p |-> Free, todo |-> holders]
    <3>1. PICK p \in Payouts : p = Free /\ payout[p].st = "none"
      BY <2>1, ServicingAssumption, FreeIsFree
    <3>2. payout' = [payout EXCEPT ![p] = [NoPayout EXCEPT !.st = "planned", !.rows = PlannedRows(holders)]]
      BY <2>3, <3>1
    <3>3. /\ Others(p) /\ payout' \in [Payouts -> PayoutType] /\ PayoutHeld(p)'
          /\ payout'[p].st = "planned" /\ payout'[p].ref = "none" /\ payout'[p].rows = PlannedRows(holders)
      BY <3>1, <3>2, NewPayout
    <3>4. po' \in PoType /\ PoHeld'
      BY <2>3, <3>1, <3>3 DEF PoType, PoSteps, PoHeld
    <3>5. Planned(p)
      BY <2>1, <3>1, <3>3, RowsPlanned DEF Planned, HoldStates
    <3> QED
      BY <2>1, <2>3, <3>3, <3>4, <3>5, OnePayout
  <2> QED
    BY <1>1, <2>2, <2>3 DEF ListInsert
<1>2. CASE RefundPlan
  <2>1. PICK wanted \in SUBSET Payees :
          /\ {x \in wanted : PlannedRows(wanted)[x].st = "planned"} \cap InRefund = {}
          /\ payout' = [payout EXCEPT ![Free] = [NoPayout EXCEPT !.st = "planned", !.rows = PlannedRows(wanted)]]
    BY <1>2 DEF RefundPlan
  <2>2. PICK p \in Payouts : p = Free /\ payout[p].st = "none"
    BY <1>2, FreeIsFree DEF RefundPlan
  <2>3. payout' = [payout EXCEPT ![p] = [NoPayout EXCEPT !.st = "planned", !.rows = PlannedRows(wanted)]]
    BY <2>1, <2>2
  <2>4. /\ Others(p) /\ payout' \in [Payouts -> PayoutType] /\ PayoutHeld(p)'
        /\ payout'[p].st = "planned" /\ payout'[p].ref = "none" /\ payout'[p].rows = PlannedRows(wanted)
    BY <2>2, <2>3, NewPayout
  <2>5. UNCHANGED <<service, returns, po>> /\ po.pc = "idle"
    BY <1>2 DEF RefundPlan, world
  <2>6. po' \in PoType /\ PoHeld'
    BY <2>5 DEF PoHeld, WalletsInv, WalletsTyped
  <2>7. \A x \in Payees : PlannedRows(wanted)[x].st = "planned" => \A q \in Payouts : payout[q].rows[x].st \notin HoldStates
    BY <2>1, RowsPlanned DEF InRefund, RowsOf, HoldStates
  <2>8. Planned(p)
    BY <2>2, <2>4, <2>7, RowsPlanned DEF Planned
  <2> QED
    BY <2>4, <2>5, <2>6, <2>8, OnePayout
<1> QED
  BY <1>1, <1>2

\* A row of the list is written.
LEMMA RowWritten ==
    ASSUME WalletsInv, NEW p \in Payouts, NEW x \in Payees, x \in Listed(p),
           NEW st \in RowStates \ {"none", "left_out"}, NEW i \in Nat, SetRow(p, x, st, i), service' = service,
           payout[p].st \in {"planned", "paying"} => st \in {"planned", "pending"},
           po' \in PoType, PoHeld'
    PROVE  WalletsInv'
<1>1. /\ payout' \in [Payouts -> PayoutType] /\ Others(p)
      /\ payout'[p].st = payout[p].st /\ payout'[p].ref = payout[p].ref
      /\ payout'[p].rows[x].st = st
      /\ \A y \in Payees : y # x => payout'[p].rows[y] = payout[p].rows[y]
  <2>1. WalletsTyped /\ st \in RowStates
    BY DEF WalletsInv
  <2>2. /\ payout' \in [Payouts -> PayoutType] /\ Others(p)
        /\ payout'[p].st = payout[p].st /\ payout'[p].ref = payout[p].ref
        /\ payout'[p].rows[x] = [st |-> st, idx |-> i]
        /\ \A y \in Payees : y # x => payout'[p].rows[y] = payout[p].rows[y]
    BY <2>1, RowSet
  <2> QED
    BY <2>2
<1>2. Listed(p)' = Listed(p)
  BY <1>1 DEF Listed
<1>3. payout[p].st # "none"
  BY DEF WalletsInv, PayoutHeld, Listed, NoPayout, NoRow
<1>4. PayoutHeld(p)'
  BY <1>1, <1>2, <1>3 DEF WalletsInv, PayoutHeld, Lines
<1>5. \A q \in Payouts : q # p /\ payout'[p].ref # "none" => payout[q].ref # payout'[p].ref
  BY <1>1 DEF WalletsInv, RefsApart
<1> QED
  BY <1>1, <1>4, <1>5, OnePayout

\* A payout may be written in this state with this reference.
Admits(p, st, ref) ==
    /\ payout[p].st # "none"
    /\ st \in {"planned", "paying"} => payout[p].st \in {"planned", "paying"}
    /\ ref # "none" <=> st \in {"paying", "paid"}
    /\ ref # "none" => service[ref].st # "none" /\ Lines(ref) = Listed(p)
    /\ st = "paid" => service[ref].st = "released"
    /\ \A q \in Payouts : q # p /\ ref # "none" => payout[q].ref # ref

\* A payout changes state or reference, and its rows stay.
LEMMA StateWritten ==
    ASSUME WalletsInv, NEW p \in Payouts, NEW st \in {"planned", "paying", "paid"}, NEW ref \in Refs \cup {"none"},
           payout' = [payout EXCEPT ![p] = [st |-> st, ref |-> ref, rows |-> payout[p].rows]], service' = service,
           Admits(p, st, ref)
    PROVE  /\ payout' \in [Payouts -> PayoutType] /\ Others(p) /\ PayoutHeld(p)'
           /\ payout'[p].st = st /\ payout'[p].ref = ref /\ payout'[p].rows = payout[p].rows
           /\ po' \in PoType /\ PoHeld' => WalletsInv'
<1> DEFINE new == [st |-> st, ref |-> ref, rows |-> payout[p].rows]
<1>1. new \in PayoutType /\ new.st = st /\ new.ref = ref /\ new.rows = payout[p].rows
  BY DEF WalletsInv, WalletsTyped, PayoutType
<1> HIDE DEF new
<1>2. payout' \in [Payouts -> PayoutType] /\ payout'[p] = new /\ Others(p)
  BY <1>1 DEF WalletsInv, WalletsTyped, Others, new
<1>3. Listed(p)' = Listed(p)
  BY <1>1, <1>2 DEF Listed
<1>4. PayoutHeld(p)'
  BY <1>1, <1>2, <1>3 DEF WalletsInv, PayoutHeld, Lines, Admits
<1>5. ASSUME po' \in PoType, PoHeld' PROVE WalletsInv'
  BY <1>1, <1>2, <1>4, <1>5, OnePayout DEF Admits
<1> QED
  BY <1>1, <1>2, <1>4, <1>5

LEMMA ReferenceDoes ==
    ASSUME WalletsInv, NEW p \in Payouts, NEW r \in Refs, Reference(p, r)
    PROVE  /\ WalletsInv' /\ Others(p)
           /\ payout'[p].st = "paying" /\ payout'[p].ref = r /\ payout'[p].rows = payout[p].rows
           /\ po'.p = p /\ po'.pc \in {"index", "follow"} /\ po'.todo = RowsOf(p, {"planned"})
           /\ po'.pc = "follow" => po'.todo = {}
<1>1. /\ payout[p].st = "planned" /\ service[r].st \in {"pending", "released"} /\ Lines(r) = Listed(p)
      /\ \A q \in Payouts : payout[q].ref # r
      /\ service' = service
  BY DEF Reference, Exact, Lines, world
<1>2. payout[p] \in PayoutType
  BY DEF WalletsInv, WalletsTyped
<1>3. payout' = [payout EXCEPT ![p] = [st |-> "paying", ref |-> r, rows |-> payout[p].rows]]
  BY <1>2 DEF Reference, PayoutType, WalletsInv, WalletsTyped
<1>4. Admits(p, "paying", r)
  BY <1>1, ServicingAssumption DEF Admits
<1>5. /\ payout'[p].st = "paying" /\ payout'[p].ref = r /\ payout'[p].rows = payout[p].rows /\ Others(p)
      /\ po' \in PoType /\ PoHeld' => WalletsInv'
  BY <1>1, <1>3, <1>4, StateWritten
<1>6. /\ po'.p = p /\ po'.pc \in {"index", "follow"} /\ po'.todo = RowsOf(p, {"planned"})
      /\ po'.pc = "follow" => po'.todo = {}
  BY DEF Reference
<1>7. po' \in PoType
  BY DEF Reference, PoType, PoSteps, RowsOf
<1>8. PoHeld'
  BY <1>5, <1>6 DEF PoHeld, RowsOf
<1> QED
  BY <1>5, <1>6, <1>7, <1>8

LEMMA IndexDoes ==
    ASSUME WalletsInv, IndexRow
    PROVE  /\ WalletsInv' /\ Others(po.p) /\ po.p \in Payouts
           /\ \E x \in po.todo : SetRow(po.p, x, "pending", service[payout[po.p].ref].idx[x]) /\ RowsDone(x, "follow")
<1>1. PICK x \in po.todo : SetRow(po.p, x, "pending", service[payout[po.p].ref].idx[x]) /\ RowsDone(x, "follow")
  BY DEF IndexRow
<1> DEFINE p == po.p
           i == service[payout[p].ref].idx[x]
<1>2. /\ p \in Payouts /\ po.pc = "index" /\ payout[p].st = "paying" /\ po \in PoType /\ x \in Payees
      /\ \A y \in po.todo : payout[p].rows[y].st = "planned"
  BY DEF IndexRow, WalletsInv, PoHeld, WalletsTyped, PoType
<1>3. payout[p].ref \in Refs /\ i \in Nat /\ x \in Listed(p)
  BY <1>2 DEF WalletsInv, WalletsTyped, PayoutType, ServiceType, PayoutHeld, Listed
<1>4. SetRow(p, x, "pending", i) /\ service' = service
  BY <1>1 DEF IndexRow, world
<1>5. po' \in PoType /\ (\/ po'.pc = "index" /\ po'.p = p /\ po'.todo = po.todo \ {x}
                         \/ po'.pc = "follow" /\ po'.todo = {} /\ po'.p = p)
  BY <1>1, <1>2, TodoLess DEF PoSteps
<1> HIDE DEF i, p
<1>6. /\ Others(p) /\ payout'[p].st = "paying" /\ \A y \in Payees : y # x => payout'[p].rows[y] = payout[p].rows[y]
  BY <1>2, <1>3, <1>4, RowSet DEF WalletsInv, RowStates
<1>7. PoHeld'
  BY <1>2, <1>5, <1>6 DEF PoHeld, PoType
<1> QED
  BY <1>1, <1>2, <1>3, <1>4, <1>5, <1>6, <1>7, RowWritten DEF RowStates, p

LEMMA TwoFields ==
    ASSUME WalletsInv, NEW p \in Payouts, NEW st \in {"planned", "paying", "paid"}, NEW ref \in Refs \cup {"none"},
           payout' = [payout EXCEPT ![p].st = st, ![p].ref = ref]
    PROVE  payout' = [payout EXCEPT ![p] = [st |-> st, ref |-> ref, rows |-> payout[p].rows]]
<1>1. payout[p] \in PayoutType /\ payout \in [Payouts -> PayoutType]
  BY DEF WalletsInv, WalletsTyped
<1>2. payout' = [payout EXCEPT ![p] = [[payout[p] EXCEPT !.st = st] EXCEPT !.ref = ref]]
  BY <1>1
<1> DEFINE both == [[payout[p] EXCEPT !.st = st] EXCEPT !.ref = ref]
<1>3. both \in PayoutType /\ both.st = st /\ both.ref = ref /\ both.rows = payout[p].rows
  BY <1>1 DEF PayoutType
<1>4. payout' = [payout EXCEPT ![p] = both]
  BY <1>2
<1> HIDE DEF both
<1>5. both = [st |-> st, ref |-> ref, rows |-> payout[p].rows]
  BY <1>3 DEF PayoutType
<1> QED
  BY <1>4, <1>5

LEMMA VoidDoes ==
    ASSUME WalletsInv, FollowVoid
    PROVE  /\ WalletsInv' /\ Others(po.p) /\ po.p \in Payouts /\ payout[po.p].st = "paying"
           /\ payout'[po.p].st = "planned" /\ payout'[po.p].ref = "none" /\ payout'[po.p].rows = payout[po.p].rows
           /\ \/ po'.pc = "idle" /\ RowsOf(po.p, {"pending"}) = {}
              \/ po'.pc = "void" /\ po'.p = po.p /\ po'.todo = RowsOf(po.p, {"pending"})
<1> DEFINE p == po.p
<1>1. /\ p \in Payouts /\ payout[p].st \in {"paying", "paid"} /\ po \in PoType
      /\ service[payout[p].ref].st = "void" /\ service' = service
  BY DEF FollowVoid, Status, WalletsInv, PoHeld, WalletsTyped, world
<1>2. payout[p].st = "paying"
  BY <1>1 DEF WalletsInv, PayoutHeld
<1>3. payout' = [payout EXCEPT ![p] = [st |-> "planned", ref |-> "none", rows |-> payout[p].rows]]
  <2>1. payout' = [payout EXCEPT ![p].st = "planned", ![p].ref = "none"]
    BY DEF FollowVoid
  <2> HIDE DEF p
  <2> QED
    BY <1>1, <2>1, TwoFields
<1>4. Admits(p, "planned", "none")
  BY <1>2 DEF Admits
<1>5. \/ po' = Still /\ RowsOf(p, {"pending"}) = {}
      \/ po' = [po EXCEPT !.pc = "void", !.todo = RowsOf(p, {"pending"})]
  BY DEF FollowVoid
<1>6. po' \in PoType
  BY <1>1, <1>5, IdleIsTyped DEF PoType, PoSteps, RowsOf
<1>7. \/ po'.pc = "idle" /\ RowsOf(p, {"pending"}) = {}
      \/ po'.pc = "void" /\ po'.p = p /\ po'.todo = RowsOf(p, {"pending"})
  <2> DEFINE todo == RowsOf(p, {"pending"})
  <2>1. todo = RowsOf(p, {"pending"})
    OBVIOUS
  <2> HIDE DEF todo
  <2>2. CASE po' = Still /\ todo = {}
    BY <2>1, <2>2 DEF Still
  <2>3. CASE po' = [po EXCEPT !.pc = "void", !.todo = todo]
    BY <1>1, <2>1, <2>3 DEF PoType
  <2> QED
    BY <1>5, <2>1, <2>2, <2>3
<1> HIDE DEF p
<1>8. /\ payout'[p].st = "planned" /\ payout'[p].ref = "none" /\ payout'[p].rows = payout[p].rows /\ Others(p)
      /\ po' \in PoType /\ PoHeld' => WalletsInv'
  BY <1>1, <1>3, <1>4, StateWritten
<1>9. PoHeld'
  BY <1>1, <1>7, <1>8 DEF PoHeld, RowsOf
<1> QED
  BY <1>1, <1>2, <1>6, <1>7, <1>8, <1>9 DEF p

LEMMA VoidRowDoes ==
    ASSUME WalletsInv, VoidRow
    PROVE  /\ WalletsInv' /\ Others(po.p) /\ po.p \in Payouts
           /\ \E x \in po.todo : SetRow(po.p, x, "planned", 0) /\ RowsDone(x, "idle")
<1>1. PICK x \in po.todo : SetRow(po.p, x, "planned", 0) /\ RowsDone(x, "idle")
  BY DEF VoidRow
<1> DEFINE p == po.p
<1>2. /\ p \in Payouts /\ po.pc = "void" /\ payout[p].st = "planned" /\ po \in PoType /\ x \in Payees
      /\ \A y \in po.todo : payout[p].rows[y].st = "pending"
  BY DEF VoidRow, WalletsInv, PoHeld, WalletsTyped, PoType
<1>3. x \in Listed(p)
  BY <1>2 DEF Listed
<1>4. SetRow(p, x, "planned", 0) /\ service' = service
  BY <1>1 DEF VoidRow, world
<1>5. po' \in PoType /\ (\/ po'.pc = "void" /\ po'.p = p /\ po'.todo = po.todo \ {x}
                         \/ po'.pc = "idle" /\ po'.todo = {})
  BY <1>1, <1>2, TodoLess DEF PoSteps
<1> HIDE DEF p
<1>6. /\ Others(p) /\ payout'[p].st = "planned" /\ \A y \in Payees : y # x => payout'[p].rows[y] = payout[p].rows[y]
  BY <1>2, <1>3, <1>4, RowSet DEF WalletsInv, RowStates
<1>7. PoHeld'
  BY <1>2, <1>5, <1>6 DEF PoHeld, PoType
<1> QED
  BY <1>1, <1>2, <1>3, <1>4, <1>5, <1>6, <1>7, RowWritten DEF RowStates, p

LEMMA OutDoes ==
    ASSUME WalletsInv, FollowOut
    PROVE  /\ WalletsInv' /\ po.p \in Payouts
           /\ \/ /\ payout[po.p].st = "paying" /\ Others(po.p)
                 /\ payout'[po.p].st = "paid" /\ payout'[po.p].ref = payout[po.p].ref
                 /\ payout'[po.p].rows = payout[po.p].rows
              \/ UNCHANGED payout
           /\ po'.pc \in {"out", "went", "claims"}
<1> DEFINE p == po.p
<1>1. /\ p \in Payouts /\ payout[p].st \in {"paying", "paid"} /\ po \in PoType
      /\ service[payout[p].ref].st = "released" /\ service' = service
  BY DEF FollowOut, Status, WalletsInv, PoHeld, WalletsTyped, world
<1>2. CASE payout[p].st = "paying"
  <2>1. payout' = [payout EXCEPT ![p] = [st |-> "paid", ref |-> payout[p].ref, rows |-> payout[p].rows]]
    <3>1. payout[p] \in PayoutType
      BY <1>1 DEF WalletsInv, WalletsTyped
    <3> QED
      BY <1>2, <3>1 DEF FollowOut, PayoutType, WalletsInv, WalletsTyped
  <2>2. payout[p].ref \in Refs \cup {"none"} /\ Admits(p, "paid", payout[p].ref)
    BY <1>1, <1>2 DEF Admits, WalletsInv, WalletsTyped, PayoutType, PayoutHeld, RefsApart
  <2>3. \/ po' = [po EXCEPT !.pc = "out", !.todo = {}]
        \/ po' = [po EXCEPT !.pc = "went", !.todo = RowsOf(p, {"pending"})]
    BY <1>2 DEF FollowOut
  <2>4. /\ po' \in PoType /\ po'.p = p
        /\ po'.pc = "out" \/ (po'.pc = "went" /\ po'.todo = RowsOf(p, {"pending"}))
    BY <1>1, <2>3 DEF PoType, PoSteps, RowsOf
  <2> HIDE DEF p
  <2>5. /\ payout'[p].st = "paid" /\ payout'[p].ref = payout[p].ref /\ payout'[p].rows = payout[p].rows /\ Others(p)
        /\ po' \in PoType /\ PoHeld' => WalletsInv'
    BY <1>1, <2>1, <2>2, StateWritten
  <2>6. PoHeld'
    BY <1>1, <2>4, <2>5 DEF PoHeld, RowsOf
  <2> QED
    BY <1>1, <1>2, <2>4, <2>5, <2>6 DEF p
<1>3. CASE payout[p].st = "paid"
  <2>1. UNCHANGED payout /\ po' = [po EXCEPT !.pc = "claims"]
    BY <1>3 DEF FollowOut
  <2>2. po' \in PoType /\ po'.pc = "claims" /\ po'.p = p
    BY <1>1, <2>1 DEF PoType, PoSteps
  <2>3. PoHeld'
    BY <1>1, <1>3, <2>1, <2>2 DEF PoHeld
  <2> QED
    BY <1>1, <2>1, <2>2, <2>3, HandlerMoves
<1> QED
  BY <1>1, <1>2, <1>3

LEMMA WentDoes ==
    ASSUME WalletsInv, WentRow
    PROVE  /\ WalletsInv' /\ Others(po.p) /\ po.p \in Payouts /\ payout[po.p].st = "paid"
           /\ \E x \in po.todo : /\ SetRow(po.p, x, "paid", payout[po.p].rows[x].idx) /\ RowsDone(x, "out")
                                 /\ ledger' = [ledger EXCEPT ![x] = @ + 1]
                                 /\ kind = "distribution" => SetPay(x, "paid")
                                 /\ kind # "distribution" => UNCHANGED pay
<1>1. PICK x \in po.todo : /\ SetRow(po.p, x, "paid", payout[po.p].rows[x].idx) /\ RowsDone(x, "out")
                           /\ ledger' = [ledger EXCEPT ![x] = @ + 1]
                           /\ IF kind = "distribution" THEN SetPay(x, "paid") ELSE UNCHANGED pay
  BY DEF WentRow
<1> DEFINE p == po.p
           i == payout[p].rows[x].idx
<1>2. /\ p \in Payouts /\ po.pc = "went" /\ payout[p].st = "paid" /\ po \in PoType /\ x \in Payees
      /\ \A y \in po.todo : payout[p].rows[y].st = "pending"
  BY DEF WentRow, WalletsInv, PoHeld, WalletsTyped, PoType
<1>3. i \in Nat /\ x \in Listed(p)
  BY <1>2 DEF WalletsInv, WalletsTyped, PayoutType, PayoutRows, Listed
<1>4. SetRow(p, x, "paid", i) /\ service' = service
  BY <1>1 DEF WentRow, world
<1>5. po' \in PoType /\ (\/ po'.pc = "went" /\ po'.p = p /\ po'.todo = po.todo \ {x}
                         \/ po'.pc = "out" /\ po'.todo = {} /\ po'.p = p)
  BY <1>1, <1>2, TodoLess DEF PoSteps
<1> HIDE DEF i, p
<1>6. /\ Others(p) /\ payout'[p].st = "paid" /\ \A y \in Payees : y # x => payout'[p].rows[y] = payout[p].rows[y]
  BY <1>2, <1>3, <1>4, RowSet DEF WalletsInv, RowStates
<1>7. PoHeld'
  BY <1>2, <1>5, <1>6 DEF PoHeld, PoType
<1>8. WalletsInv'
  BY <1>2, <1>3, <1>4, <1>5, <1>7, RowWritten DEF RowStates
<1> QED
  BY <1>1, <1>2, <1>6, <1>8 DEF p

\* The rows of the claims the service reports in a state.
Seen(st) == UNION {RowAt(po.p, service[payout[po.p].ref].idx[y]) :
                   y \in {z \in Payees : service[payout[po.p].ref].claim[z] = st}}
NewlyBack == Unbooked(po.p, Seen("returned"))

\* A claim is found in a row that has an index, which is a row of the list.
LEMMA SeenIsListed ==
    ASSUME WalletsInv, po.p \in Payouts, NEW st
    PROVE  Seen(st) \subseteq Listed(po.p)
<1>1. \A x \in Payees : payout[po.p].rows[x].idx # 0 => x \in Listed(po.p)
  BY DEF WalletsInv, PayoutHeld, Listed
<1>2. ASSUME NEW i PROVE RowAt(po.p, i) \subseteq Listed(po.p)
  BY <1>1 DEF RowAt
<1> QED
  BY <1>2 DEF Seen

LEMMA ClaimsDoes ==
    ASSUME WalletsInv, FollowClaims
    PROVE  /\ WalletsInv' /\ Others(po.p) /\ po.p \in Payouts /\ payout[po.p].st = "paid" /\ po' = Still
           /\ payout'[po.p].st = IF Seen("open") = {} THEN "complete" ELSE "paid"
           /\ payout'[po.p].ref = payout[po.p].ref
           /\ \A x \in Payees :
                 /\ payout'[po.p].rows[x].idx = payout[po.p].rows[x].idx
                 /\ payout'[po.p].rows[x].st = IF x \in Seen("claimed") THEN "collected"
                                               ELSE IF x \in NewlyBack THEN "returned" ELSE payout[po.p].rows[x].st
           /\ returns' = [x \in Payees |-> IF x \in NewlyBack THEN returns[x] + 1 ELSE returns[x]]
           /\ pay' = [x \in Payees |-> IF x \in NewlyBack /\ kind = "distribution" THEN [pay[x] EXCEPT !.st = "returned"]
                                       ELSE pay[x]]
<1>1. PICK p \in Payouts : p = po.p /\ payout[p].st = "paid" /\ po' = Still /\ service' = service
  BY DEF FollowClaims, WalletsInv, PoHeld, world
<1> DEFINE row(x) == IF x \in Seen("claimed") THEN [payout[p].rows[x] EXCEPT !.st = "collected"]
                     ELSE IF x \in NewlyBack THEN [payout[p].rows[x] EXCEPT !.st = "returned"] ELSE payout[p].rows[x]
           rows == [x \in Payees |-> row(x)]
           st == IF Seen("open") = {} THEN "complete" ELSE "paid"
           mid == [payout[p] EXCEPT !.st = st]
           new == [mid EXCEPT !.rows = rows]
<1>2. payout[p] \in PayoutType /\ payout[p].rows \in [Payees -> PayoutRows]
  BY <1>1 DEF WalletsInv, WalletsTyped, PayoutType
<1>3. /\ payout' = [payout EXCEPT
             ![p].st = IF Seen("open") = {} THEN "complete" ELSE @,
             ![p].rows = [x \in Payees |-> IF x \in Seen("claimed") THEN [@[x] EXCEPT !.st = "collected"]
                                           ELSE IF x \in NewlyBack THEN [@[x] EXCEPT !.st = "returned"]
                                           ELSE @[x]]]
      /\ returns' = [x \in Payees |-> IF x \in NewlyBack THEN returns[x] + 1 ELSE returns[x]]
      /\ pay' = [x \in Payees |-> IF x \in NewlyBack /\ kind = "distribution" THEN [pay[x] EXCEPT !.st = "returned"]
                                  ELSE pay[x]]
  BY <1>1 DEF FollowClaims, Seen, NewlyBack
<1>4. Seen("claimed") \cup NewlyBack \subseteq Listed(p)
  BY <1>1, SeenIsListed DEF NewlyBack, Unbooked
<1>5. ASSUME NEW x \in Payees
      PROVE  /\ row(x) \in PayoutRows /\ row(x).idx = payout[p].rows[x].idx
             /\ row(x).st = IF x \in Seen("claimed") THEN "collected"
                            ELSE IF x \in NewlyBack THEN "returned" ELSE payout[p].rows[x].st
             /\ row(x).st \in {"none", "left_out"} <=> payout[p].rows[x].st \in {"none", "left_out"}
  BY <1>2, <1>4 DEF PayoutRows, RowStates, Listed
<1>6. rows \in [Payees -> PayoutRows] /\ \A x \in Payees : rows[x] = row(x)
  BY <1>5
<1>7. payout' = [payout EXCEPT ![p] = new]
  BY <1>1, <1>2, <1>3 DEF WalletsInv, WalletsTyped, PayoutType
<1> HIDE DEF row
<1> HIDE DEF rows, st
<1>8. /\ new \in PayoutType /\ new.st = st /\ new.ref = payout[p].ref /\ new.rows = rows
  BY <1>2, <1>6 DEF PayoutType, st
<1> HIDE DEF new
<1>9. payout' \in [Payouts -> PayoutType] /\ payout'[p] = new /\ Others(p)
  BY <1>1, <1>7, <1>8 DEF WalletsInv, WalletsTyped, Others
<1>10. Listed(p)' = Listed(p)
  BY <1>5, <1>6, <1>8, <1>9 DEF Listed
<1>11. PayoutHeld(p)'
  BY <1>1, <1>5, <1>6, <1>8, <1>9, <1>10 DEF WalletsInv, PayoutHeld, Lines, st
<1>12. po' \in PoType /\ PoHeld'
  BY <1>1, IdleIsTyped DEF PoHeld
<1>13. \A q \in Payouts : q # p /\ payout'[p].ref # "none" => payout[q].ref # payout'[p].ref
  BY <1>1, <1>8, <1>9 DEF WalletsInv, RefsApart
<1>14. WalletsInv'
  BY <1>1, <1>9, <1>11, <1>12, <1>13, OnePayout
<1> QED
  BY <1>1, <1>3, <1>5, <1>6, <1>8, <1>9, <1>14 DEF st

\* Paying on chain leaves the payouts, their payments and the handler of theirs alone.
LEMMA ChainLeaves ==
    ASSUME Create \/ Fund \/ Chain
    PROVE  UNCHANGED <<payout, returns, service, po, kind, funded>>
<1>1. CASE Create \/ Fund
  BY <1>1 DEF Create, Fund, world
<1>2. CASE SnapshotBegin \/ SnapshotRow \/ SnapshotDone \/ ExecuteBegin \/ PlanRows \/ Submit \/ MarkPaying
  BY <1>2 DEF SnapshotBegin, SnapshotRow, SnapshotDone, ExecuteBegin, PlanRows, Submit, MarkPaying, state, world
<1>3. CASE Broadcast \/ Unreached \/ Refused \/ UndoRow \/ PaidRow \/ PaidAll
  BY <1>3 DEF Broadcast, Unreached, Refused, UndoRow, PaidRow, PaidAll, world
<1>4. CASE EachHolder \/ Send \/ SentRow \/ EachDone
  BY <1>4 DEF EachHolder, Send, SentRow, EachDone, world
<1> QED
  BY <1>1, <1>2, <1>3, <1>4 DEF Chain

\* These move the handler of a payout, and no payout.
Moves == ListBegin \/ ListRow \/ ListDone \/ (\E p \in Payouts : FollowBegin(p)) \/ FollowLater \/ WentOut

LEMMA MovesDo ==
    ASSUME WalletsInv, Moves
    PROVE  /\ WalletsInv' /\ UNCHANGED <<payout, service, returns, kind>>
           /\ po.pc \notin {"index", "void"} /\ po'.pc \notin {"index", "void"}
<1>1. po \in PoType
  BY DEF WalletsInv, WalletsTyped
<1>2. CASE ListBegin
  <2>1. po' = [Still EXCEPT !.pc = "list"] /\ UNCHANGED <<payout, service, returns, kind>> /\ po.pc = "idle"
        /\ \A p \in Payouts : payout[p].st = "none"
    BY <1>2 DEF ListBegin, state, world
  <2>2. po' \in PoType /\ po'.pc = "list"
    BY <2>1 DEF PoType, PoSteps, Still
  <2> QED
    BY <2>1, <2>2, HandlerMoves DEF PoHeld
<1>3. CASE ListRow
  <2>1. PICK x \in po.todo : RowsDone(x, "taken")
    BY <1>3 DEF ListRow
  <2>2. po.pc = "rows" /\ po.p \in Payouts /\ UNCHANGED <<payout, service, returns, kind>>
    BY <1>3 DEF ListRow, world, WalletsInv, PoHeld
  <2>3. po' \in PoType /\ po'.pc \in {"rows", "taken"} /\ po'.p = po.p
    BY <1>1, <2>1, <2>2, TodoLess DEF PoSteps
  <2>4. PoHeld'
    BY <2>2, <2>3 DEF WalletsInv, PoHeld
  <2> QED
    BY <2>2, <2>3, <2>4, HandlerMoves
<1>4. CASE ListDone \/ FollowLater
  <2>1. po' = Still /\ UNCHANGED <<payout, service, returns, kind>> /\ po.pc \in {"taken", "follow"}
    BY <1>4 DEF ListDone, FollowLater, state, world
  <2> QED
    BY <2>1, IdleIsTyped, HandlerMoves DEF PoHeld
<1>5. CASE \E p \in Payouts : FollowBegin(p)
  <2>1. PICK p \in Payouts : FollowBegin(p)
    BY <1>5
  <2>2. /\ po' = [pc |-> "follow", p |-> p, todo |-> {}] /\ UNCHANGED <<payout, service, returns, kind>>
        /\ po.pc = "idle" /\ payout[p].st \in {"paying", "paid"}
    BY <2>1 DEF FollowBegin, state, world
  <2>3. po' \in PoType /\ PoHeld'
    BY <2>2 DEF PoHeld, PoType, PoSteps
  <2> QED
    BY <2>2, <2>3, HandlerMoves
<1>6. CASE WentOut
  <2>1. /\ po' = [po EXCEPT !.pc = "claims"] /\ UNCHANGED <<payout, service, returns, kind>>
        /\ po.pc = "out" /\ po.p \in Payouts /\ payout[po.p].st = "paid"
    BY <1>6 DEF WentOut, world, WalletsInv, PoHeld
  <2>2. po' \in PoType /\ po'.pc = "claims" /\ po'.p = po.p
    BY <1>1, <2>1 DEF PoType, PoSteps
  <2>3. PoHeld'
    BY <2>1, <2>2 DEF PoHeld
  <2> QED
    BY <2>1, <2>2, <2>3, HandlerMoves
<1> QED
  BY <1>2, <1>3, <1>4, <1>5, <1>6 DEF Moves

\* Every step is one of these.
LEMMA Steps ==
    ASSUME Next
    PROVE  \/ Create \/ Fund \/ Chain
           \/ Crash
           \/ ListInsert \/ RefundPlan
           \/ Moves
           \/ Service
           \/ \E p \in Payouts, r \in Refs : Reference(p, r)
           \/ IndexRow \/ FollowVoid \/ VoidRow \/ FollowOut \/ WentRow \/ FollowClaims
  BY DEF Next, Wallets, Follow, Moves

LEMMA WalletsStart ==
    ASSUME Init
    PROVE  WalletsInv
<1>1. NoPayout \in PayoutType /\ NoClaims \in ServiceType /\ NoRow \in PayoutRows
  BY DEF NoPayout, NoRow, NoClaims, PayoutType, ServiceType, PayoutRows, RowStates, ClaimStates
<1>2. WalletsTyped
  BY <1>1, IdleIsTyped DEF Init, WalletsTyped
<1>3. \A p \in Payouts : PayoutHeld(p)
  BY DEF Init, PayoutHeld, NoPayout, NoRow
<1>4. \A r \in Refs : ServiceHeld(r)
  BY DEF Init, ServiceHeld, NoClaims
<1>5. RefsApart /\ PoHeld
  BY IdleIsTyped DEF Init, RefsApart, PoHeld, NoPayout
<1> QED
  BY <1>2, <1>3, <1>4, <1>5 DEF WalletsInv

LEMMA WalletsStep ==
    ASSUME WalletsInv, [Next]_vars
    PROVE  WalletsInv'
<1>1. CASE UNCHANGED vars
  <2>1. UNCHANGED <<payout, service, po>>
    BY <1>1 DEF vars, state, world
  <2> QED
    BY <2>1, HandlerMoves DEF WalletsInv, WalletsTyped, PoHeld
<1>2. CASE Create \/ Fund \/ Chain
  <2>1. UNCHANGED <<payout, service, po>>
    BY <1>2, ChainLeaves
  <2> QED
    BY <2>1, HandlerMoves DEF WalletsInv, WalletsTyped, PoHeld
<1>3. CASE Crash
  <2>1. UNCHANGED <<payout, service>> /\ po' = Still
    BY <1>3 DEF Crash, state, world
  <2> QED
    BY <2>1, IdleIsTyped, HandlerMoves DEF PoHeld
<1>4. CASE Service
  <2>1. UNCHANGED <<payout, po>>
    BY <1>4, ServiceDoes DEF state
  <2> QED
    BY <1>4, <2>1, ServiceDoes, PaymentsKeep
<1>5. CASE ListInsert \/ RefundPlan \/ Moves
  BY <1>5, PlansDo, MovesDo
<1>6. CASE \E p \in Payouts, r \in Refs : Reference(p, r)
  BY <1>6, ReferenceDoes
<1>7. CASE IndexRow \/ FollowVoid \/ VoidRow
  BY <1>7, IndexDoes, VoidDoes, VoidRowDoes
<1>8. CASE FollowOut \/ WentRow \/ FollowClaims
  BY <1>8, OutDoes, WentDoes, ClaimsDoes
<1> QED
  BY <1>1, <1>2, <1>3, <1>4, <1>5, <1>6, <1>7, <1>8, Steps

LEMMA WalletsHold == Spec => []WalletsInv
<1>1. Init => WalletsInv
  BY WalletsStart
<1>2. WalletsInv /\ [Next]_vars => WalletsInv'
  BY WalletsStep
<1> QED
  BY <1>1, <1>2, PTL DEF Spec

-----------------------------------------------------------------------------
(* What the rows say, where indexes are taken back.                         *)

\* The handler is not writing indexes of another payout.
Quiet(p) == \A q \in Payouts, x \in Payees : q # p => ~At(q, "void", x) /\ ~At(q, "index", x)

LEMMA SameService ==
    ASSUME service' = service
    PROVE  ServiceGrows
  BY DEF ServiceGrows

\* Before a payment is taken for it, no row of a payout says what a wallet did.
LEMMA UntakenSaysNothing ==
    ASSUME WalletsInv, NEW p \in Payouts, payout[p].ref = "none", NEW x \in Payees
    PROVE  /\ payout[p].st \in {"none", "planned"}
           /\ payout[p].rows[x].st \in {"none", "left_out", "planned", "pending"}
<1>1. payout[p] \in PayoutType /\ PayoutHeld(p)
  BY DEF WalletsInv, WalletsTyped
<1>2. payout[p].st \in {"none", "planned"}
  BY <1>1 DEF PayoutType, PayoutHeld
<1> QED
  BY <1>1, <1>2 DEF PayoutHeld, NoPayout, NoRow

LEMMA RowKept ==
    ASSUME WalletsInv, NEW p \in Payouts, NEW x \in Payees, RowHeld(p, x), payout'[p] = payout[p], ServiceGrows,
           At(p, "void", x)' <=> At(p, "void", x), Indexed => (At(p, "index", x)' <=> At(p, "index", x))
    PROVE  RowHeld(p, x)'
<1>1. CASE payout[p].ref = "none"
  <2>1. payout[p].rows[x].st \in {"none", "left_out", "planned", "pending"} /\ payout[p].st \in {"none", "planned"}
    BY <1>1, UntakenSaysNothing
  <2> QED
    BY <1>1, <2>1 DEF RowHeld
<1>2. CASE payout[p].ref # "none"
  <2> DEFINE r == payout[p].ref
  <2>1. r \in Refs /\ service[r].st # "none"
    BY <1>2 DEF WalletsInv, WalletsTyped, PayoutType, PayoutHeld
  <2>2. /\ service'[r].idx = service[r].idx
        /\ service[r].claim[x] # "none" => service'[r].claim[x] # "none"
        /\ service[r].claim[x] \in {"claimed", "returned"} => service'[r].claim[x] = service[r].claim[x]
    BY <2>1 DEF ServiceGrows
  <2>3. payout'[p].ref = r
    OBVIOUS
  <2> QED
    BY <2>2, <2>3 DEF RowHeld
<1> QED
  BY <1>1, <1>2

\* No payout changes, and the handler is writing no index, or stays.
LEMMA RowsStay ==
    ASSUME WalletsInv, RowsInv, payout' = payout, ServiceGrows,
           \/ po' = po
           \/ po.pc \notin {"index", "void"} /\ po'.pc \notin {"index", "void"}
           \/ po.pc # "void" /\ po'.pc = "idle" /\ (Indexed => po.pc # "index")
    PROVE  RowsInv'
<1>1. ASSUME NEW p \in Payouts, NEW x \in Payees PROVE RowHeld(p, x)'
  <2>1. (At(p, "void", x)' <=> At(p, "void", x)) /\ (Indexed => (At(p, "index", x)' <=> At(p, "index", x)))
    BY DEF At
  <2> QED
    BY <2>1, RowKept DEF RowsInv
<1>2. HeldOnce'
  BY DEF RowsInv, HeldOnce
<1> QED
  BY <1>1, <1>2 DEF RowsInv

\* One payout changes.
LEMMA RowsMove ==
    ASSUME WalletsInv, RowsInv, NEW p \in Payouts, Others(p), service' = service, Quiet(p), Quiet(p)',
           \A x \in Payees : RowHeld(p, x)',
           \A x \in Payees, q \in Payouts :
               q # p /\ payout'[p].rows[x].st \in HoldStates => payout[q].rows[x].st \notin HoldStates
    PROVE  RowsInv'
<1>1. ASSUME NEW q \in Payouts, NEW x \in Payees, q # p PROVE RowHeld(q, x)'
  <2>1. (At(q, "void", x)' <=> At(q, "void", x)) /\ (At(q, "index", x)' <=> At(q, "index", x))
    BY <1>1 DEF Quiet
  <2> QED
    BY <1>1, <2>1, RowKept, SameService DEF RowsInv, Others
<1>2. HeldOnce'
  BY DEF RowsInv, HeldOnce, Others
<1> QED
  BY <1>1, <1>2 DEF RowsInv

\* The rows of a payout still hold those they held.
LEMMA HoldsNoMore ==
    ASSUME RowsInv, NEW p \in Payouts,
           \A x \in Payees : payout'[p].rows[x].st \in HoldStates => payout[p].rows[x].st \in HoldStates
    PROVE  \A x \in Payees, q \in Payouts :
               q # p /\ payout'[p].rows[x].st \in HoldStates => payout[q].rows[x].st \notin HoldStates
  BY DEF RowsInv, HeldOnce

LEMMA RowsOfPlans ==
    ASSUME WalletsInv, RowsInv, ListInsert \/ RefundPlan
    PROVE  RowsInv'
<1>1. /\ UNCHANGED service /\ po.pc \in {"list", "idle"} /\ po'.pc \in {"rows", "idle"}
      /\ UNCHANGED payout \/ \E p \in Payouts : Planned(p)
  BY PlansDo
<1>2. CASE UNCHANGED payout
  BY <1>1, <1>2, RowsStay, SameService
<1>3. ASSUME NEW p \in Payouts, Planned(p) PROVE RowsInv'
  <2>1. \A x \in Payees : RowHeld(p, x)'
    BY <1>1, <1>3 DEF Planned, RowHeld
  <2>2. Quiet(p) /\ Quiet(p)'
    BY <1>1 DEF Quiet, At
  <2>3. \A x \in Payees, q \in Payouts :
            q # p /\ payout'[p].rows[x].st \in HoldStates => payout[q].rows[x].st \notin HoldStates
    BY <1>3 DEF Planned, HoldStates
  <2> QED
    BY <1>1, <1>3, <2>1, <2>2, <2>3, RowsMove DEF Planned
<1> QED
  BY <1>1, <1>2, <1>3

LEMMA RowsOfReference ==
    ASSUME WalletsInv, RowsInv, NEW p \in Payouts, NEW r \in Refs, Reference(p, r)
    PROVE  RowsInv'
<1>1. /\ Others(p) /\ payout'[p].st = "paying" /\ payout'[p].ref = r /\ payout'[p].rows = payout[p].rows
      /\ po'.p = p /\ po'.pc \in {"index", "follow"} /\ po'.todo = RowsOf(p, {"planned"})
      /\ po'.pc = "follow" => po'.todo = {}
  BY ReferenceDoes
<1>2. payout[p].st = "planned" /\ po.pc = "idle" /\ service' = service /\ Lines(r) = Listed(p) /\ PayoutHeld(p)
  BY DEF Reference, world, WalletsInv, Exact, Lines
<1>3. ASSUME NEW x \in Payees PROVE RowHeld(p, x)'
  <2>1. /\ payout[p].rows[x].st \in {"none", "left_out", "planned"} /\ payout[p].rows[x].idx = 0
        /\ payout[p].rows[x].st \in {"none", "left_out"} => service[r].idx[x] = 0
    BY <1>2 DEF RowsInv, RowHeld, At, PayoutHeld, Lines, Listed
  <2>2. payout[p].rows[x].st = "planned" => At(p, "index", x)'
    BY <1>1, <2>1 DEF At, RowsOf
  <2> QED
    BY <1>1, <1>2, <2>1, <2>2 DEF RowHeld
<1>4. Quiet(p) /\ Quiet(p)'
  BY <1>1, <1>2 DEF Quiet, At
<1>5. \A x \in Payees, q \in Payouts :
            q # p /\ payout'[p].rows[x].st \in HoldStates => payout[q].rows[x].st \notin HoldStates
  BY <1>1, HoldsNoMore
<1> QED
  BY <1>1, <1>2, <1>3, <1>4, <1>5, RowsMove

LEMMA RowsOfIndex ==
    ASSUME WalletsInv, RowsInv, IndexRow
    PROVE  RowsInv'
<1>1. PICK p \in Payouts : p = po.p /\ Others(p)
  BY IndexDoes
<1>2. PICK x \in po.todo : SetRow(p, x, "pending", service[payout[p].ref].idx[x]) /\ RowsDone(x, "follow")
  BY <1>1, IndexDoes
<1> DEFINE i == service[payout[p].ref].idx[x]
<1>3. /\ po.pc = "index" /\ payout[p].st = "paying" /\ po \in PoType /\ x \in Payees /\ service' = service
      /\ payout[p].ref \in Refs /\ i \in Nat /\ payout[p].rows[x].st = "planned"
  BY <1>1 DEF IndexRow, WalletsInv, PoHeld, WalletsTyped, PoType, PayoutType, ServiceType, PayoutHeld, world
<1>4. po'.pc \in {"index", "follow"} /\ (po'.pc = "index" => po'.p = p /\ po'.todo = po.todo \ {x})
                                     /\ (po'.pc = "follow" => po.todo = {x})
  BY <1>1, <1>2, <1>3, TodoLess DEF PoSteps
<1>5. /\ payout'[p].st = "paying" /\ payout'[p].ref = payout[p].ref
      /\ payout'[p].rows[x] = [st |-> "pending", idx |-> i]
      /\ \A y \in Payees : y # x => payout'[p].rows[y] = payout[p].rows[y]
  <2> HIDE DEF i
  <2>1. SetRow(p, x, "pending", i)
    BY <1>2 DEF i
  <2> QED
    BY <1>3, <2>1, RowSet DEF WalletsInv, RowStates
<1>6. ASSUME NEW y \in Payees PROVE RowHeld(p, y)'
  <2>1. CASE y = x
    BY <1>3, <1>5, <2>1 DEF RowHeld
  <2>2. CASE y # x
    <3>1. At(p, "index", y)' <=> At(p, "index", y)
      BY <1>1, <1>3, <1>4, <2>2 DEF At, PoType
    <3>2. RowHeld(p, y) /\ ~At(p, "void", y)
      BY <1>3 DEF RowsInv, At
    <3> QED
      BY <1>3, <1>5, <2>2, <3>1, <3>2 DEF RowHeld
  <2> QED
    BY <2>1, <2>2
<1>7. Quiet(p) /\ Quiet(p)'
  BY <1>1, <1>3, <1>4 DEF Quiet, At
<1>8. \A y \in Payees : payout'[p].rows[y].st \in HoldStates => payout[p].rows[y].st \in HoldStates
  BY <1>3, <1>5 DEF HoldStates
<1> QED
  BY <1>1, <1>3, <1>6, <1>7, <1>8, HoldsNoMore, RowsMove

LEMMA RowsOfVoid ==
    ASSUME WalletsInv, RowsInv, FollowVoid
    PROVE  RowsInv'
<1>1. PICK p \in Payouts :
        /\ p = po.p /\ Others(p) /\ payout[p].st = "paying"
        /\ payout'[p].st = "planned" /\ payout'[p].ref = "none" /\ payout'[p].rows = payout[p].rows
        /\ \/ po'.pc = "idle" /\ RowsOf(p, {"pending"}) = {}
           \/ po'.pc = "void" /\ po'.p = p /\ po'.todo = RowsOf(p, {"pending"})
  BY VoidDoes
<1>2. po.pc = "follow" /\ service' = service /\ PayoutHeld(p)
  BY DEF FollowVoid, world, WalletsInv
<1>3. ASSUME NEW x \in Payees PROVE RowHeld(p, x)'
  <2>1. /\ payout[p].rows[x].st \in {"none", "left_out", "planned", "pending"}
        /\ payout[p].rows[x].st \in {"none", "left_out", "planned"} => payout[p].rows[x].idx = 0
    BY <1>1, <1>2 DEF RowsInv, RowHeld, At, PayoutHeld
  <2>2. payout[p].rows[x].st = "pending" => At(p, "void", x)'
    BY <1>1 DEF At, RowsOf
  <2> QED
    BY <1>1, <2>1, <2>2 DEF RowHeld
<1>4. Quiet(p) /\ Quiet(p)'
  BY <1>1, <1>2 DEF Quiet, At
<1> QED
  BY <1>1, <1>2, <1>3, <1>4, HoldsNoMore, RowsMove

LEMMA RowsOfVoidRow ==
    ASSUME WalletsInv, RowsInv, VoidRow
    PROVE  RowsInv'
<1>1. PICK p \in Payouts : p = po.p /\ Others(p)
  BY VoidRowDoes
<1>2. PICK x \in po.todo : SetRow(p, x, "planned", 0) /\ RowsDone(x, "idle")
  BY <1>1, VoidRowDoes
<1>3. /\ po.pc = "void" /\ payout[p].st = "planned" /\ po \in PoType /\ x \in Payees /\ service' = service
      /\ payout[p].rows[x].st = "pending" /\ payout[p].ref = "none"
  BY <1>1 DEF VoidRow, WalletsInv, PoHeld, WalletsTyped, PoType, PayoutHeld, world
<1>4. po'.pc \in {"void", "idle"} /\ (po'.pc = "void" => po'.p = p /\ po'.todo = po.todo \ {x})
                                  /\ (po'.pc = "idle" => po.todo = {x})
  BY <1>1, <1>2, <1>3, TodoLess DEF PoSteps
<1>5. /\ payout'[p].st = "planned" /\ payout'[p].ref = "none"
      /\ payout'[p].rows[x] = [st |-> "planned", idx |-> 0]
      /\ \A y \in Payees : y # x => payout'[p].rows[y] = payout[p].rows[y]
  BY <1>2, <1>3, RowSet DEF WalletsInv, RowStates
<1>6. ASSUME NEW y \in Payees PROVE RowHeld(p, y)'
  <2>1. CASE y = x
    BY <1>5, <2>1 DEF RowHeld
  <2>2. CASE y # x
    <3>1. At(p, "void", y)' <=> At(p, "void", y)
      BY <1>1, <1>3, <1>4, <2>2 DEF At, PoType
    <3>2. RowHeld(p, y) /\ payout[p].rows[y].st \in {"none", "left_out", "planned", "pending"}
      BY <1>3 DEF RowsInv, WalletsInv, PayoutHeld
    <3> QED
      BY <1>3, <1>5, <2>2, <3>1, <3>2 DEF RowHeld
  <2> QED
    BY <2>1, <2>2
<1>7. Quiet(p) /\ Quiet(p)'
  BY <1>1, <1>3, <1>4 DEF Quiet, At
<1>8. \A y \in Payees : payout'[p].rows[y].st \in HoldStates => payout[p].rows[y].st \in HoldStates
  BY <1>3, <1>5 DEF HoldStates
<1> QED
  BY <1>1, <1>3, <1>6, <1>7, <1>8, HoldsNoMore, RowsMove

LEMMA RowsOfOut ==
    ASSUME WalletsInv, RowsInv, FollowOut
    PROVE  RowsInv'
<1>1. PICK p \in Payouts :
        /\ p = po.p
        /\ \/ /\ payout[p].st = "paying" /\ Others(p)
              /\ payout'[p].st = "paid" /\ payout'[p].ref = payout[p].ref /\ payout'[p].rows = payout[p].rows
           \/ UNCHANGED payout
        /\ po'.pc \in {"out", "went", "claims"}
  BY OutDoes
<1>2. po.pc = "follow" /\ service' = service
  BY DEF FollowOut, world
<1>3. CASE UNCHANGED payout
  BY <1>1, <1>2, <1>3, RowsStay, SameService
<1>4. CASE /\ payout[p].st = "paying" /\ Others(p)
           /\ payout'[p].st = "paid" /\ payout'[p].ref = payout[p].ref /\ payout'[p].rows = payout[p].rows
  <2>1. ASSUME NEW x \in Payees PROVE RowHeld(p, x)'
    <3>1. RowHeld(p, x) /\ ~At(p, "index", x)
      BY <1>2 DEF RowsInv, At
    <3> QED
      BY <1>2, <1>4, <3>1 DEF RowHeld
  <2>2. Quiet(p) /\ Quiet(p)'
    BY <1>1, <1>2 DEF Quiet, At
  <2> QED
    BY <1>2, <1>4, <2>1, <2>2, HoldsNoMore, RowsMove
<1> QED
  BY <1>1, <1>3, <1>4

\* Once a payment is out, every row of the list has a claim.
LEMMA PaidHasClaims ==
    ASSUME WalletsInv, NEW p \in Payouts, payout[p].st = "paid", NEW x \in Payees
    PROVE  /\ payout[p].ref \in Refs
           /\ service[payout[p].ref].claim[x] # "none" <=> payout[p].rows[x].st \notin {"none", "left_out"}
<1>1. PayoutHeld(p) /\ payout[p].ref \in Refs
  BY DEF WalletsInv, WalletsTyped, PayoutType, PayoutHeld
<1>2. ServiceHeld(payout[p].ref)
  BY <1>1 DEF WalletsInv
<1> QED
  BY <1>1, <1>2 DEF PayoutHeld, ServiceHeld, Lines, Listed

LEMMA RowsOfWent ==
    ASSUME WalletsInv, RowsInv, WentRow
    PROVE  RowsInv'
<1>1. PICK p \in Payouts : p = po.p /\ Others(p) /\ payout[p].st = "paid"
  BY WentDoes
<1>2. PICK x \in po.todo : SetRow(p, x, "paid", payout[p].rows[x].idx) /\ RowsDone(x, "out")
  BY <1>1, WentDoes
<1> DEFINE i == payout[p].rows[x].idx
<1>3. /\ po.pc = "went" /\ po \in PoType /\ x \in Payees /\ service' = service
      /\ payout[p].rows[x].st = "pending" /\ i \in Nat
  BY <1>1 DEF WentRow, WalletsInv, PoHeld, WalletsTyped, PoType, PayoutType, PayoutRows, world
<1>4. po'.pc \in {"went", "out"}
  BY <1>1, <1>2, <1>3, TodoLess DEF PoSteps
<1>5. /\ payout'[p].st = "paid" /\ payout'[p].ref = payout[p].ref
      /\ payout'[p].rows[x] = [st |-> "paid", idx |-> i]
      /\ \A y \in Payees : y # x => payout'[p].rows[y] = payout[p].rows[y]
  <2> HIDE DEF i
  <2>1. SetRow(p, x, "paid", i)
    BY <1>2 DEF i
  <2> QED
    BY <1>1, <1>3, <2>1, RowSet DEF WalletsInv, RowStates
<1>6. ASSUME NEW y \in Payees PROVE RowHeld(p, y)'
  <2>1. RowHeld(p, y) /\ ~At(p, "index", y) /\ payout[p].ref # "none"
    BY <1>1, <1>3 DEF RowsInv, At, WalletsInv, PayoutHeld
  <2>2. CASE y = x
    <3>1. service[payout[p].ref].claim[x] # "none"
      BY <1>1, <1>3, PaidHasClaims
    <3> QED
      BY <1>1, <1>3, <1>5, <2>1, <2>2, <3>1 DEF RowHeld
  <2>3. CASE y # x
    BY <1>1, <1>3, <1>5, <2>1, <2>3 DEF RowHeld
  <2> QED
    BY <2>2, <2>3
<1>7. Quiet(p) /\ Quiet(p)'
  BY <1>3, <1>4 DEF Quiet, At
<1>8. \A y \in Payees : payout'[p].rows[y].st \in HoldStates => payout[p].rows[y].st \in HoldStates
  BY <1>3, <1>5 DEF HoldStates
<1> QED
  BY <1>1, <1>3, <1>6, <1>7, <1>8, HoldsNoMore, RowsMove

\* The rows found for claims are the rows of those wallets, and where every row has its
\* index they are found for all.
LEMMA SeenTrue ==
    ASSUME WalletsInv, RowsInv, po.p \in Payouts, payout[po.p].st = "paid", po.pc = "claims",
           NEW st \in {"open", "claimed", "returned"}
    PROVE  /\ \A x \in Seen(st) : /\ x \in Payees /\ service[payout[po.p].ref].claim[x] = st
                                  /\ payout[po.p].rows[x].st \notin {"none", "left_out", "planned"}
           /\ Indexed => \A x \in Payees : service[payout[po.p].ref].claim[x] = st => x \in Seen(st)
<1> DEFINE p == po.p
           r == payout[p].ref
           idx(x) == payout[p].rows[x].idx
<1>1. r \in Refs /\ ServiceHeld(r) /\ r # "none"
  BY ServicingAssumption DEF WalletsInv, WalletsTyped, PayoutType, PayoutHeld
<1>2. ASSUME NEW x \in Payees
      PROVE  /\ idx(x) \in {0, service[r].idx[x]} /\ (Indexed => idx(x) = service[r].idx[x])
             /\ payout[p].rows[x].st \in {"none", "left_out", "planned"} => idx(x) = 0
  <2>1. RowHeld(p, x) /\ PayoutHeld(p) /\ ~At(p, "index", x)
    BY DEF RowsInv, WalletsInv, At
  <2> QED
    BY <1>1, <2>1 DEF RowHeld, PayoutHeld
<1>3. ASSUME NEW y \in Payees, service[r].claim[y] = st
      PROVE  /\ service[r].idx[y] # 0
             /\ \A x \in RowAt(p, service[r].idx[y]) : x = y /\ idx(x) # 0
             /\ Indexed => y \in RowAt(p, service[r].idx[y])
  <2>1. service[r].idx[y] # 0
    BY <1>1, <1>3 DEF ServiceHeld
  <2>2. \A x \in Payees : idx(x) = service[r].idx[y] => x = y
    BY <1>1, <1>2, <2>1 DEF ServiceHeld
  <2>3. Indexed => idx(y) = service[r].idx[y]
    BY <1>2
  <2>4. Rank[y] <= Rank[y]
    BY ServicingAssumption
  <2> QED
    BY <2>1, <2>2, <2>3, <2>4 DEF RowAt
<1>4. Seen(st) = UNION {RowAt(p, service[r].idx[y]) : y \in {z \in Payees : service[r].claim[z] = st}}
  BY DEF Seen
<1>5. \A x \in Seen(st) : x \in Payees /\ service[r].claim[x] = st /\ idx(x) # 0
  <2> HIDE DEF p, r, idx
  <2> QED
    BY <1>3, <1>4 DEF RowAt
<1>6. Indexed => \A x \in Payees : service[r].claim[x] = st => x \in Seen(st)
  <2> HIDE DEF p, r, idx
  <2> QED
    BY <1>3, <1>4
<1> QED
  BY <1>2, <1>5, <1>6

LEMMA RowsOfClaims ==
    ASSUME WalletsInv, RowsInv, FollowClaims
    PROVE  RowsInv'
<1>1. PICK p \in Payouts :
        /\ p = po.p /\ Others(p) /\ payout[p].st = "paid" /\ po' = Still
        /\ payout'[p].st = IF Seen("open") = {} THEN "complete" ELSE "paid"
        /\ payout'[p].ref = payout[p].ref
        /\ \A x \in Payees :
              /\ payout'[p].rows[x].idx = payout[p].rows[x].idx
              /\ payout'[p].rows[x].st = IF x \in Seen("claimed") THEN "collected"
                                         ELSE IF x \in NewlyBack THEN "returned" ELSE payout[p].rows[x].st
  BY ClaimsDoes
<1> DEFINE claim(x) == service[payout[p].ref].claim[x]
<1>2. po.pc = "claims" /\ service' = service
  BY DEF FollowClaims, world
<1>3. ASSUME NEW st \in {"open", "claimed", "returned"}
      PROVE  /\ \A x \in Seen(st) : claim(x) = st /\ payout[p].rows[x].st \notin {"none", "left_out", "planned"}
             /\ Indexed => \A x \in Payees : claim(x) = st => x \in Seen(st)
  BY <1>1, <1>2, SeenTrue
<1>4. NewlyBack = {x \in Seen("returned") : payout[p].rows[x].st # "returned"}
  BY <1>1 DEF NewlyBack, Unbooked
<1>5. ASSUME NEW x \in Payees
      PROVE  /\ claim(x) \in ClaimStates /\ (claim(x) # "none" <=> payout[p].rows[x].st \notin {"none", "left_out"})
             /\ RowHeld(p, x) /\ ~At(p, "index", x) /\ payout[p].ref # "none"
  <2>1. payout[p].ref \in Refs /\ (claim(x) # "none" <=> payout[p].rows[x].st \notin {"none", "left_out"})
    BY <1>1, PaidHasClaims
  <2>2. claim(x) \in ClaimStates
    BY <2>1 DEF WalletsInv, WalletsTyped, ServiceType
  <2> QED
    BY <1>2, <2>1, <2>2, ServicingAssumption DEF RowsInv, At
<1>6. ASSUME NEW x \in Payees
      PROVE  \/ payout'[p].rows[x].st = "collected" /\ claim(x) = "claimed" /\ payout[p].rows[x].st # "planned"
             \/ payout'[p].rows[x].st = "returned" /\ claim(x) = "returned" /\ payout[p].rows[x].st # "planned"
             \/ /\ payout'[p].rows[x].st = payout[p].rows[x].st
                /\ Indexed => /\ claim(x) # "claimed" /\ (claim(x) = "returned" => payout[p].rows[x].st = "returned")
                              /\ claim(x) = "open" => payout'[p].st = "paid"
  BY <1>1, <1>3, <1>4
<1>7. ASSUME NEW x \in Payees PROVE RowHeld(p, x)'
  <2> DEFINE old == payout[p].rows[x].st
             new == payout'[p].rows[x].st
             idx == payout[p].rows[x].idx
             ref == payout[p].ref
  <2>1. /\ payout'[p].st \in {"paid", "complete"} /\ payout'[p].rows[x].idx = idx /\ payout'[p].ref = ref
        /\ ref # "none" /\ service' = service /\ claim(x) \in ClaimStates
        /\ claim(x) # "none" <=> old \notin {"none", "left_out"}
    BY <1>1, <1>2, <1>5
  <2>2. /\ old = "planned" => idx = 0
        /\ old # "planned" => idx = service[ref].idx[x]
        /\ old = "collected" => claim(x) = "claimed"
        /\ old = "returned" => claim(x) = "returned"
        /\ old = "paid" => claim(x) # "none"
        /\ Indexed => old # "planned"
    BY <1>1, <1>5 DEF RowHeld
  <2>3. new = "planned" => old = "planned"
    BY <1>6
  <2>4. /\ new = "planned" => idx = 0
        /\ new # "planned" => idx = service[ref].idx[x]
    BY <1>6, <2>2
  <2>5. /\ new = "collected" => claim(x) = "claimed"
        /\ new = "returned" => claim(x) = "returned"
        /\ new = "paid" => claim(x) # "none"
        /\ Indexed => new # "planned"
    BY <1>6, <2>2
  <2>6. Indexed /\ payout'[p].st = "complete" => new \in {"none", "left_out", "collected", "returned"}
    <3>1. SUFFICES ASSUME Indexed, payout'[p].st = "complete"
                   PROVE  new \in {"none", "left_out", "collected", "returned"}
      OBVIOUS
    <3>2. claim(x) \in {"none", "claimed", "returned"} \/ new \in {"collected", "returned"}
      BY <1>6, <2>1, <3>1 DEF ClaimStates
    <3> QED
      BY <1>6, <2>1, <3>1, <3>2
  <2> HIDE DEF claim
  <2> QED
    BY <2>1, <2>4, <2>5, <2>6 DEF RowHeld, claim
<1>8. Quiet(p) /\ Quiet(p)'
  BY <1>1, <1>2 DEF Quiet, At, Still
<1>9. \A x \in Payees : payout'[p].rows[x].st \in HoldStates => payout[p].rows[x].st \in HoldStates
  <2>1. ASSUME NEW x \in Payees, claim(x) = "claimed" PROVE payout[p].rows[x].st \in HoldStates
    BY <1>1, <1>5, <2>1 DEF RowHeld, HoldStates, WalletsInv, WalletsTyped, PayoutType, PayoutRows, RowStates
  <2> QED
    BY <1>6, <2>1 DEF HoldStates
<1> QED
  BY <1>1, <1>2, <1>7, <1>8, <1>9, HoldsNoMore, RowsMove

LEMMA RowsStart ==
    ASSUME Init
    PROVE  RowsInv
  BY DEF Init, RowsInv, RowHeld, HeldOnce, HoldStates, NoPayout, NoRow, At

LEMMA RowsStep ==
    ASSUME TakenBack, WalletsInv, RowsInv, [Next]_vars
    PROVE  RowsInv'
<1>1. CASE UNCHANGED vars
  <2>1. UNCHANGED <<payout, service, po>>
    BY <1>1 DEF vars, state, world
  <2> QED
    BY <2>1, RowsStay, SameService
<1>2. CASE Create \/ Fund \/ Chain
  BY <1>2, ChainLeaves, RowsStay, SameService
<1>3. CASE Crash
  <2>1. UNCHANGED <<payout, service>> /\ po'.pc = "idle" /\ po.pc # "void" /\ (Indexed => po.pc # "index")
    BY <1>3 DEF Crash, state, world, Still, TakenBack, Indexed
  <2> QED
    BY <2>1, RowsStay, SameService
<1>4. CASE Service
  <2>1. UNCHANGED <<payout, po>> /\ ServiceGrows
    BY <1>4, ServiceDoes DEF state
  <2> QED
    BY <2>1, RowsStay
<1>5. CASE ListInsert \/ RefundPlan
  BY <1>5, RowsOfPlans
<1>6. CASE Moves
  BY <1>6, MovesDo, RowsStay, SameService
<1>7. CASE \E p \in Payouts, r \in Refs : Reference(p, r)
  BY <1>7, RowsOfReference
<1>8. CASE IndexRow \/ FollowVoid \/ VoidRow
  BY <1>8, RowsOfIndex, RowsOfVoid, RowsOfVoidRow
<1>9. CASE FollowOut \/ WentRow \/ FollowClaims
  BY <1>9, RowsOfOut, RowsOfWent, RowsOfClaims
<1> QED
  BY <1>1, <1>2, <1>3, <1>4, <1>5, <1>6, <1>7, <1>8, <1>9, Steps

LEMMA RowsHold ==
    ASSUME TakenBack
    PROVE  Spec => []RowsInv
<1>1. Init => RowsInv
  BY RowsStart
<1>2. WalletsInv /\ RowsInv /\ [Next]_vars => RowsInv'
  BY RowsStep
<1> QED
  BY <1>1, <1>2, WalletsHold, PTL DEF Spec

\* A set of which no two members differ has one at most.
LEMMA AtMostOne ==
    ASSUME NEW S, \A a, b \in S : a = b
    PROVE  IsFiniteSet(S) /\ Cardinality(S) <= 1
<1>1. CASE S = {}
  BY <1>1, FS_EmptySet
<1>2. CASE S # {}
  <2>1. PICK a \in S : TRUE
    BY <1>2
  <2>2. S = {a}
    BY <2>1
  <2>3. IsFiniteSet({a}) /\ Cardinality({a}) = 1
    BY FS_Singleton
  <2> QED
    BY <2>2, <2>3
<1> QED
  BY <1>1, <1>2

\* A payment that went to a payee and did not come back is held by a row of its payout.
LEMMA StandingIsHeld ==
    ASSUME WalletsInv, RowsInv, NEW x \in Payees, NEW r \in WentTo(x) \ Returned(x)
    PROVE  \E p \in Payouts : payout[p].ref = r /\ payout[p].rows[x].st \in HoldStates
<1>1. PICK p \in Payouts : payout[p].ref = r
  BY DEF WentTo, Recorded
<1>2. r \in Refs /\ r # "none" /\ service[r].claim[x] \notin {"none", "returned"}
  BY ServicingAssumption DEF WentTo, Returned, Recorded
<1>3. x \in Lines(r)
  BY <1>2 DEF WalletsInv, ServiceHeld, Lines
<1>4. x \in Listed(p)
  BY <1>1, <1>2, <1>3 DEF WalletsInv, PayoutHeld
<1>5. payout[p].rows[x].st # "returned"
  BY <1>1, <1>2 DEF RowsInv, RowHeld
<1>6. payout[p].rows[x].st \in RowStates
  BY DEF WalletsInv, WalletsTyped, PayoutType, PayoutRows
<1> QED
  BY <1>1, <1>4, <1>5, <1>6 DEF Listed, RowStates, HoldStates

\* The payments recorded here leave a holder, or a subscription, one allocation at most,
\* returned ones apart, whatever the order in which the issuer's wallet pays, payments
\* prove void, lists are paid again and subscriptions refunded (payouts.go:
\* handleCreateRefund, matchPayment, handlePayoutReference, followPayout), as long as
\* the process does not stop among the writes that take the indexes of a void payment back.
THEOREM OneAllocationStands ==
    ASSUME TakenBack
    PROVE  Spec => []WalletOnce
<1>1. ASSUME WalletsInv, RowsInv PROVE WalletOnce
  <2>1. ASSUME NEW x \in Payees PROVE ByWallet(x) <= 1
    <3>1. ASSUME NEW a \in WentTo(x) \ Returned(x), NEW b \in WentTo(x) \ Returned(x) PROVE a = b
      <4>1. PICK p \in Payouts : payout[p].ref = a /\ payout[p].rows[x].st \in HoldStates
        BY <1>1, StandingIsHeld
      <4>2. PICK q \in Payouts : payout[q].ref = b /\ payout[q].rows[x].st \in HoldStates
        BY <1>1, StandingIsHeld
      <4> QED
        BY <1>1, <4>1, <4>2 DEF RowsInv, HeldOnce
    <3> QED
      BY <3>1, AtMostOne DEF ByWallet
  <2> QED
    BY <2>1 DEF WalletOnce
<1> QED
  BY <1>1, WalletsHold, RowsHold, PTL

\* The rows of a payout say of each wallet what its own allocation did, and a complete
\* payout has heard of every wallet on its list (followPayout, payoutWentOut), as long as
\* the process stops neither among the writes of the indexes of a new payment nor among
\* those that take the indexes of a void one back.
THEOREM RowsSayWhatHappened ==
    ASSUME Indexed, TakenBack
    PROVE  Spec => []RowsTrue
<1>1. RowsInv => RowsTrue
  BY DEF RowsInv, RowHeld, RowsTrue
<1> QED
  BY <1>1, RowsHold, PTL

-----------------------------------------------------------------------------
(* The run, its rows, and what is on chain.                                 *)

\* The amounts a snapshot may record.
Shares == {0} \cup {Gross(reg, x) : reg \in Registers, x \in Payees}
              \cup {Gross(reg, x) - Withheld(x, Gross(reg, x)) : reg \in Registers, x \in Payees}
PayRows   == [st : PayStates, gross : Shares, net : Shares]
ShareRows == Payees \X [st : {"pending"}, gross : Shares, net : Shares]
ExSteps   == {"idle", "snapshot", "one", "mark", "broadcast", "undo", "paid", "each", "send", "sent"}
ExType    == [pc : ExSteps, todo : SUBSET (Payees \cup ShareRows), was : SUBSET Payees, tx : Nat,
              at : Payees \cup {"none"}]
Counts    == [Payees -> Nat]

ExHeld ==
    /\ ex.pc = "snapshot" => ex.todo \subseteq ShareRows
    /\ ex.pc # "snapshot" => ex.todo \subseteq Payees
    /\ ex.pc \in {"send", "sent"} => ex.at \in Payees
    /\ ex.pc \in {"mark", "broadcast", "paid"} => ex.tx \in DOMAIN signed

ChainTyped ==
    /\ signed \in Seq(SUBSET Payees) /\ landed \subseteq DOMAIN signed /\ ptx \in {0} \cup DOMAIN signed
    /\ sends \in Counts /\ ledger \in Counts /\ returns \in Counts
    /\ pay \in [Payees -> PayRows] /\ funded \in BOOLEAN /\ ex \in ExType /\ ExHeld

\* One row changes its state.
Becomes(x, st) == /\ pay' \in [Payees -> PayRows] /\ pay'[x].st = st /\ pay'[x].net = pay[x].net
                  /\ \A y \in Payees : y # x => pay'[y] = pay[y]
\* One payment more is counted.
OneMore(f, g, x) == g \in Counts /\ g[x] = f[x] + 1 /\ \A y \in Payees : y # x => g[y] = f[y]
\* The handler moves on, with what it read.
ExMoves(pc, todo) == ex' \in ExType /\ ex'.pc = pc /\ ex'.todo = todo /\ ex'.was = ex.was /\ ex'.tx = ex.tx

LEMMA PaySet ==
    ASSUME ChainTyped, NEW x \in Payees, NEW st \in PayStates, SetPay(x, st)
    PROVE  Becomes(x, st)
<1> DEFINE new == [pay[x] EXCEPT !.st = st]
<1>1. pay[x] \in PayRows /\ pay \in [Payees -> PayRows]
  BY DEF ChainTyped
<1>2. new \in PayRows /\ new.st = st /\ new.net = pay[x].net
  BY <1>1 DEF PayRows
<1>3. pay' = [pay EXCEPT ![x] = new]
  BY DEF SetPay
<1> HIDE DEF new
<1> QED
  BY <1>1, <1>2, <1>3 DEF Becomes

LEMMA CountOne ==
    ASSUME NEW f \in Counts, NEW x \in Payees
    PROVE  OneMore(f, [f EXCEPT ![x] = @ + 1], x)
  BY DEF OneMore, Counts

LEMMA ExGoes ==
    ASSUME ChainTyped, NEW pc \in ExSteps, NEW todo \in SUBSET (Payees \cup ShareRows),
           ex' = [[ex EXCEPT !.pc = pc] EXCEPT !.todo = todo]
    PROVE  ExMoves(pc, todo) /\ ex'.at = ex.at
  BY DEF ChainTyped, ExType, ExMoves

LEMMA IdleTyped == /\ Idle \in ExType /\ Idle.pc = "idle" /\ Idle.todo = {} /\ Idle.was = {} /\ Idle.tx = 0
  BY DEF Idle, ExType, ExSteps

LEMMA TypedFrame ==
    ASSUME ChainTyped, UNCHANGED <<signed, landed, sends, ptx, funded>>, pay' \in [Payees -> PayRows],
           ledger' \in Counts, returns' \in Counts, ex' \in ExType, ExHeld'
    PROVE  ChainTyped'
  BY DEF ChainTyped

LEMMA SnapshotsDo ==
    ASSUME ChainTyped, SnapshotBegin \/ SnapshotRow \/ SnapshotDone
    PROVE  /\ ChainTyped' /\ UNCHANGED <<kind, funded, ptx, signed, landed, sends, ledger, returns, payout, po, budget>>
           /\ \/ ex.pc = "idle" /\ run \in {"open", "funded"} /\ ex'.pc = "snapshot" /\ UNCHANGED <<run, pay>>
              \/ ex.pc = "snapshot" /\ ex'.pc = "snapshot" /\ UNCHANGED run
                 /\ \E x \in Payees : /\ pay'[x].st = "pending" /\ pay'[x] \in PayRows
                                      /\ \A y \in Payees : y # x => pay'[y] = pay[y]
              \/ ex.pc = "snapshot" /\ run' = "snapshotted" /\ ex' = Idle /\ UNCHANGED pay
<1>1. CASE SnapshotBegin
  <2>1. PICK reg \in Registers :
          ex' = [Idle EXCEPT !.pc = "snapshot", !.todo = {<<x, Snapshotted(reg, x)>> : x \in Unrecorded(reg)}]
    BY <1>1 DEF SnapshotBegin
  <2>2. ASSUME NEW x \in Payees PROVE Snapshotted(reg, x) \in [st : {"pending"}, gross : Shares, net : Shares]
    BY DEF Snapshotted, Shares
  <2>3. \A x \in Unrecorded(reg) : <<x, Snapshotted(reg, x)>> \in ShareRows
    BY <2>2 DEF Unrecorded, ShareRows
  <2> DEFINE todo == {<<x, Snapshotted(reg, x)>> : x \in Unrecorded(reg)}
  <2>4. todo \in SUBSET ShareRows
    BY <2>3
  <2>5. ex' = [[Idle EXCEPT !.pc = "snapshot"] EXCEPT !.todo = todo]
    BY <2>1
  <2> HIDE DEF todo
  <2>6. ex' \in ExType /\ ex'.pc = "snapshot" /\ ex'.todo = todo
    BY <2>4, <2>5 DEF Idle, ExType, ExSteps
  <2>7. /\ UNCHANGED <<kind, funded, run, ptx, pay, signed, landed, sends, ledger, returns, payout, po, budget>>
        /\ ex.pc = "idle" /\ run \in {"open", "funded"}
    BY <1>1 DEF SnapshotBegin, state, world
  <2>8. ChainTyped'
    BY <2>4, <2>6, <2>7, TypedFrame DEF ChainTyped, ExHeld
  <2> QED
    BY <2>6, <2>7, <2>8
<1>2. CASE SnapshotRow
  <2>1. PICK row \in ex.todo : pay' = [pay EXCEPT ![row[1]] = row[2]] /\ ex' = [ex EXCEPT !.todo = @ \ {row}]
    BY <1>2 DEF SnapshotRow
  <2>2. /\ UNCHANGED <<kind, funded, run, ptx, signed, landed, sends, ledger, returns, payout, po, budget>>
        /\ ex.pc = "snapshot"
    BY <1>2 DEF SnapshotRow, world
  <2>3. row[1] \in Payees /\ row[2] \in PayRows /\ row[2].st = "pending"
    BY <2>1, <2>2 DEF ChainTyped, ExHeld, ShareRows, PayRows, PayStates
  <2>4. /\ pay' \in [Payees -> PayRows] /\ pay'[row[1]] = row[2]
        /\ \A y \in Payees : y # row[1] => pay'[y] = pay[y]
    BY <2>1, <2>3 DEF ChainTyped
  <2>5. ex' \in ExType /\ ex'.pc = "snapshot" /\ ex'.todo = ex.todo \ {row}
    BY <2>1, <2>2 DEF ChainTyped, ExType
  <2>6. ChainTyped'
    BY <2>2, <2>4, <2>5, TypedFrame DEF ChainTyped, ExHeld
  <2> QED
    BY <2>2, <2>3, <2>4, <2>5, <2>6
<1>3. CASE SnapshotDone
  <2>1. /\ UNCHANGED <<kind, funded, ptx, pay, signed, landed, sends, ledger, returns, payout, po, budget>>
        /\ ex.pc = "snapshot" /\ run' = "snapshotted" /\ ex' = Idle
    BY <1>3 DEF SnapshotDone, world
  <2>2. ChainTyped'
    BY <2>1, IdleTyped, TypedFrame DEF ChainTyped, ExHeld
  <2> QED
    BY <2>1, <2>2
<1> QED
  BY <1>1, <1>2, <1>3

LEMMA ExecuteDoes ==
    ASSUME ChainTyped, ExecuteBegin
    PROVE  /\ ChainTyped' /\ ex.pc = "idle" /\ run \in {"snapshotted", "paying"} /\ kind = "distribution"
           /\ (\A p \in Payouts : payout[p].st = "none") /\ (Overlap \/ po.pc = "idle")
           /\ UNCHANGED <<kind, funded, ptx, pay, signed, landed, sends, ledger, returns, payout, po, budget>>
           /\ run' = IF funded THEN "paying" ELSE run
           /\ \/ /\ funded /\ ex'.pc = "each" /\ ex'.was = RowsIn({"paying"})
                 /\ ex'.todo = RowsIn({"pending", "planned", "paying", "failed", "returned"})
              \/ ~funded /\ run = "paying" /\ ptx # 0 /\ ex'.pc = "broadcast" /\ ex'.tx = ptx /\ ex'.was = {} /\ ex'.todo = {}
              \/ ~funded /\ (run = "snapshotted" \/ ptx = 0) /\ ex'.pc = "one" /\ ex'.todo = {}
<1> DEFINE pc   == IF funded THEN "each" ELSE IF run = "paying" /\ ptx # 0 THEN "broadcast" ELSE "one"
           tx   == IF run = "paying" THEN ptx ELSE 0
           todo == IF funded THEN RowsIn({"pending", "planned", "paying", "failed", "returned"}) ELSE {}
           was  == IF funded THEN RowsIn({"paying"}) ELSE {}
<1>1. /\ ex.pc = "idle" /\ run \in {"snapshotted", "paying"} /\ kind = "distribution"
      /\ (\A p \in Payouts : payout[p].st = "none") /\ (Overlap \/ po.pc = "idle")
      /\ UNCHANGED <<kind, funded, ptx, pay, signed, landed, sends, ledger, returns, payout, po, budget>>
      /\ run' = IF funded THEN "paying" ELSE run
      /\ ex' = [Idle EXCEPT !.pc = pc, !.tx = tx, !.todo = todo, !.was = was]
  BY DEF ExecuteBegin, world
<1>2. pc \in ExSteps /\ tx \in Nat /\ todo \in SUBSET Payees /\ was \in SUBSET Payees
  BY DEF ExSteps, ChainTyped, RowsIn
<1>3. ex' = [pc |-> pc, todo |-> todo, was |-> was, tx |-> tx, at |-> "none"]
  <2> HIDE DEF pc, tx, todo, was
  <2> QED
    BY <1>1 DEF Idle
<1> HIDE DEF pc, tx, todo, was
<1>4. ex' \in ExType /\ ex'.pc = pc /\ ex'.todo = todo /\ ex'.was = was /\ ex'.tx = tx
  BY <1>2, <1>3 DEF ExType
<1>5. ChainTyped'
  <2>1. pc \in {"each", "broadcast", "one"} /\ (pc = "broadcast" => tx \in DOMAIN signed)
    BY DEF ChainTyped, pc, tx
  <2>2. ExHeld'
    BY <1>1, <1>2, <1>4, <2>1 DEF ExHeld
  <2> QED
    BY <1>1, <1>4, <2>2, TypedFrame DEF ChainTyped
<1>6. \/ /\ funded /\ ex'.pc = "each" /\ ex'.was = RowsIn({"paying"})
         /\ ex'.todo = RowsIn({"pending", "planned", "paying", "failed", "returned"})
      \/ ~funded /\ run = "paying" /\ ptx # 0 /\ ex'.pc = "broadcast" /\ ex'.tx = ptx /\ ex'.was = {} /\ ex'.todo = {}
      \/ ~funded /\ (run = "snapshotted" \/ ptx = 0) /\ ex'.pc = "one" /\ ex'.todo = {}
  BY <1>1, <1>4 DEF pc, tx, todo, was
<1> QED
  BY <1>1, <1>5, <1>6

LEMMA PlanRowsDoes ==
    ASSUME ChainTyped, PlanRows
    PROVE  /\ ChainTyped' /\ ex.pc = "one" /\ ex' = Idle
           /\ UNCHANGED <<kind, funded, run, ptx, signed, landed, sends, ledger, returns, payout, po>>
           /\ \A x \in Payees : \/ pay'[x] = pay[x]
                                \/ /\ pay[x].st \in {"pending", "failed"} /\ pay'[x].net = pay[x].net
                                   /\ pay'[x].st \in {"failed", "no_payment", "skipped", "planned"}
<1>1. PICK failed \in SUBSET Payees :
        pay' = [x \in Payees |-> IF pay[x].st \notin {"pending", "failed"} THEN pay[x]
                                 ELSE [pay[x] EXCEPT !.st = IF x \in failed THEN "failed" ELSE Routed(x)]]
  BY DEF PlanRows, RowsIn
<1>2. /\ UNCHANGED <<kind, funded, run, ptx, signed, landed, sends, ledger, returns, payout, po>>
      /\ ex.pc = "one" /\ ex' = Idle
  BY DEF PlanRows, world
<1>3. ASSUME NEW x \in Payees
      PROVE  /\ pay'[x] \in PayRows
             /\ \/ pay'[x] = pay[x]
                \/ /\ pay[x].st \in {"pending", "failed"} /\ pay'[x].net = pay[x].net
                   /\ pay'[x].st \in {"failed", "no_payment", "skipped", "planned"}
  <2> DEFINE st == IF x \in failed THEN "failed" ELSE Routed(x)
  <2>1. st \in {"failed", "no_payment", "skipped", "planned"}
    BY DEF Routed
  <2>2. pay[x] \in PayRows
    BY DEF ChainTyped
  <2>3. pay'[x] = IF pay[x].st \notin {"pending", "failed"} THEN pay[x] ELSE [pay[x] EXCEPT !.st = st]
    BY <1>1
  <2> HIDE DEF st
  <2> QED
    BY <2>1, <2>2, <2>3 DEF PayRows, PayStates
<1>4. pay' \in [Payees -> PayRows]
  BY <1>1, <1>3
<1>5. ChainTyped'
  BY <1>2, <1>4, IdleTyped, TypedFrame DEF ChainTyped, ExHeld
<1> QED
  BY <1>2, <1>3, <1>5

LEMMA SubmitDoes ==
    ASSUME ChainTyped, Submit
    PROVE  /\ ChainTyped' /\ ex.pc = "one" /\ run' = "paying"
           /\ UNCHANGED <<kind, funded, pay, landed, sends, ledger, returns, payout, po, budget>>
           /\ ptx' \notin DOMAIN signed /\ ptx' # 0 /\ DOMAIN signed' = DOMAIN signed \cup {ptx'}
           /\ \A t \in DOMAIN signed : signed'[t] = signed[t]
           /\ signed'[ptx'] = RowsIn({"planned"})
           /\ ex'.pc = "mark" /\ ex'.todo = signed'[ptx'] /\ ex'.was = signed'[ptx'] /\ ex'.tx = ptx'
<1> DEFINE rows == RowsIn({"planned"})
           n == Len(signed) + 1
<1>1. /\ ex.pc = "one" /\ run' = "paying" /\ signed' = Append(signed, rows) /\ ptx' = Len(signed')
      /\ ex' = [ex EXCEPT !.pc = "mark", !.todo = rows, !.was = rows, !.tx = Len(signed')]
      /\ UNCHANGED <<kind, funded, pay, landed, sends, ledger, returns, payout, po, budget>>
  BY DEF Submit
<1>2. rows \in SUBSET Payees /\ signed \in Seq(SUBSET Payees)
  BY DEF RowsIn, ChainTyped
<1> HIDE DEF rows
<1>3. /\ signed' \in Seq(SUBSET Payees) /\ Len(signed') = n /\ n \in Nat /\ n # 0
      /\ DOMAIN signed = 1..Len(signed) /\ DOMAIN signed' = 1..n
      /\ n \notin DOMAIN signed /\ DOMAIN signed' = DOMAIN signed \cup {n}
      /\ signed'[n] = rows /\ \A t \in DOMAIN signed : signed'[t] = signed[t]
  BY <1>1, <1>2
<1> HIDE DEF n
<1>4. ex' = [ex EXCEPT !.pc = "mark", !.todo = rows, !.was = rows, !.tx = n]
  BY <1>1, <1>3
<1>5. ex' \in ExType /\ ex'.pc = "mark" /\ ex'.todo = rows /\ ex'.was = rows /\ ex'.tx = n
  BY <1>2, <1>3, <1>4 DEF ChainTyped, ExType, ExSteps
<1>6. ChainTyped'
  BY <1>1, <1>2, <1>3, <1>5 DEF ChainTyped, ExHeld
<1> QED
  BY <1>1, <1>3, <1>5, <1>6 DEF rows

LEMMA MarkDoes ==
    ASSUME ChainTyped, MarkPaying
    PROVE  /\ ChainTyped' /\ ex.pc = "mark"
           /\ UNCHANGED <<kind, funded, run, ptx, signed, landed, sends, ledger, returns, payout, po, budget>>
           /\ \E x \in ex.todo : /\ Becomes(x, "paying") /\ x \in Payees
                                 /\ \/ ExMoves("mark", ex.todo \ {x})
                                    \/ ExMoves("broadcast", {}) /\ ex.todo = {x}
<1>1. PICK x \in ex.todo : /\ SetPay(x, "paying")
                           /\ ex' = [ex EXCEPT !.todo = @ \ {x}, !.pc = IF ex.todo = {x} THEN "broadcast" ELSE @]
  BY DEF MarkPaying
<1>2. /\ UNCHANGED <<kind, funded, run, ptx, signed, landed, sends, ledger, returns, payout, po, budget>>
      /\ ex.pc = "mark" /\ x \in Payees
  BY DEF MarkPaying, world, ChainTyped, ExHeld
<1>3. Becomes(x, "paying")
  BY <1>1, <1>2, PaySet DEF PayStates
<1>4. \/ ExMoves("mark", ex.todo \ {x})
      \/ ExMoves("broadcast", {}) /\ ex.todo = {x}
  <2> DEFINE pc == IF ex.todo = {x} THEN "broadcast" ELSE "mark"
             todo == ex.todo \ {x}
  <2>1. ex' = [[ex EXCEPT !.pc = pc] EXCEPT !.todo = todo]
    BY <1>1, <1>2 DEF ChainTyped, ExType
  <2>2. pc \in ExSteps /\ todo \in SUBSET (Payees \cup ShareRows)
    BY DEF ExSteps, ChainTyped, ExType
  <2>3. ExMoves(pc, todo)
    <3> HIDE DEF pc, todo
    <3> QED
      BY <2>1, <2>2, ExGoes
  <2> QED
    BY <2>3
<1>5. ChainTyped'
  <2>1. ExHeld'
    BY <1>2, <1>4 DEF ChainTyped, ExHeld, ExMoves
  <2> QED
    BY <1>2, <1>3, <1>4, <2>1, TypedFrame DEF ChainTyped, Becomes, ExMoves
<1>6. /\ Becomes(x, "paying") /\ x \in Payees
      /\ \/ ExMoves("mark", ex.todo \ {x})
         \/ ExMoves("broadcast", {}) /\ ex.todo = {x}
  BY <1>2, <1>3, <1>4
<1> QED
  BY <1>2, <1>5, <1>6

LEMMA BroadcastsDo ==
    ASSUME ChainTyped, Broadcast \/ Unreached \/ Refused
    PROVE  /\ ChainTyped' /\ ex.pc = "broadcast"
           /\ UNCHANGED <<kind, funded, pay, signed, sends, ledger, returns, payout, po>>
           /\ \/ /\ landed' = landed \cup {ex.tx} /\ UNCHANGED <<run, ptx>>
                 /\ ExMoves("paid", RowsIn({"paying"})) \/ ex' = Idle
              \/ UNCHANGED <<landed, run, ptx>> /\ ex' = Idle
              \/ /\ landed' = landed /\ ex.tx \notin landed /\ run' = "snapshotted" /\ ptx' = 0
                 /\ ex.was # {} /\ ExMoves("undo", ex.was)
<1>1. /\ ex.pc = "broadcast" /\ ex.tx \in DOMAIN signed
      /\ UNCHANGED <<kind, funded, pay, signed, sends, ledger, returns, payout, po>>
  BY DEF Broadcast, Unreached, Refused, world, ChainTyped, ExHeld
<1>2. \/ /\ landed' = landed \cup {ex.tx} /\ UNCHANGED <<run, ptx>>
         /\ ex' = [ex EXCEPT !.pc = "paid", !.todo = RowsIn({"paying"})] \/ ex' = Idle
      \/ UNCHANGED <<landed, run, ptx>> /\ ex' = Idle
      \/ /\ landed' = landed /\ ex.tx \notin landed /\ run' = "snapshotted" /\ ptx' = 0
         /\ ex.was # {} /\ ex' = [ex EXCEPT !.pc = "undo", !.todo = ex.was]
  BY DEF Broadcast, Unreached, Refused, Unanswered, Undone, world
<1>3. ASSUME ex' = [ex EXCEPT !.pc = "paid", !.todo = RowsIn({"paying"})] PROVE ExMoves("paid", RowsIn({"paying"}))
  <2> DEFINE todo == RowsIn({"paying"})
  <2>1. todo \in SUBSET (Payees \cup ShareRows) /\ "paid" \in ExSteps
    BY DEF RowsIn, ExSteps
  <2>2. ex' = [[ex EXCEPT !.pc = "paid"] EXCEPT !.todo = todo]
    BY <1>3
  <2> HIDE DEF todo
  <2>3. ExMoves("paid", todo)
    BY <2>1, <2>2, ExGoes
  <2> QED
    BY <2>3 DEF todo
<1>4. ASSUME ex' = [ex EXCEPT !.pc = "undo", !.todo = ex.was] PROVE ExMoves("undo", ex.was)
  <2>1. ex.was \in SUBSET (Payees \cup ShareRows) /\ "undo" \in ExSteps
    BY DEF ChainTyped, ExType, ExSteps
  <2>2. ex' = [[ex EXCEPT !.pc = "undo"] EXCEPT !.todo = ex.was]
    BY <1>4
  <2> QED
    BY <2>1, <2>2, ExGoes
<1>5. \/ /\ landed' = landed \cup {ex.tx} /\ UNCHANGED <<run, ptx>>
         /\ ExMoves("paid", RowsIn({"paying"})) \/ ex' = Idle
      \/ UNCHANGED <<landed, run, ptx>> /\ ex' = Idle
      \/ /\ landed' = landed /\ ex.tx \notin landed /\ run' = "snapshotted" /\ ptx' = 0
         /\ ex.was # {} /\ ExMoves("undo", ex.was)
  BY <1>2, <1>3, <1>4
<1>6. ChainTyped'
  <2>1. ex' \in ExType /\ ExHeld'
    <3>1. CASE ex' = Idle
      BY <3>1, IdleTyped DEF ExHeld
    <3>2. CASE ExMoves("paid", RowsIn({"paying"}))
      BY <1>1, <3>2 DEF ExMoves, ExHeld, RowsIn
    <3>3. CASE ExMoves("undo", ex.was)
      BY <3>3 DEF ExMoves, ExHeld, ChainTyped, ExType
    <3> QED
      BY <1>5, <3>1, <3>2, <3>3
  <2>2. landed' \subseteq DOMAIN signed /\ ptx' \in {0} \cup DOMAIN signed
    BY <1>1, <1>5 DEF ChainTyped
  <2> QED
    BY <1>1, <2>1, <2>2 DEF ChainTyped
<1> QED
  BY <1>1, <1>5, <1>6

LEMMA UndoDoes ==
    ASSUME ChainTyped, UndoRow
    PROVE  /\ ChainTyped' /\ ex.pc = "undo"
           /\ UNCHANGED <<kind, funded, run, ptx, signed, landed, sends, ledger, returns, payout, po, budget>>
           /\ \E x \in ex.todo : /\ Becomes(x, "planned") /\ x \in Payees
                                 /\ \/ ExMoves("undo", ex.todo \ {x})
                                    \/ ex' = Idle /\ ex.todo = {x}
<1>1. PICK x \in ex.todo : SetPay(x, "planned") /\ ex' = IF ex.todo = {x} THEN Idle ELSE [ex EXCEPT !.todo = @ \ {x}]
  BY DEF UndoRow
<1>2. /\ UNCHANGED <<kind, funded, run, ptx, signed, landed, sends, ledger, returns, payout, po, budget>>
      /\ ex.pc = "undo" /\ x \in Payees
  BY DEF UndoRow, world, ChainTyped, ExHeld
<1>3. Becomes(x, "planned") /\ x \in Payees
  BY <1>1, <1>2, PaySet DEF PayStates
<1>4. \/ ExMoves("undo", ex.todo \ {x})
      \/ ex' = Idle /\ ex.todo = {x}
  BY <1>1, <1>2 DEF ChainTyped, ExType, ExMoves
<1>5. ExHeld' /\ ex' \in ExType
  <2>1. CASE ex' = Idle
    BY <2>1, IdleTyped DEF ExHeld
  <2>2. CASE ExMoves("undo", ex.todo \ {x})
    BY <1>2, <2>2 DEF ExMoves, ExHeld, ChainTyped
  <2> QED
    BY <1>4, <2>1, <2>2
<1>6. ChainTyped'
  BY <1>2, <1>3, <1>5, TypedFrame DEF ChainTyped, Becomes
<1>7. /\ Becomes(x, "planned") /\ x \in Payees
      /\ \/ ExMoves("undo", ex.todo \ {x})
         \/ ex' = Idle /\ ex.todo = {x}
  BY <1>3, <1>4
<1> QED
  BY <1>2, <1>6, <1>7

LEMMA PaidRowDoes ==
    ASSUME ChainTyped, PaidRow
    PROVE  /\ ChainTyped' /\ ex.pc = "paid"
           /\ UNCHANGED <<kind, funded, run, ptx, signed, landed, sends, returns, payout, po, budget>>
           /\ \E x \in ex.todo : /\ Becomes(x, "paid") /\ x \in Payees /\ OneMore(ledger, ledger', x)
                                 /\ ExMoves("paid", ex.todo \ {x})
<1>1. PICK x \in ex.todo : /\ SetPay(x, "paid") /\ ledger' = [ledger EXCEPT ![x] = @ + 1]
                           /\ ex' = [ex EXCEPT !.todo = @ \ {x}]
  BY DEF PaidRow
<1>2. /\ UNCHANGED <<kind, funded, run, ptx, signed, landed, sends, returns, payout, po, budget>>
      /\ ex.pc = "paid" /\ x \in Payees
  BY DEF PaidRow, world, ChainTyped, ExHeld
<1>3. Becomes(x, "paid") /\ OneMore(ledger, ledger', x)
  BY <1>1, <1>2, PaySet, CountOne DEF PayStates, ChainTyped
<1>4. ExMoves("paid", ex.todo \ {x})
  BY <1>1, <1>2 DEF ChainTyped, ExType, ExMoves
<1>5. ExHeld'
  BY <1>2, <1>4 DEF ExMoves, ExHeld, ChainTyped
<1>6. ChainTyped'
  BY <1>2, <1>3, <1>4, <1>5, TypedFrame DEF ChainTyped, Becomes, ExMoves, OneMore
<1> QED
  BY <1>2, <1>3, <1>4, <1>6

LEMMA DonesDo ==
    ASSUME ChainTyped, PaidAll \/ EachDone
    PROVE  /\ ChainTyped' /\ ex' = Idle
           /\ UNCHANGED <<kind, funded, pay, signed, landed, sends, ledger, returns, payout, po, budget>>
           /\ \/ /\ ex.pc = "paid" /\ ex.todo = {}
                 /\ \/ run' = "complete" /\ ptx' = ptx
                    \/ run' = "snapshotted" /\ ptx' = 0
              \/ ex.pc = "each" /\ run' \in {run, "complete"} /\ ptx' = ptx
<1>1. /\ ex' = Idle /\ UNCHANGED <<kind, funded, pay, signed, landed, sends, ledger, returns, payout, po, budget>>
      /\ \/ /\ ex.pc = "paid" /\ ex.todo = {}
            /\ \/ run' = "complete" /\ ptx' = ptx
               \/ run' = "snapshotted" /\ ptx' = 0
         \/ ex.pc = "each" /\ run' \in {run, "complete"} /\ ptx' = ptx
  BY DEF PaidAll, EachDone, world
<1>2. ChainTyped'
  BY <1>1, IdleTyped DEF ChainTyped, ExHeld
<1> QED
  BY <1>1, <1>2

LEMMA EachDoes ==
    ASSUME ChainTyped, EachHolder
    PROVE  /\ ChainTyped' /\ ex.pc = "each"
           /\ UNCHANGED <<kind, funded, run, ptx, signed, landed, sends, ledger, returns, payout, po>>
           /\ \E x \in ex.todo : /\ x \in Payees
                                 /\ \/ /\ Routes(x) = "paying" /\ Becomes(x, "paying") /\ UNCHANGED budget
                                       /\ ExMoves("send", ex.todo \ {x}) /\ ex'.at = x
                                    \/ /\ Routes(x) # "paying" /\ Becomes(x, Routes(x)) /\ UNCHANGED budget
                                       /\ ExMoves("each", ex.todo \ {x})
                                    \/ Becomes(x, "failed") /\ Inject("blurred") /\ ExMoves("each", ex.todo \ {x})
<1>1. PICK x \in ex.todo :
          \/ /\ SetPay(x, Routes(x))
             /\ ex' = IF Routes(x) = "paying" THEN [ex EXCEPT !.pc = "send", !.at = x, !.todo = @ \ {x}]
                                              ELSE [ex EXCEPT !.todo = @ \ {x}]
             /\ UNCHANGED budget
          \/ /\ Inject("blurred") /\ SetPay(x, "failed") /\ ex' = [ex EXCEPT !.todo = @ \ {x}]
  BY DEF EachHolder
<1>2. /\ UNCHANGED <<kind, funded, run, ptx, signed, landed, sends, ledger, returns, payout, po>>
      /\ ex.pc = "each" /\ x \in Payees
  BY DEF EachHolder, world, ChainTyped, ExHeld
<1>3. Routes(x) \in PayStates
  BY DEF Routes, Routed, PayStates
<1>4. ASSUME ex' = [ex EXCEPT !.todo = @ \ {x}] PROVE ExMoves("each", ex.todo \ {x})
  BY <1>2, <1>4 DEF ChainTyped, ExType, ExMoves
<1>5. ASSUME ex' = [ex EXCEPT !.pc = "send", !.at = x, !.todo = @ \ {x}] PROVE ExMoves("send", ex.todo \ {x}) /\ ex'.at = x
  <2> DEFINE mid == [ex EXCEPT !.pc = "send"]
             sec == [mid EXCEPT !.at = x]
  <2>1. mid \in ExType /\ mid.pc = "send" /\ mid.todo = ex.todo /\ mid.was = ex.was /\ mid.tx = ex.tx
    BY DEF ChainTyped, ExType, ExSteps
  <2>2. ex' = [sec EXCEPT !.todo = ex.todo \ {x}]
    BY <1>5 DEF ChainTyped, ExType
  <2> HIDE DEF mid
  <2>3. sec \in ExType /\ sec.pc = "send" /\ sec.todo = ex.todo /\ sec.was = ex.was /\ sec.tx = ex.tx /\ sec.at = x
    BY <1>2, <2>1 DEF ExType
  <2> HIDE DEF sec
  <2>4. ex.todo \ {x} \in SUBSET (Payees \cup ShareRows)
    BY DEF ChainTyped, ExType
  <2> QED
    BY <2>2, <2>3, <2>4 DEF ExType, ExMoves
<1>6. /\ x \in Payees
      /\ \/ /\ Routes(x) = "paying" /\ Becomes(x, "paying") /\ UNCHANGED budget
            /\ ExMoves("send", ex.todo \ {x}) /\ ex'.at = x
         \/ /\ Routes(x) # "paying" /\ Becomes(x, Routes(x)) /\ UNCHANGED budget
            /\ ExMoves("each", ex.todo \ {x})
         \/ Becomes(x, "failed") /\ Inject("blurred") /\ ExMoves("each", ex.todo \ {x})
  <2>1. CASE /\ SetPay(x, Routes(x)) /\ UNCHANGED budget
             /\ ex' = IF Routes(x) = "paying" THEN [ex EXCEPT !.pc = "send", !.at = x, !.todo = @ \ {x}]
                                              ELSE [ex EXCEPT !.todo = @ \ {x}]
    <3>1. Becomes(x, Routes(x))
      BY <1>2, <1>3, <2>1, PaySet
    <3>2. CASE Routes(x) = "paying"
      BY <1>2, <1>5, <2>1, <3>1, <3>2
    <3>3. CASE Routes(x) # "paying"
      BY <1>2, <1>4, <2>1, <3>1, <3>3
    <3> QED
      BY <3>2, <3>3
  <2>2. CASE Inject("blurred") /\ SetPay(x, "failed") /\ ex' = [ex EXCEPT !.todo = @ \ {x}]
    <3>1. Becomes(x, "failed")
      BY <1>2, <2>2, PaySet DEF PayStates
    <3> QED
      BY <1>2, <1>4, <2>2, <3>1
  <2> QED
    BY <1>1, <2>1, <2>2
<1>7. ExHeld' /\ ex' \in ExType /\ pay' \in [Payees -> PayRows]
  BY <1>2, <1>6 DEF ExMoves, ExHeld, ChainTyped, Becomes
<1>8. ChainTyped'
  BY <1>2, <1>7, TypedFrame DEF ChainTyped
<1> QED
  BY <1>2, <1>6, <1>8

LEMMA SendDoes ==
    ASSUME ChainTyped, Send
    PROVE  /\ ChainTyped' /\ ex.pc = "send" /\ ex.at \in Payees
           /\ UNCHANGED <<kind, funded, run, ptx, signed, landed, ledger, returns, payout, po>>
           /\ \/ /\ OneMore(sends, sends', ex.at) /\ ExMoves("sent", ex.todo) /\ ex'.at = ex.at
                 /\ UNCHANGED <<pay, budget>>
              \/ /\ Becomes(ex.at, "failed") /\ ExMoves("each", ex.todo)
                 /\ \/ UNCHANGED <<sends, budget>>
                    \/ OneMore(sends, sends', ex.at) /\ Inject("blurred")
<1>1. /\ UNCHANGED <<kind, funded, run, ptx, signed, landed, ledger, returns, payout, po>>
      /\ ex.pc = "send" /\ ex.at \in Payees
  BY DEF Send, world, ChainTyped, ExHeld
<1> DEFINE x == ex.at
<1>2. /\ sends' = [sends EXCEPT ![x] = @ + 1] => OneMore(sends, sends', x)
      /\ SetPay(x, "failed") => Becomes(x, "failed")
  <2>1. x \in Payees /\ sends \in Counts
    BY <1>1 DEF ChainTyped
  <2> HIDE DEF x
  <2> QED
    BY <2>1, CountOne, PaySet DEF PayStates
<1>3. ASSUME NEW pc \in {"sent", "each"}, ex' = [ex EXCEPT !.pc = pc] PROVE ExMoves(pc, ex.todo) /\ ex'.at = ex.at
  BY <1>3 DEF ChainTyped, ExType, ExMoves, ExSteps
<1>4. \/ /\ OneMore(sends, sends', ex.at) /\ ExMoves("sent", ex.todo) /\ ex'.at = ex.at
         /\ UNCHANGED <<pay, budget>>
      \/ /\ Becomes(ex.at, "failed") /\ ExMoves("each", ex.todo)
         /\ \/ UNCHANGED <<sends, budget>>
            \/ OneMore(sends, sends', ex.at) /\ Inject("blurred")
  BY <1>2, <1>3 DEF Send
<1>5. ExHeld' /\ ex' \in ExType /\ pay' \in [Payees -> PayRows] /\ sends' \in Counts
  BY <1>1, <1>4 DEF ExMoves, ExHeld, ChainTyped, Becomes, OneMore
<1>6. ChainTyped'
  BY <1>1, <1>5 DEF ChainTyped
<1> QED
  BY <1>1, <1>4, <1>6

LEMMA SentDoes ==
    ASSUME ChainTyped, SentRow
    PROVE  /\ ChainTyped' /\ ex.pc = "sent" /\ ex.at \in Payees
           /\ UNCHANGED <<kind, funded, run, ptx, signed, landed, sends, returns, payout, po, budget>>
           /\ Becomes(ex.at, "paid") /\ OneMore(ledger, ledger', ex.at) /\ ExMoves("each", ex.todo)
<1>1. /\ UNCHANGED <<kind, funded, run, ptx, signed, landed, sends, returns, payout, po, budget>>
      /\ ex.pc = "sent" /\ ex.at \in Payees
  BY DEF SentRow, world, ChainTyped, ExHeld
<1> DEFINE x == ex.at
<1>2. Becomes(x, "paid") /\ OneMore(ledger, ledger', x)
  <2>1. x \in Payees /\ ledger \in Counts /\ SetPay(x, "paid") /\ ledger' = [ledger EXCEPT ![x] = @ + 1]
    BY <1>1 DEF ChainTyped, SentRow
  <2> HIDE DEF x
  <2> QED
    BY <2>1, CountOne, PaySet DEF PayStates
<1>3. ExMoves("each", ex.todo)
  BY DEF SentRow, ChainTyped, ExType, ExMoves, ExSteps
<1>4. ExHeld'
  BY <1>1, <1>3 DEF ExMoves, ExHeld, ChainTyped
<1>5. ChainTyped'
  BY <1>1, <1>2, <1>3, <1>4, TypedFrame DEF ChainTyped, Becomes, ExMoves, OneMore
<1> QED
  BY <1>1, <1>2, <1>3, <1>5

\* Paying to wallets leaves the chain, and the handler of the run, alone.
ToWallets == \/ ListInsert \/ RefundPlan \/ Moves \/ Service
             \/ \E p \in Payouts, r \in Refs : Reference(p, r)
             \/ IndexRow \/ FollowVoid \/ VoidRow \/ FollowOut \/ WentRow \/ FollowClaims

LEMMA WalletsLeave ==
    ASSUME ToWallets
    PROVE  /\ UNCHANGED <<kind, funded, ptx, signed, landed, sends, ex, budget>>
           /\ ListRow \/ WentRow \/ FollowClaims \/ UNCHANGED pay
           /\ WentRow \/ UNCHANGED ledger
           /\ FollowClaims \/ UNCHANGED returns
           /\ \/ run' = run
              \/ po.pc = "taken" /\ run' = "paying"
              \/ po.pc = "out" /\ kind = "distribution" /\ run' = "complete"
<1>1. CASE ListInsert \/ RefundPlan
  BY <1>1 DEF ListInsert, RefundPlan, world
<1>2. CASE Moves
  BY <1>2 DEF Moves, ListBegin, ListRow, ListDone, FollowBegin, FollowLater, WentOut, state, world
<1>3. CASE Service
  BY <1>3 DEF Service, WalletPays, Settles, Resolves, state
<1>4. CASE \E p \in Payouts, r \in Refs : Reference(p, r)
  BY <1>4 DEF Reference, world
<1>5. CASE IndexRow \/ FollowVoid \/ VoidRow \/ FollowOut
  BY <1>5 DEF IndexRow, FollowVoid, VoidRow, FollowOut, world
<1>6. CASE WentRow \/ FollowClaims
  BY <1>6 DEF WentRow, FollowClaims, world
<1> QED
  BY <1>1, <1>2, <1>3, <1>4, <1>5, <1>6 DEF ToWallets

LEMMA ListRowDoes ==
    ASSUME WalletsInv, ChainTyped, ListRow
    PROVE  /\ po.p \in Payouts /\ payout[po.p].st = "planned" /\ UNCHANGED run
           /\ \E x \in Payees, st \in {"no_payment", "skipped", "planned"} : Becomes(x, st)
<1> DEFINE st(x) == IF pay[x].net = 0 THEN "no_payment"
                    ELSE IF payout[po.p].rows[x].st = "left_out" THEN "skipped" ELSE "planned"
<1>1. PICK x \in po.todo : SetPay(x, st(x))
  BY DEF ListRow
<1>2. po.p \in Payouts /\ payout[po.p].st = "planned" /\ x \in Payees /\ UNCHANGED run
  BY DEF ListRow, WalletsInv, PoHeld, WalletsTyped, PoType
<1>3. st(x) \in {"no_payment", "skipped", "planned"}
  OBVIOUS
<1> HIDE DEF st
<1>4. Becomes(x, st(x))
  BY <1>1, <1>2, <1>3, PaySet DEF PayStates
<1> QED
  BY <1>2, <1>3, <1>4

LEMMA WentPays ==
    ASSUME WalletsInv, ChainTyped, WentRow
    PROVE  \E x \in Payees : /\ payout[po.p].rows[x].st = "pending" /\ payout'[po.p].rows[x].st = "paid"
                             /\ \A y \in Payees : y # x => payout'[po.p].rows[y] = payout[po.p].rows[y]
                             /\ OneMore(ledger, ledger', x)
                             /\ (kind = "distribution" /\ Becomes(x, "paid")) \/ UNCHANGED pay
<1>1. PICK x \in po.todo : /\ SetRow(po.p, x, "paid", payout[po.p].rows[x].idx)
                           /\ ledger' = [ledger EXCEPT ![x] = @ + 1]
                           /\ kind = "distribution" => SetPay(x, "paid")
                           /\ kind # "distribution" => UNCHANGED pay
  BY WentDoes
<1> DEFINE p == po.p
           i == payout[p].rows[x].idx
<1>2. x \in Payees /\ p \in Payouts /\ payout[p].rows[x].st = "pending" /\ i \in Nat
  BY DEF WentRow, WalletsInv, PoHeld, WalletsTyped, PoType, PayoutType, PayoutRows
<1>3. OneMore(ledger, ledger', x)
  BY <1>1, <1>2, CountOne DEF ChainTyped
<1>4. SetPay(x, "paid") => Becomes(x, "paid")
  BY <1>2, PaySet DEF PayStates
<1>5. payout'[p].rows[x].st = "paid" /\ \A y \in Payees : y # x => payout'[p].rows[y] = payout[p].rows[y]
  <2>1. SetRow(p, x, "paid", i)
    BY <1>1
  <2> HIDE DEF p, i
  <2>2. payout'[p].rows[x] = [st |-> "paid", idx |-> i] /\ \A y \in Payees : y # x => payout'[p].rows[y] = payout[p].rows[y]
    BY <1>2, <2>1, RowSet DEF WalletsInv, RowStates
  <2> QED
    BY <2>2
<1> QED
  BY <1>1, <1>2, <1>3, <1>4, <1>5

LEMMA ClaimsPay ==
    ASSUME WalletsInv, ChainTyped, FollowClaims
    PROVE  /\ pay' \in [Payees -> PayRows] /\ returns' \in Counts
           /\ \A x \in Payees : pay'[x] = pay[x] \/ pay'[x].st = "returned"
           /\ \A x \in Payees : returns'[x] = IF x \in NewlyBack THEN returns[x] + 1 ELSE returns[x]
<1>1. /\ returns' = [x \in Payees |-> IF x \in NewlyBack THEN returns[x] + 1 ELSE returns[x]]
      /\ pay' = [x \in Payees |-> IF x \in NewlyBack /\ kind = "distribution" THEN [pay[x] EXCEPT !.st = "returned"]
                                  ELSE pay[x]]
  BY ClaimsDoes
<1>2. ASSUME NEW x \in Payees PROVE /\ pay'[x] \in PayRows
                                    /\ pay'[x] = pay[x] \/ pay'[x].st = "returned"
  <2>1. pay[x] \in PayRows
    BY DEF ChainTyped
  <2> QED
    BY <1>1, <2>1 DEF PayRows, PayStates
<1>3. pay' \in [Payees -> PayRows]
  BY <1>1, <1>2
<1>4. returns' \in Counts
  BY <1>1 DEF ChainTyped, Counts
<1> QED
  BY <1>1, <1>2, <1>3, <1>4

LEMMA WalletsTypeChain ==
    ASSUME WalletsInv, ChainTyped, ToWallets
    PROVE  ChainTyped'
<1>1. UNCHANGED <<funded, ptx, signed, landed, sends, ex>> /\ ExHeld'
  BY WalletsLeave DEF ChainTyped, ExHeld
<1>2. pay' \in [Payees -> PayRows]
  <2>1. CASE ListRow
    BY <2>1, ListRowDoes DEF Becomes
  <2>2. CASE WentRow
    BY <2>2, WentPays DEF Becomes, ChainTyped
  <2>3. CASE FollowClaims
    BY <2>3, ClaimsPay
  <2>4. CASE UNCHANGED pay
    BY <2>4 DEF ChainTyped
  <2> QED
    BY <2>1, <2>2, <2>3, <2>4, WalletsLeave
<1>3. ledger' \in Counts
  BY WalletsLeave, WentPays DEF ChainTyped, OneMore
<1>4. returns' \in Counts
  BY WalletsLeave, ClaimsPay DEF ChainTyped
<1> QED
  BY <1>1, <1>2, <1>3, <1>4 DEF ChainTyped

\* A run is paid one way or the other, and nothing is sent before its snapshot is taken.
Early  == {"none", "awaiting_funding", "funded", "open"}
RunInv ==
    /\ kind \in {"distribution", "refund"}
    /\ run \in Early \cup {"snapshotted", "paying", "complete"}
    /\ run \in Early => /\ po.pc # "list" /\ (kind = "distribution" => \A p \in Payouts : payout[p].st = "none")
                        /\ DOMAIN signed = {} /\ \A x \in Payees : sends[x] = 0
    /\ run \in Early \cup {"snapshotted"} => ptx = 0
    /\ ex.pc \in {"one", "snapshot"} => ptx = 0
    /\ ex.pc = "snapshot" => run \in {"open", "funded"}
    /\ ex.pc \notin {"idle", "snapshot"} => run \notin Early
    /\ kind = "refund" => run = "none" /\ ex.pc = "idle" /\ po.pc \notin {"list", "rows", "taken"}
    /\ funded => ex.pc \in {"idle", "snapshot", "each", "send", "sent"} /\ DOMAIN signed = {}
    /\ ~funded => ex.pc \notin {"each", "send", "sent"} /\ \A x \in Payees : sends[x] = 0

LEMMA ChainStart ==
    ASSUME Init
    PROVE  ChainTyped /\ RunInv
<1>1. pay \in [Payees -> PayRows]
  <2>1. NoPay \in PayRows
    BY DEF NoPay, PayRows, PayStates, Shares
  <2> QED
    BY <2>1 DEF Init
<1>2. signed \in Seq(SUBSET Payees) /\ DOMAIN signed = {}
  BY DEF Init
<1>3. /\ sends \in Counts /\ ledger \in Counts /\ returns \in Counts /\ \A x \in Payees : sends[x] = 0
      /\ funded \in BOOLEAN /\ ex = Idle /\ ptx = 0 /\ landed = {}
  BY DEF Init, Counts
<1>4. ChainTyped
  BY <1>1, <1>2, <1>3, IdleTyped DEF ChainTyped, ExHeld
<1>5. RunInv
  <2>1. \A p \in Payouts : payout[p].st = "none"
    BY DEF Init, NoPayout
  <2>2. po.pc = "idle" /\ kind \in {"distribution", "refund"} /\ run = IF funded THEN "awaiting_funding" ELSE "none"
    BY IdleIsTyped DEF Init
  <2>3. kind = "refund" => ~funded
    BY DEF Init
  <2> QED
    BY <1>2, <1>3, <2>1, <2>2, <2>3, IdleTyped DEF RunInv, Early
<1> QED
  BY <1>4, <1>5

\* Every step pays on chain, pays to wallets, or is one of the others.
LEMMA EveryStep ==
    ASSUME [Next]_vars
    PROVE  \/ UNCHANGED vars \/ Create \/ Fund \/ Crash \/ ToWallets
           \/ SnapshotBegin \/ SnapshotRow \/ SnapshotDone
           \/ ExecuteBegin \/ PlanRows \/ Submit \/ MarkPaying
           \/ Broadcast \/ Unreached \/ Refused \/ UndoRow \/ PaidRow \/ PaidAll
           \/ EachHolder \/ Send \/ SentRow \/ EachDone
  BY Steps DEF ToWallets, Chain

LEMMA CrashDoes ==
    ASSUME ChainTyped, Crash
    PROVE  /\ ChainTyped' /\ ex' = Idle /\ po' = Still /\ {ex.pc, po.pc} \subseteq Stops \cup {"idle"}
           /\ UNCHANGED <<kind, funded, run, ptx, pay, payout, ledger, returns, signed, landed, sends, service>>
<1>1. /\ ex' = Idle /\ po' = Still /\ {ex.pc, po.pc} \subseteq Stops \cup {"idle"}
      /\ UNCHANGED <<kind, funded, run, ptx, pay, payout, ledger, returns, signed, landed, sends, service>>
  BY DEF Crash, state, world
<1>2. ChainTyped'
  BY <1>1, IdleTyped, TypedFrame DEF ChainTyped, ExHeld
<1> QED
  BY <1>1, <1>2

\* A distribution may still be made, or a deposit of an older run arrives.
LEMMA OpensDo ==
    ASSUME ChainTyped, Create \/ Fund
    PROVE  /\ ChainTyped' /\ run \in {"none", "awaiting_funding"} /\ run' \in {"open", "funded"}
           /\ UNCHANGED <<kind, funded, ptx, pay, payout, ledger, returns, signed, landed, sends, service, ex, po, budget>>
           /\ run = "none" => kind = "distribution"
<1>1. /\ run \in {"none", "awaiting_funding"} /\ run' \in {"open", "funded"}
      /\ UNCHANGED <<kind, funded, ptx, pay, payout, ledger, returns, signed, landed, sends, service, ex, po, budget>>
      /\ run = "none" => kind = "distribution"
  BY DEF Create, Fund, world
<1>2. ChainTyped'
  BY <1>1, TypedFrame DEF ChainTyped, ExHeld
<1> QED
  BY <1>1, <1>2

LEMMA TypedStep ==
    ASSUME WalletsInv, ChainTyped, [Next]_vars
    PROVE  ChainTyped'
<1>1. CASE UNCHANGED vars
  BY <1>1, TypedFrame DEF vars, state, world, ChainTyped, ExHeld
<1>2. CASE Create \/ Fund \/ Crash \/ ToWallets
  BY <1>2, OpensDo, CrashDoes, WalletsTypeChain
<1>3. CASE SnapshotBegin \/ SnapshotRow \/ SnapshotDone
  BY <1>3, SnapshotsDo
<1>4. CASE ExecuteBegin \/ PlanRows \/ Submit \/ MarkPaying
  BY <1>4, ExecuteDoes, PlanRowsDoes, SubmitDoes, MarkDoes
<1>5. CASE Broadcast \/ Unreached \/ Refused \/ UndoRow \/ PaidRow \/ PaidAll
  BY <1>5, BroadcastsDo, UndoDoes, PaidRowDoes, DonesDo
<1>6. CASE EachHolder \/ Send \/ SentRow \/ EachDone
  BY <1>6, EachDoes, SendDoes, SentDoes, DonesDo
<1> QED
  BY <1>1, <1>2, <1>3, <1>4, <1>5, <1>6, EveryStep

\* A list is begun on a snapshot, and only then does a distribution get a payout.
LEMMA ListsDo ==
    ASSUME WalletsInv, ToWallets
    PROVE  /\ po'.pc = "list" => po.pc = "list" \/ (run = "snapshotted" /\ kind = "distribution")
           /\ po'.pc \in {"rows", "taken"} => po.pc \in {"list", "rows", "taken"}
           /\ po.pc # "list" /\ kind = "distribution" /\ (\A p \in Payouts : payout[p].st = "none")
                 => \A p \in Payouts : payout'[p].st = "none"
<1>1. po \in PoType
  BY DEF WalletsInv, WalletsTyped
<1>2. CASE ListInsert \/ RefundPlan
  <2>1. po.pc \in {"list", "idle"} /\ po'.pc \in {"rows", "idle"} /\ (po.pc = "idle" => po'.pc = "idle")
    BY <1>2, PlansDo DEF ListInsert, RefundPlan
  <2>2. po.pc = "list" \/ kind = "refund"
    BY <1>2 DEF ListInsert, RefundPlan
  <2> QED
    BY <2>1, <2>2
<1>3. CASE Moves
  <2>1. payout' = payout
    BY <1>3, MovesDo
  <2>2. CASE ListBegin
    BY <1>1, <2>1, <2>2 DEF ListBegin, Still
  <2>3. CASE ListRow
    <3>1. po.pc = "rows" /\ \E x \in po.todo : RowsDone(x, "taken")
      BY <2>3 DEF ListRow
    <3>2. po'.pc \in {"rows", "taken"}
      BY <1>1, <3>1, TodoLess DEF PoSteps
    <3> QED
      BY <2>1, <3>1, <3>2
  <2>4. CASE ListDone \/ FollowLater \/ WentOut \/ \E p \in Payouts : FollowBegin(p)
    BY <1>1, <2>1, <2>4 DEF ListDone, FollowLater, WentOut, FollowBegin, Still, PoType
  <2> QED
    BY <1>3, <2>2, <2>3, <2>4 DEF Moves
<1>4. CASE Service
  BY <1>4, ServiceDoes DEF state, WalletsInv, PoHeld
<1>5. CASE \E p \in Payouts, r \in Refs : Reference(p, r)
  <2>1. PICK p \in Payouts, r \in Refs : Reference(p, r)
    BY <1>5
  <2>2. payout[p].st = "planned" /\ po'.pc \in {"index", "follow"}
    BY <2>1, ReferenceDoes DEF Reference
  <2> QED
    BY <2>2
<1>6. CASE IndexRow
  BY <1>1, <1>6, IndexDoes, TodoLess DEF IndexRow, WalletsInv, PoHeld, PoSteps
<1>7. CASE FollowVoid
  BY <1>7, VoidDoes DEF FollowVoid
<1>8. CASE VoidRow
  BY <1>1, <1>8, VoidRowDoes, TodoLess DEF VoidRow, WalletsInv, PoHeld, PoSteps
<1>9. CASE FollowOut
  BY <1>9, OutDoes DEF FollowOut, WalletsInv, PoHeld
<1>10. CASE WentRow
  BY <1>1, <1>10, WentDoes, TodoLess DEF WentRow, WalletsInv, PoHeld, PoSteps
<1>11. CASE FollowClaims
  BY <1>11, ClaimsDoes, IdleIsTyped
<1> QED
  BY <1>2, <1>3, <1>4, <1>5, <1>6, <1>7, <1>8, <1>9, <1>10, <1>11 DEF ToWallets

LEMMA RunStep ==
    ASSUME WalletsInv, ChainTyped, RunInv, [Next]_vars
    PROVE  RunInv'
<1>1. CASE UNCHANGED vars
  BY <1>1 DEF vars, state, world, RunInv
<1>2. CASE Create \/ Fund
  BY <1>2, OpensDo DEF RunInv, Early
<1>3. CASE Crash
  BY <1>3, CrashDoes, IdleTyped, IdleIsTyped DEF RunInv
<1>4. CASE ToWallets
  <2>1. /\ UNCHANGED <<kind, funded, ptx, signed, landed, sends, ex>>
        /\ \/ run' = run
           \/ po.pc = "taken" /\ run' = "paying"
           \/ po.pc = "out" /\ kind = "distribution" /\ run' = "complete"
    BY <1>4, WalletsLeave
  <2>2. /\ po'.pc = "list" => po.pc = "list" \/ (run = "snapshotted" /\ kind = "distribution")
        /\ po'.pc \in {"rows", "taken"} => po.pc \in {"list", "rows", "taken"}
        /\ po.pc # "list" /\ kind = "distribution" /\ (\A p \in Payouts : payout[p].st = "none")
                 => \A p \in Payouts : payout'[p].st = "none"
    BY <1>4, ListsDo
  <2>3. po.pc \in {"taken", "out"} => po.p \in Payouts /\ payout[po.p].st # "none"
    BY DEF WalletsInv, PoHeld
  <2>4. run \in Early /\ kind = "distribution" => run' = run
    BY <2>1, <2>3 DEF RunInv
  <2>5. run' \in Early => run' = run
    BY <2>1 DEF Early
  <2>6. kind = "refund" => run' = run
    BY <2>1 DEF RunInv
  <2> QED
    BY <2>1, <2>2, <2>4, <2>5, <2>6 DEF RunInv, Early
<1>5. CASE SnapshotBegin \/ SnapshotRow \/ SnapshotDone
  BY <1>5, SnapshotsDo, IdleTyped DEF RunInv, Early
<1>6. CASE ExecuteBegin
  BY <1>6, ExecuteDoes DEF RunInv, Early
<1>7. CASE PlanRows
  BY <1>7, PlanRowsDoes, IdleTyped DEF RunInv
<1>8. CASE Submit
  BY <1>8, SubmitDoes DEF RunInv, Early
<1>9. CASE MarkPaying
  BY <1>9, MarkDoes DEF RunInv, ExMoves
<1>10. CASE Broadcast \/ Unreached \/ Refused
  BY <1>10, BroadcastsDo, IdleTyped DEF RunInv, Early, ExMoves
<1>11. CASE UndoRow
  BY <1>11, UndoDoes, IdleTyped DEF RunInv, ExMoves
<1>12. CASE PaidRow
  BY <1>12, PaidRowDoes DEF RunInv, ExMoves
<1>13. CASE PaidAll \/ EachDone
  BY <1>13, DonesDo, IdleTyped DEF RunInv, Early
<1>14. CASE EachHolder
  BY <1>14, EachDoes DEF RunInv, ExMoves
<1>15. CASE Send
  BY <1>15, SendDoes DEF RunInv, ExMoves
<1>16. CASE SentRow
  BY <1>16, SentDoes DEF RunInv, ExMoves
<1> QED
  BY <1>1, <1>2, <1>3, <1>4, <1>5, <1>6, <1>7, <1>8, <1>9, <1>10, <1>11, <1>12, <1>13, <1>14, <1>15, <1>16, EveryStep

\* What holds of every behaviour, whatever the steps at which the process may stop.
Base == WalletsInv /\ ChainTyped /\ RunInv

LEMMA BaseHolds == Spec => []Base
<1>1. Init => Base
  BY WalletsStart, ChainStart DEF Base
<1>2. Base /\ [Next]_vars => Base'
  BY WalletsStep, TypedStep, RunStep DEF Base
<1> QED
  BY <1>1, <1>2, PTL DEF Spec

-----------------------------------------------------------------------------
(* Rows that say paid.                                                      *)

OutStates == {"paid", "collected", "returned"}
IsOut(p, x) == payout[p].rows[x].st \in OutStates

\* A row that went out is one of a payout whose payment went out, and stays so.
LEMMA OutsStay ==
    ASSUME WalletsInv, [Next]_vars, NEW p \in Payouts, NEW x \in Payees, IsOut(p, x)
    PROVE  IsOut(p, x)' /\ (FollowClaims \/ payout'[p].rows[x] = payout[p].rows[x])
<1>1. payout[p].st \notin {"none", "planned", "paying"}
  BY DEF WalletsInv, PayoutHeld, IsOut, OutStates, NoPayout, NoRow
<1>2. CASE UNCHANGED payout
  BY <1>2 DEF IsOut
<1>3. CASE ListInsert \/ RefundPlan
  BY <1>1, <1>2, <1>3, PlansDo DEF Planned, Others, IsOut
<1>4. CASE \E q \in Payouts, r \in Refs : Reference(q, r)
  <2>1. PICK q \in Payouts, r \in Refs : Reference(q, r)
    BY <1>4
  <2>2. payout[q].st = "planned" /\ Others(q)
    BY <2>1, ReferenceDoes DEF Reference
  <2> QED
    BY <1>1, <2>2 DEF Others, IsOut
<1>5. CASE IndexRow
  <2>1. Others(po.p) /\ payout[po.p].st = "paying"
    BY <1>5, IndexDoes DEF IndexRow, WalletsInv, PoHeld
  <2> QED
    BY <1>1, <2>1 DEF Others, IsOut
<1>6. CASE FollowVoid
  BY <1>1, <1>6, VoidDoes DEF Others, IsOut
<1>7. CASE VoidRow
  <2>1. Others(po.p) /\ payout[po.p].st = "planned"
    BY <1>7, VoidRowDoes DEF VoidRow, WalletsInv, PoHeld
  <2> QED
    BY <1>1, <2>1 DEF Others, IsOut
<1>8. CASE FollowOut
  BY <1>1, <1>8, OutDoes DEF Others, IsOut
<1>9. CASE WentRow
  <2>1. PICK y \in po.todo : SetRow(po.p, y, "paid", payout[po.p].rows[y].idx)
    BY <1>9, WentDoes
  <2> DEFINE q == po.p
             i == payout[q].rows[y].idx
  <2>2. y \in Payees /\ q \in Payouts /\ i \in Nat /\ payout[q].rows[y].st = "pending"
    BY <1>9 DEF WentRow, WalletsInv, PoHeld, WalletsTyped, PoType, PayoutType, PayoutRows
  <2>3. SetRow(q, y, "paid", i)
    BY <2>1
  <2> HIDE DEF q, i
  <2>4. /\ Others(q) /\ payout'[q].rows[y] = [st |-> "paid", idx |-> i]
        /\ \A z \in Payees : z # y => payout'[q].rows[z] = payout[q].rows[z]
    BY <2>2, <2>3, RowSet DEF WalletsInv, RowStates
  <2> QED
    BY <2>2, <2>4 DEF Others, IsOut, OutStates
<1>10. CASE FollowClaims
  <2>1. PICK q \in Payouts :
          /\ Others(q)
          /\ \A y \in Payees : payout'[q].rows[y].st = IF y \in Seen("claimed") THEN "collected"
                                                       ELSE IF y \in NewlyBack THEN "returned" ELSE payout[q].rows[y].st
    BY <1>10, ClaimsDoes
  <2> QED
    BY <1>10, <2>1 DEF Others, IsOut, OutStates
<1>11. Create \/ Fund \/ Chain \/ Crash \/ Moves \/ Service \/ UNCHANGED vars => UNCHANGED payout
  BY ChainLeaves, MovesDo, ServiceDoes DEF Crash, state, vars
<1> QED
  BY <1>2, <1>3, <1>4, <1>5, <1>6, <1>7, <1>8, <1>9, <1>10, <1>11, Steps

\* What paid a row that says paid.
PaidHow(x) == (\E t \in landed : x \in signed[t]) \/ sends[x] > 0 \/ \E p \in Payouts : IsOut(p, x)

\* Where a row that says paying is paid, and what the handler of the run holds.
Paying ==
    /\ ~funded /\ ex.pc # "undo" => \A x \in Payees : pay[x].st = "paying" => ptx # 0 /\ x \in signed[ptx]
    /\ ex.pc = "undo" => ptx = 0 /\ \A x \in Payees : pay[x].st = "paying" => x \in ex.todo
    /\ ex.pc = "mark" => ptx # 0 /\ ex.tx = ptx /\ ex.todo \subseteq signed[ptx] /\ ex.was = signed[ptx]
    /\ ex.pc = "broadcast" => ptx # 0 /\ ex.tx = ptx /\ (ex.was = {} \/ ex.was = signed[ptx])
    /\ ex.pc = "paid" => /\ ex.tx \in landed /\ ex.todo \subseteq signed[ex.tx]
                         /\ \A x \in Payees : pay[x].st = "paying" => x \in ex.todo
    /\ ex.pc = "sent" => sends[ex.at] > 0
PaidInv == Paying /\ \A x \in Payees : pay[x].st = "paid" => PaidHow(x)

\* What paid a row stays.
LEMMA PaidStays ==
    ASSUME Base, [Next]_vars, Base', landed \subseteq landed', \A t \in DOMAIN signed : signed'[t] = signed[t],
           \A x \in Payees : sends'[x] >= sends[x], NEW x \in Payees, PaidHow(x)
    PROVE  PaidHow(x)'
<1>1. CASE \E t \in landed : x \in signed[t]
  BY <1>1 DEF PaidHow, Base, ChainTyped
<1>2. CASE sends[x] > 0
  BY <1>2 DEF PaidHow, Base, ChainTyped, Counts
<1>3. CASE \E p \in Payouts : IsOut(p, x)
  BY <1>3, OutsStay DEF PaidHow, Base
<1> QED
  BY <1>1, <1>2, <1>3 DEF PaidHow

\* No step takes back what is on chain.
LEMMA ChainGrows ==
    ASSUME Base, [Next]_vars
    PROVE  /\ landed \subseteq landed' /\ (\A t \in DOMAIN signed : signed'[t] = signed[t])
           /\ \A x \in Payees : sends'[x] >= sends[x]
<1>1. ChainTyped /\ \A x \in Payees : sends[x] \in Nat
  BY DEF Base, ChainTyped, Counts
<1>2. CASE UNCHANGED vars \/ Create \/ Fund \/ Crash \/ ToWallets
  <2>1. UNCHANGED <<signed, landed, sends>>
    BY <1>1, <1>2, OpensDo, CrashDoes, WalletsLeave DEF vars, world
  <2> QED
    BY <1>1, <2>1
<1>3. CASE SnapshotBegin \/ SnapshotRow \/ SnapshotDone
  BY <1>1, <1>3, SnapshotsDo
<1>4. CASE ExecuteBegin \/ PlanRows \/ MarkPaying
  BY <1>1, <1>4, ExecuteDoes, PlanRowsDoes, MarkDoes
<1>5. CASE Submit
  BY <1>1, <1>5, SubmitDoes
<1>6. CASE Broadcast \/ Unreached \/ Refused
  BY <1>1, <1>6, BroadcastsDo
<1>7. CASE UndoRow \/ PaidRow \/ PaidAll \/ EachDone
  BY <1>1, <1>7, UndoDoes, PaidRowDoes, DonesDo
<1>8. CASE EachHolder \/ SentRow
  BY <1>1, <1>8, EachDoes, SentDoes
<1>9. CASE Send
  BY <1>1, <1>9, SendDoes DEF OneMore
<1> QED
  BY <1>2, <1>3, <1>4, <1>5, <1>6, <1>7, <1>8, <1>9, EveryStep

\* What a row that says paying rests on stays, step by step of the handler of the run.
LEMMA PayingStep ==
    ASSUME "undo" \notin Stops, Base, Paying, [Next]_vars
    PROVE  Paying'
<1>1. ChainTyped /\ RunInv /\ WalletsInv
  BY DEF Base
<1>2. CASE UNCHANGED vars
  BY <1>2 DEF vars, state, world, Paying
<1>3. CASE Create \/ Fund
  BY <1>1, <1>3, OpensDo DEF Paying
<1>4. CASE Crash
  <2>1. ex' = Idle /\ ex.pc # "undo" /\ UNCHANGED <<funded, ptx, pay, signed>>
    BY <1>1, <1>4, CrashDoes
  <2> QED
    BY <2>1, IdleTyped DEF Paying
<1>5. CASE ToWallets
  <2>1. UNCHANGED <<funded, ptx, signed, landed, sends, ex>>
    BY <1>5, WalletsLeave
  <2>2. ASSUME NEW x \in Payees, pay'[x].st = "paying" PROVE pay[x].st = "paying"
    BY <1>1, <1>5, <2>2, WalletsLeave, ListRowDoes, WentPays, ClaimsPay DEF Becomes
  <2> QED
    BY <2>1, <2>2 DEF Paying
<1>6. CASE SnapshotBegin \/ SnapshotRow \/ SnapshotDone
  BY <1>1, <1>6, SnapshotsDo, IdleTyped DEF Paying
<1>7. CASE ExecuteBegin
  BY <1>1, <1>7, ExecuteDoes DEF Paying
<1>8. CASE PlanRows
  BY <1>1, <1>8, PlanRowsDoes, IdleTyped DEF Paying
<1>9. CASE Submit
  <2>1. ASSUME NEW x \in Payees PROVE pay[x].st # "paying"
    BY <1>1, <1>9, SubmitDoes DEF RunInv, Paying
  <2> QED
    BY <1>1, <1>9, <2>1, SubmitDoes DEF Paying
<1>10. CASE MarkPaying
  <2>1. /\ ex.pc = "mark" /\ UNCHANGED <<funded, ptx, signed, landed, sends>>
        /\ \E x \in ex.todo : /\ Becomes(x, "paying") /\ x \in Payees
                              /\ \/ ExMoves("mark", ex.todo \ {x})
                                 \/ ExMoves("broadcast", {}) /\ ex.todo = {x}
    BY <1>1, <1>10, MarkDoes
  <2> QED
    BY <2>1 DEF Paying, ExMoves, Becomes
<1>11. CASE Broadcast \/ Unreached \/ Refused
  <2>1. /\ ex.pc = "broadcast" /\ UNCHANGED <<funded, pay, signed, sends>>
        /\ \/ /\ landed' = landed \cup {ex.tx} /\ UNCHANGED <<run, ptx>>
              /\ ExMoves("paid", RowsIn({"paying"})) \/ ex' = Idle
           \/ UNCHANGED <<landed, run, ptx>> /\ ex' = Idle
           \/ /\ landed' = landed /\ ex.tx \notin landed /\ run' = "snapshotted" /\ ptx' = 0
              /\ ex.was # {} /\ ExMoves("undo", ex.was)
    BY <1>1, <1>11, BroadcastsDo
  <2>2. ~funded
    BY <1>1, <2>1 DEF RunInv
  <2>3. CASE ex' = Idle /\ ptx' = ptx
    BY <2>1, <2>3, IdleTyped DEF Paying
  <2>4. CASE landed' = landed \cup {ex.tx} /\ ptx' = ptx /\ ExMoves("paid", RowsIn({"paying"}))
    BY <2>1, <2>2, <2>4 DEF Paying, ExMoves, RowsIn
  <2>5. CASE ptx' = 0 /\ ex.was # {} /\ ExMoves("undo", ex.was)
    BY <2>1, <2>2, <2>5 DEF Paying, ExMoves
  <2> QED
    BY <2>1, <2>3, <2>4, <2>5
<1>12. CASE UndoRow
  BY <1>1, <1>12, UndoDoes, IdleTyped DEF Paying, ExMoves, Becomes
<1>13. CASE PaidRow
  <2>1. ~funded
    BY <1>1, <1>13, PaidRowDoes DEF RunInv
  <2> QED
    BY <1>1, <1>13, <2>1, PaidRowDoes DEF Paying, ExMoves, Becomes
<1>14. CASE PaidAll \/ EachDone
  BY <1>1, <1>14, DonesDo, IdleTyped DEF Paying, RunInv
<1>15. CASE EachHolder
  <2>1. funded /\ ex'.pc \in {"send", "each"} /\ funded' = funded
    BY <1>1, <1>15, EachDoes DEF RunInv, ExMoves
  <2> QED
    BY <2>1 DEF Paying
<1>16. CASE Send
  <2>1. /\ funded /\ ex'.pc \in {"sent", "each"} /\ funded' = funded
        /\ ex'.pc = "sent" => ex'.at = ex.at /\ sends'[ex.at] = sends[ex.at] + 1 /\ sends[ex.at] \in Nat
    BY <1>1, <1>16, SendDoes DEF RunInv, ExMoves, OneMore, ChainTyped, Counts
  <2> QED
    BY <2>1 DEF Paying
<1>17. CASE SentRow
  <2>1. funded /\ ex'.pc = "each" /\ funded' = funded
    BY <1>1, <1>17, SentDoes DEF RunInv, ExMoves
  <2> QED
    BY <2>1 DEF Paying
<1> QED
  BY <1>2, <1>3, <1>4, <1>5, <1>6, <1>7, <1>8, <1>9, <1>10, <1>11, <1>12, <1>13, <1>14, <1>15, <1>16, <1>17, EveryStep

LEMMA PaidStep ==
    ASSUME "undo" \notin Stops, Base, PaidInv, [Next]_vars, Base'
    PROVE  PaidInv'
<1>1. ChainTyped /\ RunInv /\ WalletsInv /\ Paying
  BY DEF Base, PaidInv
<1>2. Paying'
  BY PayingStep DEF PaidInv
<1>3. ASSUME NEW x \in Payees, PaidHow(x) PROVE PaidHow(x)'
  BY <1>3, ChainGrows, PaidStays
<1>4. ASSUME NEW x \in Payees, pay'[x].st = "paid", pay[x].st # "paid" PROVE PaidHow(x)'
  <2>1. CASE UNCHANGED vars \/ Create \/ Fund \/ Crash
    BY <1>1, <1>4, <2>1, OpensDo, CrashDoes DEF vars, state
  <2>2. CASE ToWallets
    <3>1. CASE WentRow
      <4>1. PICK y \in Payees : /\ payout'[po.p].rows[y].st = "paid"
                                /\ (kind = "distribution" /\ Becomes(y, "paid")) \/ UNCHANGED pay
        BY <1>1, <3>1, WentPays
      <4>2. PICK p \in Payouts : p = po.p
        BY <1>1, <3>1, WentDoes
      <4>3. y = x
        BY <1>4, <4>1 DEF Becomes
      <4>4. IsOut(p, x)'
        BY <4>1, <4>2, <4>3 DEF IsOut, OutStates
      <4> QED
        BY <4>4 DEF PaidHow
    <3> QED
      BY <1>1, <1>4, <2>2, <3>1, WalletsLeave, ListRowDoes, ClaimsPay DEF Becomes
  <2>3. CASE SnapshotBegin \/ SnapshotRow \/ SnapshotDone
    BY <1>1, <1>4, <2>3, SnapshotsDo
  <2>4. CASE ExecuteBegin \/ PlanRows \/ Submit \/ Broadcast \/ Unreached \/ Refused \/ PaidAll \/ EachDone
    BY <1>1, <1>4, <2>4, ExecuteDoes, PlanRowsDoes, SubmitDoes, BroadcastsDo, DonesDo
  <2>5. CASE MarkPaying \/ UndoRow
    BY <1>1, <1>4, <2>5, MarkDoes, UndoDoes DEF Becomes
  <2>6. CASE PaidRow
    <3>1. PICK y \in ex.todo : Becomes(y, "paid") /\ y \in Payees
      BY <1>1, <2>6, PaidRowDoes
    <3>2. y = x
      BY <1>4, <3>1 DEF Becomes
    <3>3. ex.tx \in landed /\ x \in signed[ex.tx]
      BY <1>1, <2>6, <3>1, <3>2, PaidRowDoes DEF Paying
    <3> QED
      BY <1>3, <3>3 DEF PaidHow
  <2>7. CASE EachHolder
    <3>1. PICK y \in ex.todo : y \in Payees /\ (Becomes(y, "paying") \/ Becomes(y, "failed") \/ Becomes(y, Routes(y)))
      BY <1>1, <2>7, EachDoes
    <3>2. y = x /\ Routes(x) = "paid"
      BY <1>4, <3>1 DEF Becomes
    <3>3. sends[x] > 0
      BY <3>2 DEF Routes, Routed
    <3> QED
      BY <1>3, <3>3 DEF PaidHow
  <2>8. CASE Send
    BY <1>1, <1>4, <2>8, SendDoes DEF Becomes
  <2>9. CASE SentRow
    <3>1. ex.at = x
      BY <1>1, <1>4, <2>9, SentDoes DEF Becomes
    <3>2. sends[x] > 0
      BY <1>1, <2>9, <3>1, SentDoes DEF Paying
    <3> QED
      BY <1>3, <3>2 DEF PaidHow
  <2> QED
    BY <2>1, <2>2, <2>3, <2>4, <2>5, <2>6, <2>7, <2>8, <2>9, EveryStep
<1>5. \A x \in Payees : pay'[x].st = "paid" => PaidHow(x)'
  BY <1>3, <1>4 DEF PaidInv
<1> QED
  BY <1>2, <1>5 DEF PaidInv

LEMMA PaidHolds ==
    ASSUME "undo" \notin Stops
    PROVE  Spec => []PaidInv
<1>1. Init => PaidInv
  <2>1. Init => ex = Idle /\ \A x \in Payees : pay[x].st = "none"
    BY DEF Init, NoPay
  <2> QED
    BY <2>1, IdleTyped DEF PaidInv, Paying
<1>2. Base /\ PaidInv /\ [Next]_vars /\ Base' => PaidInv'
  BY PaidStep
<1> QED
  BY <1>1, <1>2, BaseHolds, PTL DEF Spec

\* The payments of a payee's rows that went out, one for each payout.
LEMMA OutsWent ==
    ASSUME WalletsInv, NEW p \in Payouts, NEW x \in Payees, IsOut(p, x)
    PROVE  payout[p].ref \in WentTo(x)
<1>1. payout[p].st \in {"paid", "complete"} /\ payout[p].ref \in Refs /\ payout[p].ref # "none"
  <2>1. payout[p] \in PayoutType /\ PayoutHeld(p) /\ payout[p].rows[x].st \in OutStates
    BY DEF WalletsInv, WalletsTyped, IsOut
  <2>2. payout[p].st \in {"paid", "complete"}
    BY <2>1 DEF PayoutType, PayoutHeld, OutStates, NoPayout, NoRow
  <2> QED
    BY <2>1, <2>2 DEF PayoutType, PayoutHeld
<1>2. service[payout[p].ref].st = "released" /\ x \in Lines(payout[p].ref)
  BY <1>1 DEF WalletsInv, PayoutHeld, Listed, IsOut, OutStates
<1>3. service[payout[p].ref].claim[x] # "none"
  BY <1>1, <1>2 DEF WalletsInv, ServiceHeld, Lines
<1> QED
  BY <1>1, <1>3 DEF WentTo, Recorded

\* The transactions that paid a payee.
TxsOf(x) == {t \in landed : x \in signed[t]}

LEMMA TxsFinite ==
    ASSUME ChainTyped, NEW x \in Payees
    PROVE  IsFiniteSet(TxsOf(x)) /\ Cardinality(TxsOf(x)) \in Nat /\ OnChain(x) = Cardinality(TxsOf(x)) + sends[x]
<1>1. DOMAIN signed = 1..Len(signed) /\ Len(signed) \in Nat
  BY DEF ChainTyped
<1>2. TxsOf(x) \in SUBSET (1..Len(signed))
  BY <1>1 DEF ChainTyped, TxsOf
<1>3. IsFiniteSet(TxsOf(x))
  <2>1. IsFiniteSet(1..Len(signed))
    BY <1>1, FS_Interval
  <2> QED
    BY <1>2, <2>1, FS_Subset
<1> QED
  BY <1>3, FS_CardinalityType DEF OnChain, TxsOf

\* A holder's row says paid only of a payment that went out, whoever found it: the
\* first attempt to send the run's transaction, a later one, the send out of a deposit,
\* or the watcher of a payment to wallets (distribution_tx.go: broadcastPayout;
\* distribution.go: payOneHolder; payouts.go: payoutWentOut), as long as the process does
\* not stop among the rows of a transaction that is being undone.
THEOREM PaidRowsWerePaid ==
    ASSUME "undo" \notin Stops
    PROVE  Spec => []PaidWasPaid
<1>1. ASSUME Base, PaidInv PROVE PaidWasPaid
  <2>1. ASSUME NEW x \in Payees, pay[x].st = "paid" PROVE OnChain(x) > 0 \/ WentTo(x) # {}
    <3>1. PaidHow(x) /\ ChainTyped /\ WalletsInv /\ sends[x] \in Nat
      BY <1>1, <2>1 DEF PaidInv, Base, ChainTyped, Counts
    <3>2. CASE \E t \in landed : x \in signed[t]
      <4>1. TxsOf(x) # {}
        BY <3>2 DEF TxsOf
      <4>2. Cardinality(TxsOf(x)) # 0
        BY <3>1, <4>1, TxsFinite, FS_EmptySet
      <4> QED
        BY <3>1, <4>2, TxsFinite
    <3>3. CASE sends[x] > 0
      BY <3>1, <3>3, TxsFinite
    <3>4. CASE \E p \in Payouts : IsOut(p, x)
      BY <3>1, <3>4, OutsWent
    <3> QED
      BY <3>1, <3>2, <3>3, <3>4 DEF PaidHow
  <2> QED
    BY <2>1 DEF PaidWasPaid
<1> QED
  BY <1>1, BaseHolds, PaidHolds, PTL

-----------------------------------------------------------------------------
(* The books.                                                               *)

OutsOf(x)  == {p \in Payouts : IsOut(p, x)}
BacksOf(x) == {p \in Payouts : payout[p].rows[x].st = "returned"}
Reached(x) == Cardinality(TxsOf(x)) + sends[x] + Cardinality(OutsOf(x))

\* A payment that reached a payee and is not booked yet.
Owes(x) == \/ ex.pc = "paid" /\ x \in ex.todo
           \/ ex.pc = "sent" /\ x = ex.at
           \/ ~funded /\ ptx \in landed /\ pay[x].st = "paying"
Booked  == /\ ex.pc = "mark" => ptx \notin landed
           /\ \A x \in Payees : ledger[x] <= Reached(x) /\ (Owes(x) => ledger[x] < Reached(x))
Rebooked == \A x \in Payees : returns[x] <= Cardinality(BacksOf(x))

LEMMA SetsFinite ==
    ASSUME NEW x \in Payees
    PROVE  /\ IsFiniteSet(OutsOf(x)) /\ Cardinality(OutsOf(x)) \in Nat
           /\ IsFiniteSet(BacksOf(x)) /\ Cardinality(BacksOf(x)) \in Nat
<1>1. OutsOf(x) \in SUBSET Payouts /\ BacksOf(x) \in SUBSET Payouts
  BY DEF OutsOf, BacksOf
<1> QED
  BY <1>1, ServicingAssumption, FS_Subset, FS_CardinalityType

LEMMA SetsFiniteNext ==
    ASSUME NEW x \in Payees
    PROVE  /\ IsFiniteSet(OutsOf(x)') /\ Cardinality(OutsOf(x)') \in Nat
           /\ IsFiniteSet(BacksOf(x)') /\ Cardinality(BacksOf(x)') \in Nat
<1>1. OutsOf(x)' \in SUBSET Payouts /\ BacksOf(x)' \in SUBSET Payouts
  BY DEF OutsOf, BacksOf
<1> QED
  BY <1>1, ServicingAssumption, FS_Subset, FS_CardinalityType

LEMMA TxsFiniteNext ==
    ASSUME ChainTyped', NEW x \in Payees
    PROVE  IsFiniteSet(TxsOf(x)') /\ Cardinality(TxsOf(x)') \in Nat
<1>1. DOMAIN signed' = 1..Len(signed') /\ Len(signed') \in Nat
  BY DEF ChainTyped
<1>2. TxsOf(x)' \in SUBSET (1..Len(signed'))
  BY <1>1 DEF ChainTyped, TxsOf
<1>3. IsFiniteSet(1..Len(signed'))
  BY <1>1, FS_Interval
<1> QED
  BY <1>2, <1>3, FS_Subset, FS_CardinalityType

\* What reached a payee only grows, by one at least where a payment of its own is new.
LEMMA ReachedGrows ==
    ASSUME Base, [Next]_vars, Base', NEW x \in Payees
    PROVE  /\ Reached(x) \in Nat /\ Reached(x)' \in Nat /\ Reached(x)' >= Reached(x)
           /\ (TxsOf(x)' # TxsOf(x)) \/ (sends'[x] # sends[x]) \/ (OutsOf(x)' # OutsOf(x)) => Reached(x)' > Reached(x)
<1> DEFINE a == Cardinality(TxsOf(x))
           b == Cardinality(TxsOf(x)')
           c == Cardinality(OutsOf(x))
           d == Cardinality(OutsOf(x)')
<1>1. ChainTyped /\ ChainTyped' /\ sends[x] \in Nat /\ sends'[x] \in Nat /\ sends'[x] >= sends[x]
  BY ChainGrows DEF Base, ChainTyped, Counts
<1>2. TxsOf(x) \in SUBSET (TxsOf(x)')
  BY <1>1, ChainGrows DEF TxsOf, ChainTyped
<1>3. OutsOf(x) \in SUBSET (OutsOf(x)')
  BY OutsStay DEF OutsOf, Base
<1>4. a \in Nat /\ b \in Nat /\ a <= b /\ (TxsOf(x)' # TxsOf(x) => a # b)
  BY <1>1, <1>2, TxsFinite, TxsFiniteNext, FS_Subset
<1>5. c \in Nat /\ d \in Nat /\ c <= d /\ (OutsOf(x)' # OutsOf(x) => c # d)
  BY <1>3, SetsFinite, SetsFiniteNext, FS_Subset
<1>6. Reached(x) = a + sends[x] + c /\ Reached(x)' = b + sends'[x] + d
  BY DEF Reached
<1> HIDE DEF a, b, c, d
<1> QED
  BY <1>1, <1>4, <1>5, <1>6

IsBooked(x) == ledger[x] <= Reached(x) /\ (Owes(x) => ledger[x] < Reached(x))

LEMMA NothingBooked ==
    ASSUME Base, Booked, [Next]_vars, Base', NEW x \in Payees, ledger'[x] = ledger[x], Owes(x)' => Owes(x)
    PROVE  IsBooked(x)'
<1>1. ledger[x] \in Nat /\ IsBooked(x)
  BY DEF Base, ChainTyped, Counts, Booked, IsBooked
<1>2. ledger'[x] <= Reached(x)' /\ (Owes(x)' => ledger'[x] < Reached(x)')
  BY <1>1, ReachedGrows DEF IsBooked
<1> QED
  BY <1>2 DEF IsBooked

LEMMA BookedStep ==
    ASSUME "undo" \notin Stops, Base, Paying, Booked, [Next]_vars, Base'
    PROVE  Booked'
<1>1. ChainTyped /\ RunInv /\ WalletsInv /\ landed \subseteq DOMAIN signed /\ 0 \notin DOMAIN signed
  BY DEF Base, ChainTyped
<1>2. CASE UNCHANGED vars \/ Create \/ Fund \/ Crash
  <2>1. /\ UNCHANGED <<funded, ptx, landed, pay, ledger>> /\ (ex' = ex \/ ex' = Idle)
    BY <1>1, <1>2, OpensDo, CrashDoes DEF vars, state, world
  <2>2. ASSUME NEW x \in Payees PROVE ledger'[x] = ledger[x] /\ (Owes(x)' => Owes(x))
    BY <2>1, IdleTyped DEF Owes
  <2>3. ex'.pc = "mark" => ptx' \notin landed'
    BY <2>1, IdleTyped DEF Booked
  <2> QED
    BY <2>2, <2>3, NothingBooked DEF Booked, IsBooked
<1>3. CASE ToWallets
  <2>1. UNCHANGED <<funded, ptx, signed, landed, sends, ex>>
    BY <1>3, WalletsLeave
  <2>2. ASSUME NEW x \in Payees, pay'[x].st = "paying" PROVE pay[x].st = "paying"
    BY <1>1, <1>3, <2>2, WalletsLeave, ListRowDoes, WentPays, ClaimsPay DEF Becomes
  <2>3. ASSUME NEW x \in Payees PROVE Owes(x)' => Owes(x)
    BY <2>1, <2>2 DEF Owes
  <2>4. ASSUME NEW x \in Payees PROVE IsBooked(x)'
    <3>1. CASE ledger'[x] = ledger[x]
      BY <2>3, <3>1, NothingBooked
    <3>2. CASE ledger'[x] # ledger[x]
      <4>1. WentRow
        BY <1>3, <3>2, WalletsLeave
      <4>2. PICK p \in Payouts : p = po.p
        BY <1>1, <4>1, WentDoes
      <4>3. PICK y \in Payees : /\ payout[p].rows[y].st = "pending" /\ payout'[p].rows[y].st = "paid"
                                /\ OneMore(ledger, ledger', y)
        BY <1>1, <4>1, <4>2, WentPays
      <4>4. y = x /\ ledger[x] \in Nat /\ ledger'[x] = ledger[x] + 1
        BY <1>1, <3>2, <4>3 DEF OneMore, ChainTyped, Counts
      <4>5. p \notin OutsOf(x) /\ p \in OutsOf(x)'
        BY <4>3, <4>4 DEF OutsOf, IsOut, OutStates
      <4>6. Reached(x)' > Reached(x) /\ Reached(x) \in Nat /\ Reached(x)' \in Nat
        BY <4>5, ReachedGrows
      <4>7. IsBooked(x)
        BY DEF Booked, IsBooked
      <4>8. ledger'[x] <= Reached(x)' /\ (Owes(x) => ledger'[x] < Reached(x)')
        BY <4>4, <4>6, <4>7 DEF IsBooked
      <4> QED
        BY <2>3, <4>8 DEF IsBooked
    <3> QED
      BY <3>1, <3>2
  <2>5. ex'.pc = "mark" => ptx' \notin landed'
    BY <2>1 DEF Booked
  <2> QED
    BY <2>4, <2>5 DEF Booked, IsBooked
<1>4. CASE SnapshotBegin \/ SnapshotRow \/ SnapshotDone \/ ExecuteBegin \/ PlanRows
  <2>1. /\ UNCHANGED <<funded, ptx, landed, ledger>>
        /\ ex'.pc \in {"snapshot", "idle", "each", "broadcast", "one"}
        /\ \A x \in Payees : pay'[x].st = "paying" => pay[x].st = "paying"
    BY <1>1, <1>4, SnapshotsDo, ExecuteDoes, PlanRowsDoes, IdleTyped
  <2>2. ASSUME NEW x \in Payees PROVE ledger'[x] = ledger[x] /\ (Owes(x)' => Owes(x))
    BY <2>1 DEF Owes
  <2> QED
    BY <2>1, <2>2, NothingBooked DEF Booked, IsBooked
<1>5. CASE Submit
  <2>1. UNCHANGED <<funded, landed, ledger, pay>> /\ ptx' \notin DOMAIN signed /\ ex'.pc = "mark"
    BY <1>1, <1>5, SubmitDoes
  <2>2. ASSUME NEW x \in Payees PROVE ledger'[x] = ledger[x] /\ ~Owes(x)'
    BY <1>1, <2>1 DEF Owes
  <2> QED
    BY <1>1, <2>1, <2>2, NothingBooked DEF Booked, IsBooked
<1>6. CASE MarkPaying \/ UndoRow
  <2>1. /\ ptx \notin landed /\ UNCHANGED <<funded, ptx, landed, ledger>>
        /\ ex'.pc \in {"mark", "broadcast", "undo", "idle"}
    BY <1>1, <1>6, MarkDoes, UndoDoes, IdleTyped DEF Booked, Paying, ExMoves
  <2>2. ASSUME NEW x \in Payees PROVE ledger'[x] = ledger[x] /\ ~Owes(x)'
    BY <2>1 DEF Owes
  <2> QED
    BY <2>1, <2>2, NothingBooked DEF Booked, IsBooked
<1>7. CASE Broadcast \/ Unreached \/ Refused
  <2>1. /\ ex.pc = "broadcast" /\ UNCHANGED <<funded, pay, signed, sends, ledger>>
        /\ \/ /\ landed' = landed \cup {ex.tx} /\ UNCHANGED <<run, ptx>>
              /\ ExMoves("paid", RowsIn({"paying"})) \/ ex' = Idle
           \/ UNCHANGED <<landed, run, ptx>> /\ ex' = Idle
           \/ /\ landed' = landed /\ ex.tx \notin landed /\ run' = "snapshotted" /\ ptx' = 0
              /\ ex.was # {} /\ ExMoves("undo", ex.was)
    BY <1>1, <1>7, BroadcastsDo
  <2>2. ~funded /\ ex.tx = ptx /\ ex'.pc # "mark" /\ ex'.pc # "sent"
    BY <1>1, <2>1, IdleTyped DEF RunInv, Paying, ExMoves
  <2>3. ASSUME NEW x \in Payees PROVE IsBooked(x)'
    <3>1. CASE Owes(x)' => Owes(x)
      BY <2>1, <3>1, NothingBooked
    <3>2. CASE Owes(x)' /\ ~Owes(x)
      <4>1. pay[x].st = "paying" /\ landed' = landed \cup {ptx} /\ ptx \notin landed
        BY <1>1, <2>1, <2>2, <3>2, IdleTyped DEF Owes, ExMoves, RowsIn
      <4>2. x \in signed[ptx]
        BY <2>1, <2>2, <4>1 DEF Paying
      <4>3. ptx \notin TxsOf(x) /\ ptx \in TxsOf(x)'
        BY <2>1, <4>1, <4>2 DEF TxsOf
      <4>4. Reached(x)' > Reached(x) /\ Reached(x) \in Nat /\ Reached(x)' \in Nat
        BY <4>3, ReachedGrows
      <4>5. ledger'[x] = ledger[x] /\ ledger[x] \in Nat /\ ledger[x] <= Reached(x)
        BY <1>1, <2>1 DEF Booked, ChainTyped, Counts
      <4>6. ledger'[x] < Reached(x)'
        BY <4>4, <4>5
      <4> QED
        BY <4>4, <4>5, <4>6 DEF IsBooked
    <3> QED
      BY <3>1, <3>2
  <2> QED
    BY <2>2, <2>3 DEF Booked, IsBooked
<1>8. CASE PaidRow
  <2>1. PICK x \in ex.todo : /\ Becomes(x, "paid") /\ x \in Payees /\ OneMore(ledger, ledger', x)
                             /\ ExMoves("paid", ex.todo \ {x})
    BY <1>1, <1>8, PaidRowDoes
  <2>2. ex.pc = "paid" /\ UNCHANGED <<funded, ptx, landed>>
    BY <1>1, <1>8, PaidRowDoes
  <2>3. Owes(x) /\ ~Owes(x)'
    BY <2>1, <2>2 DEF Owes, Becomes, ExMoves
  <2>4. IsBooked(x)'
    <3>1. ledger[x] < Reached(x) /\ ledger[x] \in Nat /\ ledger'[x] = ledger[x] + 1
      BY <1>1, <2>1, <2>3 DEF Booked, OneMore, ChainTyped, Counts
    <3>2. ledger'[x] <= Reached(x)'
      BY <2>1, <3>1, ReachedGrows
    <3> QED
      BY <2>3, <3>2 DEF IsBooked
  <2>5. ASSUME NEW y \in Payees, y # x PROVE IsBooked(y)'
    <3>1. ledger'[y] = ledger[y] /\ (Owes(y)' => Owes(y))
      BY <2>1, <2>2, <2>5 DEF Owes, Becomes, ExMoves, OneMore
    <3> QED
      BY <3>1, NothingBooked
  <2> QED
    BY <2>1, <2>4, <2>5 DEF Booked, IsBooked, ExMoves
<1>9. CASE PaidAll \/ EachDone
  <2>1. UNCHANGED <<funded, landed, ledger, pay>> /\ ptx' \in {ptx, 0} /\ ex'.pc = "idle"
    BY <1>1, <1>9, DonesDo, IdleTyped
  <2>2. ASSUME NEW x \in Payees PROVE ledger'[x] = ledger[x] /\ (Owes(x)' => Owes(x))
    BY <1>1, <2>1 DEF Owes
  <2> QED
    BY <2>1, <2>2, NothingBooked DEF Booked, IsBooked
<1>10. CASE EachHolder
  <2>1. funded /\ UNCHANGED <<funded, ledger>> /\ ex'.pc \in {"send", "each"}
    BY <1>1, <1>10, EachDoes DEF RunInv, ExMoves
  <2>2. ASSUME NEW x \in Payees PROVE ledger'[x] = ledger[x] /\ ~Owes(x)'
    BY <2>1 DEF Owes
  <2> QED
    BY <2>1, <2>2, NothingBooked DEF Booked, IsBooked
<1>11. CASE Send
  <2>1. /\ funded /\ UNCHANGED <<funded, ledger>> /\ ex'.pc \in {"sent", "each"}
        /\ ex'.pc = "sent" => ex'.at = ex.at /\ OneMore(sends, sends', ex.at)
        /\ ex.at \in Payees /\ ex.pc = "send"
    BY <1>1, <1>11, SendDoes DEF RunInv, ExMoves
  <2>2. ASSUME NEW x \in Payees PROVE IsBooked(x)'
    <3>1. CASE ~Owes(x)'
      BY <2>1, <3>1, NothingBooked
    <3>2. CASE Owes(x)'
      <4>1. x = ex.at /\ sends'[x] = sends[x] + 1 /\ sends[x] \in Nat
        BY <1>1, <2>1, <3>2 DEF Owes, OneMore, ChainTyped, Counts
      <4>2. sends'[x] # sends[x]
        BY <4>1
      <4>3. Reached(x)' > Reached(x) /\ Reached(x) \in Nat /\ Reached(x)' \in Nat
        BY <4>2, ReachedGrows
      <4>4. ledger'[x] = ledger[x] /\ ledger[x] \in Nat /\ ledger[x] <= Reached(x)
        BY <1>1, <2>1 DEF Booked, ChainTyped, Counts
      <4>5. ledger'[x] < Reached(x)'
        BY <4>3, <4>4
      <4> QED
        BY <4>3, <4>4, <4>5 DEF IsBooked
    <3> QED
      BY <3>1, <3>2
  <2> QED
    BY <2>1, <2>2 DEF Booked, IsBooked
<1>12. CASE SentRow
  <2>1. PICK x \in Payees : x = ex.at
    BY <1>1, <1>12, SentDoes
  <2>2. /\ funded /\ funded' = funded /\ ex.pc = "sent" /\ ex'.pc = "each" /\ OneMore(ledger, ledger', x)
    BY <1>1, <1>12, <2>1, SentDoes DEF RunInv, ExMoves
  <2>3. ASSUME NEW y \in Payees PROVE ~Owes(y)'
    BY <2>2 DEF Owes
  <2>4. IsBooked(x)'
    <3>1. ledger[x] < Reached(x) /\ ledger[x] \in Nat /\ ledger'[x] = ledger[x] + 1
      BY <1>1, <2>1, <2>2 DEF Booked, Owes, OneMore, ChainTyped, Counts
    <3>2. ledger'[x] <= Reached(x)'
      BY <3>1, ReachedGrows
    <3> QED
      BY <2>3, <3>2 DEF IsBooked
  <2>5. ASSUME NEW y \in Payees, y # x PROVE IsBooked(y)'
    BY <2>2, <2>3, <2>5, NothingBooked DEF OneMore
  <2> QED
    BY <2>2, <2>4, <2>5 DEF Booked, IsBooked
<1> QED
  BY <1>2, <1>3, <1>4, <1>5, <1>6, <1>7, <1>8, <1>9, <1>10, <1>11, <1>12, EveryStep

LEMMA BookedHolds ==
    ASSUME "undo" \notin Stops
    PROVE  Spec => []Booked
<1>1. ASSUME Init PROVE Booked
  <2>1. ex.pc = "idle" /\ landed = {} /\ \A x \in Payees : ledger[x] = 0
    BY <1>1, IdleTyped DEF Init
  <2>2. ASSUME NEW x \in Payees PROVE Reached(x) \in Nat
    <3>1. Cardinality(TxsOf(x)) \in Nat /\ sends[x] \in Nat
      BY <1>1, ChainStart, TxsFinite DEF ChainTyped, Counts
    <3>2. Cardinality(OutsOf(x)) \in Nat
      BY SetsFinite
    <3> QED
      BY <3>1, <3>2 DEF Reached
  <2> QED
    BY <2>1, <2>2 DEF Booked, Owes
<1>2. Base /\ PaidInv /\ Booked /\ [Next]_vars /\ Base' => Booked'
  BY BookedStep DEF PaidInv
<1> QED
  BY <1>1, <1>2, BaseHolds, PaidHolds, PTL DEF Spec

\* A return is booked with the row that first says returned.
LEMMA RebookedStep ==
    ASSUME Base, RowsInv, Rebooked, [Next]_vars
    PROVE  Rebooked'
<1>1. CASE FollowClaims
  <2>1. PICK p \in Payouts :
        /\ p = po.p /\ Others(p) /\ payout[p].st = "paid"
        /\ \A x \in Payees :
              /\ payout'[p].rows[x].st = IF x \in Seen("claimed") THEN "collected"
                                         ELSE IF x \in NewlyBack THEN "returned" ELSE payout[p].rows[x].st
    BY <1>1, ClaimsDoes DEF Base
  <2>2. \A x \in Payees : returns'[x] = IF x \in NewlyBack THEN returns[x] + 1 ELSE returns[x]
    BY <1>1, ClaimsPay DEF Base
  <2>3. /\ \A x \in Seen("claimed") : service[payout[p].ref].claim[x] = "claimed"
        /\ \A x \in Seen("returned") : service[payout[p].ref].claim[x] = "returned"
    BY <1>1, <2>1, SeenTrue DEF Base, FollowClaims
  <2>4. NewlyBack = {x \in Seen("returned") : payout[p].rows[x].st # "returned"}
    BY <2>1 DEF NewlyBack, Unbooked
  <2>5. ASSUME NEW x \in Payees PROVE returns'[x] <= Cardinality(BacksOf(x)')
    <3>1. BacksOf(x) \in SUBSET (BacksOf(x)')
      <4>1. payout[p].rows[x].st = "returned" => service[payout[p].ref].claim[x] = "returned"
        BY <2>1 DEF RowsInv, RowHeld
      <4>2. payout[p].rows[x].st = "returned" => payout'[p].rows[x].st = "returned"
        BY <2>1, <2>3, <2>4, <4>1
      <4> QED
        BY <2>1, <4>2 DEF BacksOf, Others
    <3>2. x \in NewlyBack => BacksOf(x) # BacksOf(x)'
      <4>1. x \in NewlyBack => payout'[p].rows[x].st = "returned" /\ payout[p].rows[x].st # "returned"
        BY <2>1, <2>3, <2>4
      <4> QED
        BY <2>1, <4>1 DEF BacksOf
    <3> DEFINE a == Cardinality(BacksOf(x))
               b == Cardinality(BacksOf(x)')
    <3>3. a \in Nat /\ b \in Nat /\ a <= b /\ (BacksOf(x) # BacksOf(x)' => a # b)
      BY <3>1, SetsFinite, SetsFiniteNext, FS_Subset
    <3>4. returns[x] \in Nat /\ returns[x] <= a
      BY DEF Base, ChainTyped, Counts, Rebooked
    <3> HIDE DEF a, b
    <3>5. returns'[x] <= b
      BY <2>2, <3>2, <3>3, <3>4
    <3> QED
      BY <3>5 DEF b
  <2> QED
    BY <2>5 DEF Rebooked
<1>2. CASE ~FollowClaims
  <2>1. UNCHANGED returns
    <3>1. UNCHANGED vars \/ Create \/ Fund \/ Crash \/ ToWallets \/ Chain
      BY EveryStep DEF Chain
    <3> QED
      BY <1>2, <3>1, ChainLeaves, WalletsLeave DEF Crash, state, vars
  <2>2. ASSUME NEW x \in Payees PROVE returns'[x] <= Cardinality(BacksOf(x)')
    <3>1. BacksOf(x) \in SUBSET (BacksOf(x)')
      BY <1>2, OutsStay DEF Base, BacksOf, IsOut, OutStates
    <3> DEFINE a == Cardinality(BacksOf(x))
               b == Cardinality(BacksOf(x)')
    <3>2. a \in Nat /\ b \in Nat /\ a <= b
      BY <3>1, SetsFinite, SetsFiniteNext, FS_Subset
    <3>3. returns[x] \in Nat /\ returns[x] <= a
      BY DEF Base, ChainTyped, Counts, Rebooked
    <3> HIDE DEF a, b
    <3>4. returns'[x] <= b
      BY <2>1, <3>2, <3>3
    <3> QED
      BY <3>4 DEF b
  <2> QED
    BY <2>2 DEF Rebooked
<1> QED
  BY <1>1, <1>2

LEMMA RebookedHolds ==
    ASSUME TakenBack
    PROVE  Spec => []Rebooked
<1>1. ASSUME Init PROVE Rebooked
  <2>1. \A x \in Payees : returns[x] = 0
    BY <1>1 DEF Init
  <2> QED
    BY <2>1, SetsFinite DEF Rebooked
<1>2. Base /\ RowsInv /\ Rebooked /\ [Next]_vars => Rebooked'
  BY RebookedStep
<1> QED
  BY <1>1, <1>2, BaseHolds, RowsHold, PTL DEF Spec

\* There are no more references than payouts.
LEMMA RecordedFinite ==
    ASSUME NEW x \in Payees
    PROVE  /\ IsFiniteSet(WentTo(x)) /\ Cardinality(WentTo(x)) \in Nat
           /\ IsFiniteSet(Returned(x)) /\ Cardinality(Returned(x)) \in Nat
<1> DEFINE f == [r \in Recorded |-> CHOOSE p \in Payouts : payout[p].ref = r]
<1>1. ASSUME NEW r \in Recorded PROVE f[r] \in Payouts /\ payout[f[r]].ref = r
  BY <1>1 DEF Recorded
<1>2. f \in Injection(Recorded, Payouts)
  <2>1. f \in [Recorded -> Payouts]
    BY <1>1
  <2>2. \A a, b \in Recorded : f[a] = f[b] => a = b
    BY <1>1
  <2> HIDE DEF f
  <2> QED
    BY <2>1, <2>2 DEF Injection, IsInjective
<1>3. IsFiniteSet(Recorded)
  BY <1>2, ServicingAssumption, FS_Injection
<1>4. WentTo(x) \in SUBSET Recorded /\ Returned(x) \in SUBSET Recorded
  BY DEF WentTo, Returned
<1> QED
  BY <1>3, <1>4, FS_Subset, FS_CardinalityType

\* A payment, or a return, of each payout that says so, and different ones.
LEMMA OutsAreWent ==
    ASSUME WalletsInv, NEW x \in Payees
    PROVE  Cardinality(OutsOf(x)) <= Cardinality(WentTo(x))
<1> DEFINE f == [p \in OutsOf(x) |-> payout[p].ref]
<1>1. ASSUME NEW p \in OutsOf(x) PROVE f[p] \in WentTo(x)
  BY OutsWent DEF OutsOf
<1>2. ASSUME NEW p \in OutsOf(x), NEW q \in OutsOf(x), f[p] = f[q] PROVE p = q
  <2>1. p \in Payouts /\ q \in Payouts /\ payout[p].ref = payout[q].ref /\ payout[p].ref \in Refs
    BY <1>1, <1>2 DEF OutsOf, WentTo, Recorded
  <2> QED
    BY <2>1, ServicingAssumption DEF WalletsInv, RefsApart
<1>3. f \in Injection(OutsOf(x), WentTo(x))
  <2>1. f \in [OutsOf(x) -> WentTo(x)]
    BY <1>1
  <2> HIDE DEF f
  <2> QED
    BY <1>2, <2>1 DEF Injection, IsInjective
<1> QED
  BY <1>3, RecordedFinite, FS_Injection

LEMMA BacksAreReturned ==
    ASSUME WalletsInv, RowsInv, NEW x \in Payees
    PROVE  Cardinality(BacksOf(x)) <= Cardinality(Returned(x))
<1> DEFINE f == [p \in BacksOf(x) |-> payout[p].ref]
<1>1. ASSUME NEW p \in BacksOf(x) PROVE f[p] \in Returned(x)
  <2>1. p \in Payouts /\ payout[p].rows[x].st = "returned" /\ IsOut(p, x)
    BY DEF BacksOf, IsOut, OutStates
  <2>2. service[payout[p].ref].claim[x] = "returned"
    BY <2>1 DEF RowsInv, RowHeld
  <2>3. payout[p].ref \in Recorded
    BY <2>1, OutsWent DEF WentTo
  <2> QED
    BY <2>2, <2>3 DEF Returned
<1>2. ASSUME NEW p \in BacksOf(x), NEW q \in BacksOf(x), f[p] = f[q] PROVE p = q
  <2>1. p \in Payouts /\ q \in Payouts /\ payout[p].ref = payout[q].ref /\ payout[p].ref \in Refs
    BY <1>1, <1>2 DEF BacksOf, Returned, Recorded
  <2> QED
    BY <2>1, ServicingAssumption DEF WalletsInv, RefsApart
<1>3. f \in Injection(BacksOf(x), Returned(x))
  <2>1. f \in [BacksOf(x) -> Returned(x)]
    BY <1>1
  <2> HIDE DEF f
  <2> QED
    BY <1>2, <2>1 DEF Injection, IsInjective
<1> QED
  BY <1>3, RecordedFinite, FS_Injection

\* The ledger books no payment and no return that did not happen, and none twice: the
\* rows of a transaction are booked one by one after the network has it, and again after
\* a stop; each send is booked with its row; the watcher books each wallet's payment and
\* its return once, though it reads the claims again at every round (distribution_tx.go:
\* broadcastPayout; distribution.go: payOneHolder; payouts.go: payoutWentOut, recordReturn),
\* as long as the process stops neither among the writes that take the indexes of a void
\* payment back nor among the rows of a transaction that is being undone.
THEOREM BookedIsWhatHappened ==
    ASSUME TakenBack, "undo" \notin Stops
    PROVE  Spec => []BooksTrue
<1>1. ASSUME Base, RowsInv, Booked, Rebooked PROVE BooksTrue
  <2>1. ASSUME NEW x \in Payees
        PROVE  ledger[x] <= OnChain(x) + Cardinality(WentTo(x)) /\ returns[x] <= Cardinality(Returned(x))
    <3> DEFINE a == Cardinality(TxsOf(x))
               b == Cardinality(OutsOf(x))
               c == Cardinality(WentTo(x))
               d == Cardinality(BacksOf(x))
               e == Cardinality(Returned(x))
    <3>1. WalletsInv /\ ChainTyped /\ ledger[x] \in Nat /\ returns[x] \in Nat /\ sends[x] \in Nat
      BY <1>1 DEF Base, ChainTyped, Counts
    <3>2. OnChain(x) = a + sends[x] /\ a \in Nat
      BY <3>1, TxsFinite
    <3>3. b \in Nat /\ c \in Nat /\ b <= c
      BY <3>1, SetsFinite, RecordedFinite, OutsAreWent
    <3>4. d \in Nat /\ e \in Nat /\ d <= e
      BY <1>1, <3>1, SetsFinite, RecordedFinite, BacksAreReturned
    <3>5. ledger[x] <= a + sends[x] + b /\ returns[x] <= d
      BY <1>1 DEF Booked, Rebooked, Reached
    <3> HIDE DEF a, b, c, d, e
    <3>6. ledger[x] <= OnChain(x) + c /\ returns[x] <= e
      BY <3>1, <3>2, <3>3, <3>4, <3>5
    <3> QED
      BY <3>6 DEF c, e
  <2> QED
    BY <2>1 DEF BooksTrue
<1> QED
  BY <1>1, BaseHolds, RowsHold, BookedHolds, RebookedHolds, PTL

-----------------------------------------------------------------------------
(* What the run pays on chain.                                              *)

\* A run is paid to wallets once it has a payout, and on chain until then.
Phase == \A p \in Payouts : payout[p].st = "none"
Apart == po.pc # "idle" \/ ~Phase => ex.pc = "idle"

\* The transactions that are out pay nobody twice, the one that may still go out pays
\* nobody they paid, and the rows say whom both pay.
OneTx ==
    /\ \A t, u \in landed : \A x \in Payees : x \in signed[t] /\ x \in signed[u] => t = u
    /\ ptx # 0 => \A u \in landed, x \in Payees : x \in signed[ptx] /\ x \in signed[u] => u = ptx
    /\ Phase => \A u \in landed : \A x \in signed[u] : pay[x].st \in {"paid", "paying"}
    /\ Phase /\ ptx # 0 => \A x \in signed[ptx] : pay[x].st \in {"paid", "paying"} \/ (ex.pc = "mark" /\ x \in ex.todo)
    /\ ex.pc = "mark" => ptx # 0 /\ ptx \notin landed /\ ex.tx = ptx /\ ex.was = signed[ptx]
    /\ ex.pc = "broadcast" => ptx # 0 /\ ex.tx = ptx /\ (ex.was = {} \/ ex.was = signed[ptx])
    /\ ex.pc = "undo" => ptx = 0 /\ \A x \in ex.todo, u \in landed : x \notin signed[u]

\* No answer of the servicing wallet is lost.
Answered == "blurred" \in DOMAIN budget /\ budget["blurred"] = 0

\* A send is not made again: its row says paid, or paying and is looked for first.
OneSend ==
    /\ \A x \in Payees : sends[x] <= 1
    /\ Phase => \A x \in Payees : sends[x] > 0 => Routed(x) = "planned" /\ pay[x].st \in {"paid", "paying"}
    /\ ex.pc = "send" => /\ sends[ex.at] = 0 /\ ex.at \notin ex.todo
                         /\ Routed(ex.at) = "planned" /\ pay[ex.at].st = "paying"
    /\ ex.pc \in {"each", "send", "sent"} => \A x \in ex.todo : sends[x] > 0 => x \in ex.was

LEMMA AnsweredHolds ==
    ASSUME MaxBlurred = 0
    PROVE  Spec => []Answered
<1>1. Init => Answered
  BY DEF Init, Answered
<1>2. ASSUME Answered, [Next]_vars PROVE Answered'
  <2>1. CASE UNCHANGED budget
    BY <1>2, <2>1 DEF Answered
  <2>2. CASE \E f \in {"crash", "lost", "check"} : Inject(f)
    BY <1>2, <2>2 DEF Answered, Inject
  <2>3. ~Inject("blurred")
    BY <1>2 DEF Answered, Inject
  <2>4. UNCHANGED budget \/ \E f \in {"crash", "lost", "check", "blurred"} : Inject(f)
    <3>1. CASE UNCHANGED vars \/ Create \/ Fund \/ Crash
      BY <3>1 DEF vars, Create, Fund, Crash
    <3>2. CASE ToWallets
      BY <3>2, WalletsLeave
    <3>3. CASE SnapshotBegin \/ SnapshotRow \/ SnapshotDone \/ ExecuteBegin \/ PlanRows
      BY <3>3 DEF SnapshotBegin, SnapshotRow, SnapshotDone, ExecuteBegin, PlanRows
    <3>4. CASE Submit \/ MarkPaying \/ Broadcast \/ Unreached \/ Refused
      BY <3>4 DEF Submit, MarkPaying, Broadcast, Unreached, Refused
    <3>5. CASE UndoRow \/ PaidRow \/ PaidAll \/ EachHolder \/ Send \/ SentRow \/ EachDone
      BY <3>5 DEF UndoRow, PaidRow, PaidAll, EachHolder, Send, SentRow, EachDone
    <3> QED
      BY <1>2, <3>1, <3>2, <3>3, <3>4, <3>5, EveryStep
  <2> QED
    BY <2>1, <2>2, <2>3, <2>4
<1> QED
  BY <1>1, <1>2, PTL DEF Spec

\* A payout, once planned, is never forgotten.
LEMMA SetRowKeeps ==
    ASSUME WalletsTyped, NEW p \in Payouts, NEW x \in Payees, NEW st, NEW i, SetRow(p, x, st, i)
    PROVE  \A q \in Payouts : payout'[q].st = payout[q].st
<1> DEFINE new == [payout[p] EXCEPT !.rows = [payout[p].rows EXCEPT ![x] = [st |-> st, idx |-> i]]]
<1>1. payout[p] \in PayoutType
  BY DEF WalletsTyped
<1>2. new.st = payout[p].st
  BY <1>1 DEF PayoutType
<1>3. payout' = [payout EXCEPT ![p] = new]
  BY DEF SetRow
<1> HIDE DEF new
<1> QED
  BY <1>2, <1>3 DEF WalletsTyped

LEMMA PhaseEnds ==
    ASSUME WalletsInv, ToWallets, NEW p \in Payouts, payout'[p].st = "none"
    PROVE  payout[p].st = "none"
<1>1. CASE UNCHANGED payout
  BY <1>1
<1>2. CASE ListInsert \/ RefundPlan
  BY <1>1, <1>2, PlansDo DEF Planned, Others
<1>3. CASE Moves
  BY <1>3, MovesDo
<1>4. CASE Service
  BY <1>4, ServiceDoes DEF state
<1>5. CASE \E q \in Payouts, r \in Refs : Reference(q, r)
  BY <1>5, ReferenceDoes DEF Others
<1>6. CASE IndexRow \/ VoidRow
  <2>1. PICK q \in Payouts : q = po.p
    BY <1>6, IndexDoes, VoidRowDoes
  <2>2. PICK x \in po.todo : \E st, i : SetRow(q, x, st, i)
    BY <1>6, <2>1, IndexDoes, VoidRowDoes
  <2>3. x \in Payees /\ WalletsTyped
    BY <2>2 DEF WalletsInv, WalletsTyped, PoType
  <2> QED
    BY <2>2, <2>3, SetRowKeeps
<1>7. CASE FollowVoid
  BY <1>7, VoidDoes DEF Others
<1>8. CASE FollowOut
  BY <1>8, OutDoes DEF Others
<1>9. CASE WentRow
  <2>1. PICK q \in Payouts : q = po.p
    BY <1>9, WentDoes
  <2>2. PICK x \in po.todo : SetRow(q, x, "paid", payout[q].rows[x].idx)
    BY <1>9, <2>1, WentDoes
  <2>3. x \in Payees /\ WalletsTyped
    BY <2>2 DEF WalletsInv, WalletsTyped, PoType
  <2> QED
    BY <2>2, <2>3, SetRowKeeps
<1>10. CASE FollowClaims
  <2>1. PICK q \in Payouts : q = po.p /\ Others(q) /\ payout'[q].st \in {"complete", "paid"}
    BY <1>10, ClaimsDoes
  <2> QED
    BY <2>1 DEF Others
<1> QED
  BY <1>2, <1>3, <1>4, <1>5, <1>6, <1>7, <1>8, <1>9, <1>10 DEF ToWallets

\* While the run has no payout, nothing of what is paid to wallets touches its rows.
LEMMA PhaseLeaves ==
    ASSUME Base, ToWallets, Phase'
    PROVE  Phase /\ UNCHANGED pay
<1>1. Phase
  BY PhaseEnds DEF Phase, Base
<1>2. ASSUME ListRow \/ WentRow \/ FollowClaims PROVE \E p \in Payouts : payout[p].st # "none"
  BY <1>2, ListRowDoes, WentDoes, ClaimsDoes DEF Base
<1> QED
  BY <1>1, <1>2, WalletsLeave DEF Phase

\* What the handler of the run does leaves the phase, and the other handler, alone.
LEMMA ChainKeepsPhase ==
    ASSUME UNCHANGED vars \/ Create \/ Fund \/ Chain
    PROVE  Phase' = Phase /\ po' = po
  BY ChainLeaves DEF Phase, vars, state

LEMMA ApartStep ==
    ASSUME ~Overlap, Base, Apart, [Next]_vars
    PROVE  Apart'
<1>1. CASE UNCHANGED vars \/ Create \/ Fund
  <2>1. ex' = ex
    BY <1>1 DEF vars, Create, Fund
  <2> QED
    BY <1>1, <2>1, ChainKeepsPhase DEF Apart
<1>2. CASE Crash
  BY <1>2, IdleTyped DEF Crash, Apart
<1>3. CASE ToWallets
  <2>1. ex' = ex
    BY <1>3, WalletsLeave
  <2>2. ASSUME ex.pc # "idle" PROVE UNCHANGED <<payout, po>>
    <3>1. po.pc = "idle" /\ Phase /\ kind # "refund"
      BY <2>2 DEF Apart, Base, RunInv
    <3>2. CASE Service
      BY <3>2, ServiceDoes DEF Base, state
    <3>3. ~ListInsert /\ ~RefundPlan /\ ~ListBegin
      BY <2>2, <3>1 DEF ListInsert, RefundPlan, ListBegin
    <3>4. ~ListRow /\ ~ListDone /\ ~FollowLater /\ ~WentOut
      BY <3>1 DEF ListRow, ListDone, FollowLater, WentOut
    <3>5. ~\E p \in Payouts : FollowBegin(p)
      BY <3>1 DEF FollowBegin, Phase
    <3>6. ~\E p \in Payouts, r \in Refs : Reference(p, r)
      BY <3>1 DEF Reference, Phase
    <3>7. ~IndexRow /\ ~FollowVoid /\ ~VoidRow /\ ~FollowOut /\ ~WentRow /\ ~FollowClaims
      BY <3>1 DEF IndexRow, FollowVoid, VoidRow, FollowOut, WentRow, FollowClaims
    <3> QED
      BY <1>3, <3>2, <3>3, <3>4, <3>5, <3>6, <3>7 DEF ToWallets, Moves
  <2> QED
    BY <2>1, <2>2 DEF Apart, Phase
<1>4. CASE SnapshotBegin \/ ExecuteBegin
  <2>1. po.pc = "idle" /\ Phase
    <3>1. CASE SnapshotBegin
      <4>1. run \in {"open", "funded"}
        BY <3>1 DEF SnapshotBegin
      <4>2. po.pc # "list" /\ Phase
        BY <4>1 DEF Base, RunInv, Early, Phase
      <4>3. po \in PoType /\ PoHeld
        BY DEF Base, WalletsInv, WalletsTyped
      <4> QED
        BY <4>2, <4>3 DEF PoType, PoSteps, PoHeld, Phase
    <3>2. CASE ExecuteBegin
      BY <3>2 DEF ExecuteBegin, Phase
    <3> QED
      BY <1>4, <3>1, <3>2
  <2> QED
    BY <1>4, <2>1, ChainKeepsPhase DEF Apart, Chain
<1>5. CASE Chain /\ ~SnapshotBegin /\ ~ExecuteBegin
  <2>1. ex.pc # "idle"
    <3>1. CASE SnapshotRow \/ SnapshotDone \/ PlanRows \/ Submit \/ MarkPaying \/ Broadcast \/ Unreached \/ Refused
      BY <3>1 DEF SnapshotRow, SnapshotDone, PlanRows, Submit, MarkPaying, Broadcast, Unreached, Refused
    <3>2. CASE UndoRow \/ PaidRow \/ PaidAll \/ EachHolder \/ Send \/ SentRow \/ EachDone
      BY <3>2 DEF UndoRow, PaidRow, PaidAll, EachHolder, Send, SentRow, EachDone
    <3> QED
      BY <1>5, <3>1, <3>2 DEF Chain
  <2> QED
    BY <1>5, <2>1, ChainKeepsPhase DEF Apart
<1> QED
  BY <1>1, <1>2, <1>3, <1>4, <1>5, EveryStep DEF Chain

\* What the transactions that are out, and the one that may go out, rest on.
LEMMA OneTxStep ==
    ASSUME "mark" \notin Stops, Base, Apart, OneTx, [Next]_vars, Base'
    PROVE  OneTx'
<1>1. /\ ChainTyped /\ RunInv /\ WalletsInv /\ landed \subseteq DOMAIN signed /\ 0 \notin DOMAIN signed
      /\ ptx \in {0} \cup DOMAIN signed /\ ChainTyped' /\ RunInv'
  BY DEF Base, ChainTyped
<1>2. CASE UNCHANGED vars \/ Create \/ Fund \/ Crash
  <2>1. UNCHANGED <<ptx, landed, pay, signed, payout>> /\ (ex' = ex \/ (ex' = Idle /\ ex.pc # "mark"))
    BY <1>1, <1>2, OpensDo, CrashDoes DEF vars, state, world
  <2> QED
    BY <2>1, IdleTyped DEF OneTx, Phase
<1>3. CASE ToWallets
  <2>1. UNCHANGED <<ptx, signed, landed, ex>>
    BY <1>3, WalletsLeave
  <2>2. Phase' => Phase /\ UNCHANGED pay
    BY <1>3, PhaseLeaves
  <2> QED
    BY <2>1, <2>2 DEF OneTx
<1>4. CASE funded /\ funded' = funded
  <2>1. DOMAIN signed' = {} /\ ex'.pc \notin {"mark", "broadcast", "undo"}
    BY <1>1, <1>4 DEF RunInv
  <2>2. landed' = {} /\ ptx' = 0
    BY <1>1, <2>1 DEF ChainTyped
  <2> QED
    BY <2>1, <2>2 DEF OneTx
<1>5. CASE SnapshotBegin \/ SnapshotRow \/ SnapshotDone
  <2>1. DOMAIN signed = {} /\ landed = {} /\ ptx = 0 /\ ex'.pc \in {"snapshot", "idle"}
    BY <1>1, <1>5, SnapshotsDo, IdleTyped DEF RunInv, Early
  <2>2. UNCHANGED <<ptx, signed, landed>>
    BY <1>1, <1>5, SnapshotsDo
  <2> QED
    BY <2>1, <2>2 DEF OneTx
<1>6. CASE ExecuteBegin /\ ~funded
  <2>1. /\ UNCHANGED <<ptx, pay, signed, landed, payout>> /\ ex.pc = "idle"
        /\ \/ ptx # 0 /\ ex'.pc = "broadcast" /\ ex'.tx = ptx /\ ex'.was = {}
           \/ ex'.pc = "one"
    BY <1>1, <1>6, ExecuteDoes
  <2> QED
    BY <2>1 DEF OneTx, Phase
<1>7. CASE PlanRows
  <2>1. /\ UNCHANGED <<ptx, signed, landed, payout>> /\ ex.pc = "one" /\ ex' = Idle /\ ptx = 0
        /\ \A x \in Payees : pay'[x] = pay[x] \/ pay[x].st \in {"pending", "failed"}
    BY <1>1, <1>7, PlanRowsDoes DEF RunInv
  <2>2. \A u \in landed : signed[u] \subseteq Payees
    BY <1>1 DEF ChainTyped
  <2>3. Phase => \A u \in landed : \A x \in signed[u] : pay'[x] = pay[x]
    BY <2>1, <2>2 DEF OneTx
  <2> QED
    BY <2>1, <2>3, IdleTyped DEF OneTx, Phase
<1>8. CASE Submit
  <2>1. /\ ex.pc = "one" /\ UNCHANGED <<pay, landed, payout>>
        /\ ptx' \notin DOMAIN signed /\ ptx' # 0 /\ \A t \in DOMAIN signed : signed'[t] = signed[t]
        /\ signed'[ptx'] = RowsIn({"planned"})
        /\ ex'.pc = "mark" /\ ex'.todo = signed'[ptx'] /\ ex'.was = signed'[ptx'] /\ ex'.tx = ptx'
    BY <1>1, <1>8, SubmitDoes
  <2>2. Phase
    BY <2>1 DEF Apart
  <2>3. \A u \in landed : signed'[u] = signed[u] /\ u # ptx'
    BY <1>1, <2>1
  <2>4. \A u \in landed : \A x \in signed[u] : x \notin RowsIn({"planned"})
    BY <2>2 DEF OneTx, RowsIn
  <2> QED
    BY <2>1, <2>3, <2>4 DEF OneTx, Phase
<1>9. CASE MarkPaying
  <2>1. ex.pc = "mark" /\ UNCHANGED <<ptx, signed, landed, payout>>
    BY <1>1, <1>9, MarkDoes
  <2>2. PICK x \in ex.todo : /\ Becomes(x, "paying") /\ x \in Payees
                             /\ \/ ExMoves("mark", ex.todo \ {x})
                                \/ ExMoves("broadcast", {}) /\ ex.todo = {x}
    BY <1>1, <1>9, MarkDoes
  <2>3. \A u \in DOMAIN signed : signed[u] \subseteq Payees
    BY <1>1 DEF ChainTyped
  <2>4. Phase => \A u \in landed : \A y \in signed[u] : pay'[y].st \in {"paid", "paying"}
    BY <1>1, <2>2, <2>3 DEF OneTx, Becomes
  <2>5. Phase => \A y \in signed[ptx] : pay'[y].st \in {"paid", "paying"} \/ (ex'.pc = "mark" /\ y \in ex'.todo)
    <3>1. ptx \in DOMAIN signed /\ ptx # 0
      BY <1>1, <2>1 DEF OneTx
    <3>2. ASSUME Phase, NEW y \in signed[ptx], y # x, pay[y].st \notin {"paid", "paying"} PROVE ex'.pc = "mark" /\ y \in ex'.todo
      <4>1. y \in ex.todo
        BY <3>1, <3>2 DEF OneTx
      <4> QED
        BY <2>2, <3>2, <4>1 DEF ExMoves
    <3> QED
      BY <2>2, <2>3, <3>1, <3>2 DEF Becomes
  <2>6. /\ ex'.tx = ptx /\ ptx # 0 /\ ex'.was = signed[ptx] /\ ptx \notin landed /\ ex'.pc \in {"mark", "broadcast"}
    BY <2>1, <2>2 DEF OneTx, ExMoves
  <2> QED
    BY <2>1, <2>4, <2>5, <2>6 DEF OneTx, Phase
<1>10. CASE Broadcast \/ Unreached \/ Refused
  <2>1. /\ ex.pc = "broadcast" /\ UNCHANGED <<pay, signed, payout>>
        /\ \/ /\ landed' = landed \cup {ex.tx} /\ UNCHANGED ptx
              /\ ExMoves("paid", RowsIn({"paying"})) \/ ex' = Idle
           \/ UNCHANGED <<landed, ptx>> /\ ex' = Idle
           \/ /\ landed' = landed /\ ex.tx \notin landed /\ ptx' = 0
              /\ ex.was # {} /\ ExMoves("undo", ex.was)
    BY <1>1, <1>10, BroadcastsDo
  <2>2. ptx # 0 /\ ex.tx = ptx /\ (ex.was = {} \/ ex.was = signed[ptx])
    BY <2>1 DEF OneTx
  <2>3. ptx \in DOMAIN signed /\ \A u \in DOMAIN signed : signed[u] \subseteq Payees
    BY <1>1, <2>2 DEF ChainTyped
  <2>4. CASE /\ landed' = landed \cup {ex.tx} /\ UNCHANGED ptx
             /\ ExMoves("paid", RowsIn({"paying"})) \/ ex' = Idle
    <3>1. ex'.pc \in {"paid", "idle"} /\ landed' = landed \cup {ptx}
      BY <2>2, <2>4, IdleTyped DEF ExMoves
    <3>2. \A t, u \in landed' : \A x \in Payees : x \in signed[t] /\ x \in signed[u] => t = u
      BY <2>2, <3>1 DEF OneTx
    <3>3. Phase => \A u \in landed' : \A x \in signed[u] : pay[x].st \in {"paid", "paying"}
      BY <2>1, <2>2, <3>1 DEF OneTx
    <3>4. ptx # 0 => \A u \in landed', x \in Payees : x \in signed[ptx] /\ x \in signed[u] => u = ptx
      BY <3>1 DEF OneTx
    <3>5. Phase /\ ptx # 0 => \A x \in signed[ptx] : pay[x].st \in {"paid", "paying"}
      BY <2>1 DEF OneTx
    <3> QED
      BY <2>1, <2>4, <3>1, <3>2, <3>3, <3>4, <3>5 DEF OneTx, Phase
  <2>5. CASE UNCHANGED <<landed, ptx>> /\ ex' = Idle
    BY <2>1, <2>5, IdleTyped DEF OneTx, Phase
  <2>6. CASE /\ landed' = landed /\ ex.tx \notin landed /\ ptx' = 0
             /\ ex.was # {} /\ ExMoves("undo", ex.was)
    <3>1. ex'.pc = "undo" /\ ex'.todo = signed[ptx] /\ ptx \notin landed
      BY <2>2, <2>6 DEF ExMoves
    <3>2. \A x \in ex'.todo, u \in landed : x \notin signed[u]
      BY <2>2, <2>3, <3>1 DEF OneTx
    <3> QED
      BY <2>1, <2>6, <3>1, <3>2 DEF OneTx, Phase
  <2> QED
    BY <2>1, <2>4, <2>5, <2>6
<1>11. CASE UndoRow
  <2>1. ex.pc = "undo" /\ UNCHANGED <<ptx, signed, landed, payout>> /\ ptx = 0
    BY <1>1, <1>11, UndoDoes DEF OneTx
  <2>2. PICK x \in ex.todo : /\ Becomes(x, "planned") /\ x \in Payees
                             /\ \/ ExMoves("undo", ex.todo \ {x})
                                \/ ex' = Idle /\ ex.todo = {x}
    BY <1>1, <1>11, UndoDoes
  <2>3. \A u \in landed : x \notin signed[u] /\ signed[u] \subseteq Payees
    BY <1>1, <2>1, <2>2 DEF OneTx, ChainTyped
  <2>4. Phase => \A u \in landed : \A y \in signed[u] : pay'[y].st \in {"paid", "paying"}
    BY <2>2, <2>3 DEF OneTx, Becomes
  <2>5. (ex'.pc = "undo" /\ ex'.todo \subseteq ex.todo) \/ ex'.pc = "idle"
    BY <2>2, IdleTyped DEF ExMoves
  <2> QED
    BY <2>1, <2>4, <2>5 DEF OneTx, Phase
<1>12. CASE PaidRow
  <2>1. ex.pc = "paid" /\ UNCHANGED <<ptx, signed, landed, payout>>
    BY <1>1, <1>12, PaidRowDoes
  <2>2. PICK x \in ex.todo : Becomes(x, "paid") /\ x \in Payees /\ ExMoves("paid", ex.todo \ {x})
    BY <1>1, <1>12, PaidRowDoes
  <2>3. \A y \in Payees : pay[y].st \in {"paid", "paying"} => pay'[y].st \in {"paid", "paying"}
    BY <2>2 DEF Becomes
  <2>4. /\ \A u \in landed : signed[u] \subseteq Payees
        /\ ptx # 0 => signed[ptx] \subseteq Payees
    BY <1>1 DEF ChainTyped
  <2>5. ex'.pc = "paid"
    BY <2>2 DEF ExMoves
  <2>6. Phase => \A u \in landed : \A y \in signed[u] : pay'[y].st \in {"paid", "paying"}
    BY <2>3, <2>4 DEF OneTx
  <2>7. Phase /\ ptx # 0 => \A y \in signed[ptx] : pay'[y].st \in {"paid", "paying"}
    BY <2>1, <2>3, <2>4 DEF OneTx
  <2> QED
    BY <2>1, <2>5, <2>6, <2>7 DEF OneTx, Phase
<1>13. CASE PaidAll \/ EachDone
  <2>1. /\ UNCHANGED <<pay, signed, landed, payout>> /\ ptx' \in {ptx, 0} /\ ex'.pc = "idle" /\ ex.pc \in {"paid", "each"}
    BY <1>1, <1>13, DonesDo, IdleTyped
  <2> QED
    BY <2>1 DEF OneTx, Phase
<1>14. CASE EachHolder \/ Send \/ SentRow
  <2>1. ex.pc \in {"each", "send", "sent"} /\ funded' = funded
    BY <1>1, <1>14, EachDoes, SendDoes, SentDoes
  <2> QED
    BY <1>1, <1>4, <2>1 DEF RunInv
<1>15. CASE ExecuteBegin /\ funded
  <2>1. funded' = funded
    BY <1>1, <1>15, ExecuteDoes
  <2> QED
    BY <1>4, <1>15, <2>1
<1> QED
  BY <1>2, <1>3, <1>5, <1>6, <1>7, <1>8, <1>9, <1>10, <1>11, <1>12, <1>13, <1>14, <1>15, EveryStep

\* A holder is sent to once: the row of a send that was made says paid, or paying, and
\* the next attempt looks for it before it sends.
LEMMA OneSendStep ==
    ASSUME Base, Apart, OneSend, Answered, [Next]_vars, Base'
    PROVE  OneSend'
<1>1. ChainTyped /\ RunInv /\ WalletsInv /\ ChainTyped' /\ RunInv' /\ \A x \in Payees : sends[x] \in Nat /\ sends'[x] \in Nat
  BY DEF Base, ChainTyped, Counts
<1>2. CASE UNCHANGED vars \/ Create \/ Fund \/ Crash
  <2>1. UNCHANGED <<sends, pay, payout>> /\ (ex' = ex \/ ex' = Idle)
    BY <1>1, <1>2, OpensDo, CrashDoes DEF vars, state, world
  <2> QED
    BY <2>1, IdleTyped DEF OneSend, Phase, Routed
<1>3. CASE ToWallets
  <2>1. UNCHANGED <<sends, ex>> /\ (Phase' => Phase /\ UNCHANGED pay)
    BY <1>3, WalletsLeave, PhaseLeaves
  <2>2. ex.pc = "send" => Phase'
    <3>1. ASSUME ex.pc = "send" PROVE \A p \in Payouts : payout'[p].st = "none"
      <4>1. Phase /\ po.pc = "idle" /\ kind = "distribution"
        BY <3>1 DEF Apart, Base, RunInv
      <4> QED
        BY <1>1, <1>3, <4>1, ListsDo DEF Phase
    <3> QED
      BY <3>1 DEF Phase
  <2> QED
    BY <2>1, <2>2 DEF OneSend, Routed
<1>4. CASE ~funded /\ funded' = funded
  <2>1. /\ \A x \in Payees : sends'[x] = 0
        /\ ex'.pc \notin {"each", "send", "sent"}
    BY <1>1, <1>4 DEF RunInv
  <2> QED
    BY <2>1 DEF OneSend
<1>5. CASE SnapshotBegin \/ SnapshotRow \/ SnapshotDone
  <2>1. /\ \A x \in Payees : sends'[x] = 0
        /\ ex'.pc \notin {"each", "send", "sent"}
    BY <1>1, <1>5, SnapshotsDo, IdleTyped DEF RunInv, Early
  <2> QED
    BY <2>1 DEF OneSend
<1>6. CASE ExecuteBegin /\ funded
  <2>1. /\ UNCHANGED <<sends, pay, payout>> /\ Phase /\ ex'.pc = "each" /\ ex'.was = RowsIn({"paying"})
        /\ ex'.todo = RowsIn({"pending", "planned", "paying", "failed", "returned"})
    BY <1>1, <1>6, ExecuteDoes DEF Phase
  <2>2. \A x \in ex'.todo : sends[x] > 0 => x \in ex'.was
    BY <2>1 DEF OneSend, RowsIn
  <2> QED
    BY <2>1, <2>2 DEF OneSend, Phase, Routed
<1>7. CASE EachHolder
  <2>1. ex.pc = "each" /\ UNCHANGED <<sends, payout>> /\ Phase
    BY <1>1, <1>7, EachDoes DEF Apart
  <2>2. PICK x \in ex.todo : /\ x \in Payees
                             /\ \/ /\ Routes(x) = "paying" /\ Becomes(x, "paying")
                                   /\ ExMoves("send", ex.todo \ {x}) /\ ex'.at = x
                                \/ /\ Routes(x) # "paying" /\ Becomes(x, Routes(x))
                                   /\ ExMoves("each", ex.todo \ {x})
                                \/ Becomes(x, "failed") /\ Inject("blurred") /\ ExMoves("each", ex.todo \ {x})
    BY <1>1, <1>7, EachDoes
  <2>3. ~Inject("blurred")
    BY DEF Answered, Inject
  <2>4. \A y \in Payees : y # x => pay'[y] = pay[y]
    BY <2>2 DEF Becomes
  <2>5. pay'[x].net = pay[x].net
    BY <2>2 DEF Becomes
  <2>6. \A y \in Payees : Routed(y)' = Routed(y)
    <3>1. \A y \in Payees : pay'[y].net = pay[y].net
      BY <2>4, <2>5
    <3> QED
      BY <3>1 DEF Routed
  <2>7. sends[x] > 0 => x \in ex.was
    BY <2>1, <2>2 DEF OneSend
  <2>8. CASE Routes(x) = "paying" /\ Becomes(x, "paying") /\ ExMoves("send", ex.todo \ {x}) /\ ex'.at = x
    <3>1. Routed(x) = "planned" /\ sends[x] = 0
      BY <1>1, <2>2, <2>7, <2>8 DEF Routes, Routed
    <3>2. pay'[x].st = "paying" /\ ex'.pc = "send" /\ ex'.todo = ex.todo \ {x} /\ ex'.was = ex.was
      BY <2>8 DEF Becomes, ExMoves
    <3>3. \A y \in Payees : sends[y] > 0 => Routed(y) = "planned" /\ pay'[y].st \in {"paid", "paying"}
      BY <2>1, <2>4, <3>1, <3>2 DEF OneSend
    <3> QED
      BY <2>1, <2>2, <2>6, <2>8, <3>1, <3>2, <3>3 DEF OneSend
  <2>9. CASE Routes(x) # "paying" /\ Becomes(x, Routes(x)) /\ ExMoves("each", ex.todo \ {x})
    <3>1. sends[x] > 0 => Routed(x) = "planned" /\ pay'[x].st = "paid"
      <4>1. sends[x] > 0 => Routed(x) = "planned"
        BY <2>1, <2>2 DEF OneSend
      <4> QED
        BY <2>7, <2>9, <4>1 DEF Routes, Becomes
    <3>2. ex'.pc = "each" /\ ex'.todo = ex.todo \ {x} /\ ex'.was = ex.was
      BY <2>9 DEF ExMoves
    <3>3. \A y \in Payees : sends[y] > 0 => Routed(y) = "planned" /\ pay'[y].st \in {"paid", "paying"}
      BY <2>1, <2>4, <3>1 DEF OneSend
    <3> QED
      BY <2>1, <2>6, <3>2, <3>3 DEF OneSend
  <2> QED
    BY <2>2, <2>3, <2>8, <2>9
<1>8. CASE Send
  <2>1. PICK x \in Payees : x = ex.at
    BY <1>1, <1>8, SendDoes
  <2>2. /\ ex.pc = "send" /\ Phase /\ payout' = payout /\ sends[x] = 0 /\ x \notin ex.todo
        /\ Routed(x) = "planned" /\ pay[x].st = "paying"
    BY <1>1, <1>8, <2>1, SendDoes DEF Apart, OneSend
  <2>3. \/ OneMore(sends, sends', x) /\ ExMoves("sent", ex.todo) /\ pay' = pay
        \/ Becomes(x, "failed") /\ ExMoves("each", ex.todo) /\ sends' = sends
    BY <1>1, <1>8, <2>1, SendDoes DEF Answered, Inject
  <2>4. \A y \in Payees : y # x => pay'[y] = pay[y] /\ sends'[y] = sends[y]
    BY <2>3 DEF Becomes, OneMore
  <2>5. \A y \in Payees : Routed(y)' = Routed(y)
    <3>1. \A y \in Payees : pay'[y].net = pay[y].net
      BY <2>3 DEF Becomes
    <3> QED
      BY <3>1 DEF Routed
  <2>6. sends'[x] <= 1 /\ (sends'[x] > 0 => pay'[x].st = "paying")
    BY <2>2, <2>3 DEF OneMore
  <2>7. \A y \in Payees : sends'[y] > 0 => Routed(y) = "planned" /\ pay'[y].st \in {"paid", "paying"}
    BY <2>2, <2>4, <2>6 DEF OneSend
  <2>8. ex'.pc \in {"sent", "each"} /\ ex'.todo = ex.todo /\ ex'.was = ex.was
    BY <2>3 DEF ExMoves
  <2>9. \A y \in ex'.todo : y \in Payees /\ sends'[y] = sends[y]
    <3>1. ex.todo \subseteq Payees
      BY <1>1, <2>2 DEF ChainTyped, ExHeld
    <3> QED
      BY <2>2, <2>4, <2>8, <3>1
  <2> QED
    BY <2>2, <2>4, <2>5, <2>6, <2>7, <2>8, <2>9 DEF OneSend
<1>9. CASE SentRow
  <2>1. PICK x \in Payees : x = ex.at
    BY <1>1, <1>9, SentDoes
  <2>2. ex.pc = "sent" /\ Phase /\ UNCHANGED <<sends, payout>> /\ Becomes(x, "paid") /\ ExMoves("each", ex.todo)
    BY <1>1, <1>9, <2>1, SentDoes DEF Apart
  <2>3. \A y \in Payees : Routed(y)' = Routed(y)
    <3>1. \A y \in Payees : pay'[y].net = pay[y].net
      BY <2>2 DEF Becomes
    <3> QED
      BY <3>1 DEF Routed
  <2>4. \A y \in Payees : sends[y] > 0 => Routed(y) = "planned" /\ pay'[y].st \in {"paid", "paying"}
    BY <2>2 DEF OneSend, Becomes
  <2> QED
    BY <2>2, <2>3, <2>4 DEF OneSend, ExMoves
<1>10. CASE EachDone
  <2>1. UNCHANGED <<sends, pay, payout>> /\ ex' = Idle
    BY <1>1, <1>10, DonesDo
  <2> QED
    BY <2>1, IdleTyped DEF OneSend, Phase, Routed
<1>11. CASE PlanRows \/ Submit \/ MarkPaying \/ Broadcast \/ Unreached \/ Refused \/ UndoRow \/ PaidRow \/ PaidAll
  <2>1. ex.pc \in {"one", "mark", "broadcast", "undo", "paid"} /\ funded' = funded
    <3>1. CASE PlanRows \/ Submit \/ MarkPaying
      BY <1>1, <3>1, PlanRowsDoes, SubmitDoes, MarkDoes
    <3>2. CASE Broadcast \/ Unreached \/ Refused
      BY <1>1, <3>2, BroadcastsDo
    <3>3. CASE UndoRow \/ PaidRow
      BY <1>1, <3>3, UndoDoes, PaidRowDoes
    <3>4. CASE PaidAll
      BY <3>4 DEF PaidAll
    <3> QED
      BY <1>11, <3>1, <3>2, <3>3, <3>4
  <2>2. ~funded
    BY <1>1, <2>1 DEF RunInv
  <2> QED
    BY <1>4, <2>1, <2>2
<1>12. CASE ExecuteBegin /\ ~funded
  <2>1. funded' = funded
    BY <1>1, <1>12, ExecuteDoes
  <2> QED
    BY <1>4, <1>12, <2>1
<1> QED
  BY <1>2, <1>3, <1>5, <1>6, <1>7, <1>8, <1>9, <1>10, <1>11, <1>12, EveryStep

\* The transactions and sends of a run pay a holder at most once, whatever is lost on the
\* way: the answer of a broadcast, the broadcast itself, a refusal by the node, the check
\* of an address, or the process between two steps, each attempt starting from the rows
\* (distribution_tx.go: executeIssuerFunded, broadcastPayout; distribution.go:
\* payOneHolder).  It is assumed that the two ways of paying a run are not asked for at
\* once, that no send of the servicing wallet loses its answer, and that the process does
\* not stop among the rows of a transaction that is being recorded.
THEOREM ARunPaysAHolderOnce ==
    ASSUME ~Overlap, MaxBlurred = 0, "mark" \notin Stops
    PROVE  Spec => []ChainOnce
<1>1. ASSUME Init PROVE Apart /\ OneTx /\ OneSend
  <2>1. ex.pc = "idle" /\ landed = {} /\ ptx = 0 /\ \A x \in Payees : sends[x] = 0
    BY <1>1, IdleTyped DEF Init
  <2> QED
    BY <2>1 DEF Apart, OneTx, OneSend
<1>2. Base /\ Apart /\ OneTx /\ OneSend /\ Answered /\ [Next]_vars /\ Base' => Apart' /\ OneTx' /\ OneSend'
  BY ApartStep, OneTxStep, OneSendStep
<1>3. ASSUME Base, OneTx, OneSend PROVE ChainOnce
  <2>1. ASSUME NEW x \in Payees PROVE OnChain(x) <= 1
    <3>1. ChainTyped /\ OnChain(x) = Cardinality(TxsOf(x)) + sends[x] /\ sends[x] \in Nat /\ sends[x] <= 1
      BY <1>3, TxsFinite DEF Base, ChainTyped, Counts, OneSend
    <3>2. CASE funded
      <4>1. TxsOf(x) = {}
        BY <1>3, <3>1, <3>2 DEF Base, RunInv, ChainTyped, TxsOf
      <4> QED
        BY <3>1, <4>1, FS_EmptySet
    <3>3. CASE ~funded
      <4>1. sends[x] = 0
        BY <1>3, <3>3 DEF Base, RunInv
      <4>2. \A t, u \in TxsOf(x) : t = u
        BY <1>3 DEF OneTx, TxsOf
      <4>3. Cardinality(TxsOf(x)) \in Nat /\ Cardinality(TxsOf(x)) <= 1
        BY <3>1, <4>2, AtMostOne, TxsFinite
      <4> QED
        BY <3>1, <4>1, <4>3
    <3> QED
      BY <3>2, <3>3
  <2> QED
    BY <2>1 DEF ChainOnce
<1> QED
  BY <1>1, <1>2, <1>3, BaseHolds, AnsweredHolds, PTL DEF Spec

-----------------------------------------------------------------------------
(* The shares of a run and its pool.                                        *)

\* The rows written are shares of one reading of the register, and so are those still to be
\* written; a payee without a row has no share.
SharesOf(reg) ==
    /\ Held(reg) > 0
    /\ \A x \in Payees : pay[x].gross \in {0, Gross(reg, x)}
    /\ ex.pc = "snapshot" => \A row \in ex.todo : row[2] = Snapshotted(reg, row[1])
NoShares  == (\A x \in Payees : pay[x].gross = 0) /\ (ex.pc = "snapshot" => ex.todo = {})
SharesInv == /\ \A x \in Payees : pay[x].st = "none" => pay[x].gross = 0
             /\ NoShares \/ \E reg \in Registers : SharesOf(reg)

\* A step that leaves every share and gives no row back.
SharesStay == \A x \in Payees : pay'[x].gross = pay[x].gross /\ (pay'[x].st = "none" => pay[x].st = "none")

LEMMA SetStays ==
    ASSUME ChainTyped, NEW x, NEW st, st # "none", SetPay(x, st)
    PROVE  SharesStay
<1>1. \A y \in Payees : pay[y] \in PayRows
  BY DEF ChainTyped
<1>2. \A y \in Payees : pay'[y] = IF y = x THEN [pay[y] EXCEPT !.st = st] ELSE pay[y]
  BY DEF SetPay, ChainTyped
<1> QED
  BY <1>1, <1>2 DEF SharesStay, PayRows

\* Whoever pays, and however, the shares are those of the snapshot.
LEMMA SharesLeft ==
    ASSUME ChainTyped, [Next]_vars
    PROVE  SnapshotBegin \/ SnapshotRow \/ SharesStay
<1> SUFFICES ASSUME ~SnapshotBegin, ~SnapshotRow PROVE SharesStay
  OBVIOUS
<1>1. UNCHANGED pay => SharesStay
  BY DEF SharesStay
<1>2. CASE UNCHANGED vars \/ Create \/ Fund \/ Crash \/ SnapshotDone \/ ExecuteBegin \/ Submit \/ Broadcast \/ Unreached
           \/ Refused \/ PaidAll \/ EachDone
  BY <1>1, <1>2 DEF vars, state, world, Create, Fund, Crash, SnapshotDone, ExecuteBegin, Submit, Broadcast, Unreached,
     Refused, PaidAll, EachDone
<1>3. CASE MarkPaying \/ UndoRow \/ PaidRow \/ SentRow
  BY <1>3, SetStays DEF MarkPaying, UndoRow, PaidRow, SentRow
<1>4. CASE Send
  BY <1>1, <1>4, SetStays DEF Send
<1>5. CASE EachHolder
  <2>1. \A x : Routes(x) # "none"
    BY DEF Routes, Routed
  <2> QED
    BY <1>5, <2>1, SetStays DEF EachHolder
<1>6. CASE PlanRows
  <2>1. PICK failed : pay' = [x \in Payees |-> IF pay[x].st \notin {"pending", "failed"} THEN pay[x]
                                 ELSE [pay[x] EXCEPT !.st = IF x \in failed THEN "failed" ELSE Routed(x)]]
    BY <1>6 DEF PlanRows
  <2>2. \A x : Routed(x) # "none"
    BY DEF Routed
  <2>3. \A x \in Payees : pay[x] \in PayRows
    BY DEF ChainTyped
  <2>4. ASSUME NEW x \in Payees PROVE pay'[x].gross = pay[x].gross /\ (pay'[x].st = "none" => pay[x].st = "none")
    <3>1. CASE pay[x].st \notin {"pending", "failed"}
      BY <2>1, <3>1
    <3>2. CASE pay[x].st \in {"pending", "failed"}
      <4> DEFINE st == IF x \in failed THEN "failed" ELSE Routed(x)
      <4>1. pay'[x] = [pay[x] EXCEPT !.st = st] /\ st # "none"
        BY <2>1, <2>2, <3>2
      <4> HIDE DEF st
      <4> QED
        BY <2>3, <4>1 DEF PayRows
    <3> QED
      BY <3>1, <3>2
  <2> QED
    BY <2>4 DEF SharesStay
<1>7. CASE ToWallets
  <2>1. CASE ListRow
    BY <2>1, SetStays DEF ListRow
  <2>2. CASE WentRow
    BY <1>1, <2>2, SetStays DEF WentRow
  <2>3. CASE FollowClaims
    <3>1. PICK back : pay' = [x \in Payees |-> IF x \in back /\ kind = "distribution" THEN [pay[x] EXCEPT !.st = "returned"]
                                               ELSE pay[x]]
      BY <2>3 DEF FollowClaims
    <3>2. \A x \in Payees : pay[x] \in PayRows
      BY DEF ChainTyped
    <3> QED
      BY <3>1, <3>2 DEF SharesStay, PayRows
  <2> QED
    BY <1>1, <1>7, <2>1, <2>2, <2>3, WalletsLeave
<1> QED
  BY <1>2, <1>3, <1>4, <1>5, <1>6, <1>7, EveryStep

\* Only a snapshot puts a handler at the step of writing shares.
LEMMA SnapshotLeft ==
    ASSUME ChainTyped, [Next]_vars, ~SnapshotBegin, ~SnapshotRow
    PROVE  ex'.pc = "snapshot" => ex' = ex
<1>1. CASE UNCHANGED vars \/ Create \/ Fund \/ Crash \/ ToWallets
  BY <1>1, OpensDo, CrashDoes, WalletsLeave, IdleTyped DEF vars
<1>2. CASE SnapshotDone \/ PlanRows \/ PaidAll \/ EachDone
  BY <1>2, IdleTyped DEF SnapshotDone, PlanRows, PaidAll, EachDone
<1>3. CASE ExecuteBegin
  BY <1>3, ExecuteDoes
<1>4. CASE Submit \/ MarkPaying \/ PaidRow
  BY <1>4 DEF Submit, MarkPaying, PaidRow, ChainTyped, ExType
<1>5. CASE Broadcast \/ Unreached \/ Refused \/ UndoRow
  BY <1>5, IdleTyped DEF Broadcast, Unreached, Refused, Unanswered, Undone, UndoRow, ChainTyped, ExType
<1>6. CASE EachHolder \/ Send \/ SentRow
  BY <1>6 DEF EachHolder, Send, SentRow, ChainTyped, ExType
<1> QED
  BY <1>1, <1>2, <1>3, <1>4, <1>5, <1>6, EveryStep

LEMMA SharesStep ==
    ASSUME ChainTyped, SharesInv, [Next]_vars
    PROVE  SharesInv'
<1>1. CASE SnapshotBegin
  <2>1. PICK reg \in Registers : Held(reg) > 0 /\
          ex' = [Idle EXCEPT !.pc = "snapshot", !.todo = {<<x, Snapshotted(reg, x)>> : x \in Unrecorded(reg)}]
    BY <1>1 DEF SnapshotBegin
  <2>2. ex.pc = "idle" /\ UNCHANGED pay
    BY <1>1 DEF SnapshotBegin, state
  <2> DEFINE todo == {<<x, Snapshotted(reg, x)>> : x \in Unrecorded(reg)}
  <2>3. ex'.todo = todo
    BY <2>1 DEF Idle
  <2>4. \A row \in todo : row[2] = Snapshotted(reg, row[1])
    OBVIOUS
  <2>5. CASE Unrecorded(reg) = {}
    <3>1. todo = {}
      BY <2>5
    <3> QED
      BY <2>2, <2>3, <3>1 DEF SharesInv, NoShares, SharesOf
  <2>6. CASE Unrecorded(reg) # {}
    <3>1. \A x \in Payees : pay[x].gross = 0
      BY <2>6 DEF Unrecorded, RowsIn, SharesInv
    <3>2. SharesOf(reg)'
      <4> HIDE DEF todo
      <4> QED
        BY <2>1, <2>2, <2>3, <2>4, <3>1 DEF SharesOf
    <3> QED
      BY <2>2, <3>2 DEF SharesInv
  <2> QED
    BY <2>5, <2>6
<1>2. CASE SnapshotRow
  <2>1. PICK row \in ex.todo : pay' = [pay EXCEPT ![row[1]] = row[2]] /\ ex' = [ex EXCEPT !.todo = @ \ {row}]
    BY <1>2 DEF SnapshotRow
  <2>2. ex.pc = "snapshot" /\ row[1] \in Payees /\ row[2].st = "pending" /\ pay \in [Payees -> PayRows] /\ ex \in ExType
    BY <1>2, <2>1 DEF SnapshotRow, ChainTyped, ExHeld, ShareRows
  <2>3. PICK reg \in Registers : SharesOf(reg)
    BY <2>1, <2>2 DEF SharesInv, NoShares
  <2>4. row[2] = Snapshotted(reg, row[1])
    BY <2>1, <2>2, <2>3 DEF SharesOf
  <2>5. row[2].gross = Gross(reg, row[1])
    BY <2>4 DEF Snapshotted
  <2>6. \A x \in Payees : pay'[x] = IF x = row[1] THEN row[2] ELSE pay[x]
    BY <2>1, <2>2
  <2>7. ex'.pc = "snapshot" /\ ex'.todo = ex.todo \ {row}
    BY <2>1, <2>2 DEF ExType
  <2>8. SharesOf(reg)'
    BY <2>2, <2>3, <2>5, <2>6, <2>7 DEF SharesOf
  <2>9. \A x \in Payees : pay'[x].st = "none" => pay'[x].gross = 0
    BY <2>2, <2>6 DEF SharesInv
  <2> QED
    BY <2>8, <2>9 DEF SharesInv
<1>3. CASE ~SnapshotBegin /\ ~SnapshotRow
  <2>1. SharesStay /\ (ex'.pc = "snapshot" => ex' = ex)
    BY <1>3, SharesLeft, SnapshotLeft
  <2>2. ASSUME NEW reg \in Registers, SharesOf(reg) PROVE SharesOf(reg)'
    BY <2>1, <2>2 DEF SharesOf, SharesStay
  <2>3. NoShares => NoShares'
    BY <2>1 DEF NoShares, SharesStay
  <2>4. \A x \in Payees : pay'[x].st = "none" => pay'[x].gross = 0
    BY <2>1 DEF SharesInv, SharesStay
  <2> QED
    BY <2>2, <2>3, <2>4 DEF SharesInv
<1> QED
  BY <1>1, <1>2, <1>3

\* The fold over the shares is the sum of their function.
LEMMA GrossSum ==
    ASSUME IsFiniteSet(Payees)
    PROVE  MapThenSumSet(LAMBDA x : pay[x].gross, Payees) = SumOf([x \in Payees |-> pay[x].gross], Payees)
<1> DEFINE S  == Payees
           f  == [x \in Payees |-> pay[x].gross]
           it == CHOOSE h : h = [t \in SUBSET S |-> IF t = {} THEN 0 ELSE pay[AnyOf(t)].gross + h[t \ {AnyOf(t)}]]
<1>1. PICK g : Accumulator(g, f, S)
  BY SomeAccumulates
<1>2. \A t \in SUBSET S : t # {} => f[AnyOf(t)] = pay[AnyOf(t)].gross
  BY AnyIn
<1>3. g = [t \in SUBSET S |-> IF t = {} THEN 0 ELSE pay[AnyOf(t)].gross + g[t \ {AnyOf(t)}]]
  <2> HIDE DEF f
  <2> QED
    BY <1>1, <1>2 DEF Accumulator
<1>4. it = [t \in SUBSET S |-> IF t = {} THEN 0 ELSE pay[AnyOf(t)].gross + it[t \ {AnyOf(t)}]]
  BY <1>3
<1>5. Accumulates(it, f, S)
  <2> HIDE DEF f, it
  <2> QED
    BY <1>2, <1>4 DEF Accumulates
<1>6. MapThenSumSet(LAMBDA x : pay[x].gross, S) = it[S]
  BY DEF MapThenSumSet, MapThenFoldSet, AnyOf
<1>7. SumOf(f, S) = it[S]
  <2> HIDE DEF f, it
  <2> QED
    BY <1>5, SumAccumulated
<1> QED
  BY <1>6, <1>7

\* A whole number of times a part is not more than what was divided.
LEMMA Divides == \A a \in Nat, b \in Nat \ {0} : a \div b \in Nat /\ b * (a \div b) <= a
  OBVIOUS

LEMMA Cancels == \A a, b \in Nat, k \in Nat \ {0} : k * a <= k * b => a <= b
<1> SUFFICES ASSUME NEW a \in Nat, NEW b \in Nat, NEW k \in Nat \ {0}, a >= b + 1 PROVE ~(k * a <= k * b)
  OBVIOUS
<1>1. PICK c \in Nat : a = b + c /\ c >= 1
  <2>1. a - b \in Nat /\ a = b + (a - b)
    OBVIOUS
  <2> QED
    BY <2>1
<1>2. k * a = k * b + k * c
  BY <1>1
<1>3. k * c >= k
  BY <1>1
<1>4. k * a \in Nat /\ k * b \in Nat /\ k * c \in Nat
  BY <1>1
<1> QED
  BY <1>2, <1>3, <1>4

\* A reading of the register adds up, and no share of it exceeds the pool.
LEMMA ReadingFits ==
    ASSUME NEW reg \in Registers, Held(reg) > 0
    PROVE  /\ Held(reg) = SumOf(reg, Payees) /\ Held(reg) \in Nat \ {0}
           /\ \A x \in Payees : /\ reg[x] \in Nat /\ Gross(reg, x) \in 0..Pool
                                /\ Held(reg) * Gross(reg, x) <= Pool * reg[x]
<1>1. IsFiniteSet(Payees) /\ reg \in [Payees -> Nat] /\ Pool \in Nat \ {0}
  BY ServicingAssumption DEF ServicingAssumption
<1>2. Held(reg) = SumOf(reg, Payees)
  BY DEF Held, SumOf
<1>3. /\ SumOf(reg, Payees) \in Nat
      /\ \A x \in Payees : SumOf(reg, Payees) = reg[x] + SumOf(reg, Payees \ {x})
  BY <1>1, SumNat
<1> DEFINE k == Held(reg)
<1>4. k \in Nat \ {0}
  BY <1>2, <1>3
<1>5. ASSUME NEW x \in Payees PROVE Gross(reg, x) \in 0..Pool /\ k * Gross(reg, x) <= Pool * reg[x]
  <2>1. Pool * reg[x] \in Nat /\ reg[x] \in Nat
    BY <1>1
  <2>2. Gross(reg, x) = (Pool * reg[x]) \div k
    BY DEF Gross
  <2> HIDE DEF k
  <2>3. Gross(reg, x) \in Nat /\ k * Gross(reg, x) <= Pool * reg[x]
    BY <1>4, <2>1, <2>2, Divides
  <2>4. reg[x] <= k
    <3>1. SumOf(reg, Payees \ {x}) \in Nat
      BY <1>1, FS_Subset, SumNat
    <3> QED
      BY <1>2, <1>3, <2>1, <3>1 DEF k
  <2>5. Pool * reg[x] <= k * Pool
    <3>1. PICK c \in Nat : k = reg[x] + c
      BY <1>4, <2>1, <2>4, k - reg[x] \in Nat
    <3>2. k * Pool = Pool * reg[x] + Pool * c /\ Pool * c \in Nat
      BY <1>1, <2>1, <3>1
    <3> QED
      BY <2>1, <3>2
  <2>6. k * Gross(reg, x) <= k * Pool
    BY <1>1, <1>4, <2>1, <2>3, <2>5
  <2>7. Gross(reg, x) <= Pool
    BY <1>1, <1>4, <2>3, <2>6, Cancels
  <2> QED
    BY <1>1, <2>3, <2>7
<1> QED
  BY <1>1, <1>2, <1>4, <1>5

\* The shares of a run, with what is withheld, never exceed its pool, also when the register
\* changes between two attempts at its snapshot (distribution.go: the rows an earlier attempt
\* left are the snapshot).
THEOREM SharesFitThePool == Spec => []PoolCovers
<1>1. Init => SharesInv
  BY IdleTyped DEF Init, SharesInv, NoShares, NoPay
<1>2. Base /\ SharesInv /\ [Next]_vars => SharesInv'
  BY SharesStep DEF Base
<1>3. ASSUME Base, SharesInv PROVE PoolCovers
  <2> DEFINE f == [x \in Payees |-> pay[x].gross]
  <2>1. IsFiniteSet(Payees) /\ Pool \in Nat \ {0}
    BY ServicingAssumption DEF ServicingAssumption
  <2>2. MapThenSumSet(LAMBDA x : pay[x].gross, Payees) = SumOf(f, Payees)
    BY <2>1, GrossSum
  <2>3. CASE NoShares
    <3>1. \A x \in Payees : f[x] \in Int /\ f[x] = 0
      BY <2>3 DEF NoShares
    <3> DEFINE z == [x \in Payees |-> 0]
    <3>2. \A x \in Payees : z[x] \in Int /\ f[x] = 0 * z[x]
      BY <3>1
    <3> HIDE DEF f, z
    <3>3. SumOf(f, Payees) = 0 * SumOf(z, Payees) /\ SumOf(z, Payees) \in Int
      BY <2>1, <3>2, SumTimes, SumTakes
    <3> QED
      BY <2>1, <2>2, <3>3 DEF PoolCovers
  <2>4. ASSUME NEW reg \in Registers, SharesOf(reg) PROVE PoolCovers
    <3> DEFINE k == Held(reg)
               g == [x \in Payees |-> k * f[x]]
               h == [x \in Payees |-> Pool * reg[x]]
    <3>1. /\ k = SumOf(reg, Payees) /\ k \in Nat \ {0}
          /\ \A x \in Payees : /\ reg[x] \in Nat /\ Gross(reg, x) \in 0..Pool
                               /\ k * Gross(reg, x) <= Pool * reg[x]
      BY <2>4, ReadingFits DEF SharesOf
    <3>2. \A x \in Payees : f[x] \in {0, Gross(reg, x)}
      BY <2>4 DEF SharesOf
    <3> HIDE DEF f, k
    <3>3. \A x \in Payees : f[x] \in Nat /\ g[x] = k * f[x] /\ h[x] = Pool * reg[x]
      BY <2>1, <3>1, <3>2
    <3>4. \A x \in Payees : g[x] \in Int /\ h[x] \in Int /\ g[x] <= h[x]
      <4> SUFFICES ASSUME NEW x \in Payees PROVE g[x] \in Int /\ h[x] \in Int /\ g[x] <= h[x]
        OBVIOUS
      <4>1. k * f[x] \in Int /\ Pool * reg[x] \in Nat
        BY <2>1, <3>1, <3>3
      <4>2. k * f[x] <= Pool * reg[x]
        BY <3>1, <3>2, <4>1
      <4> QED
        BY <3>3, <4>1, <4>2
    <3> HIDE DEF g, h
    <3>5. SumOf(g, Payees) <= SumOf(h, Payees)
      BY <2>1, <3>4, SumAtMost
    <3>6. SumOf(g, Payees) = k * SumOf(f, Payees) /\ SumOf(f, Payees) \in Nat
      BY <2>1, <3>1, <3>3, SumTimes, SumNat
    <3>7. SumOf(h, Payees) = Pool * SumOf(reg, Payees)
      <4>1. \A x \in Payees : reg[x] \in Int /\ h[x] = Pool * reg[x]
        BY <3>1, <3>3
      <4> QED
        BY <2>1, <4>1, SumTimes
    <3>8. k * SumOf(f, Payees) <= k * Pool
      BY <2>1, <3>1, <3>5, <3>6, <3>7
    <3>9. SumOf(f, Payees) <= Pool
      BY <2>1, <3>1, <3>6, <3>8, Cancels
    <3> QED
      BY <2>2, <3>9 DEF PoolCovers
  <2> QED
    BY <1>3, <2>3, <2>4 DEF SharesInv
<1> QED
  BY <1>1, <1>2, <1>3, BaseHolds, PTL DEF Spec
=============================================================================
