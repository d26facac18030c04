---------------------------- MODULE DeployProofs ----------------------------
(* What holds of deployment for every value of its constants: however many  *)
(* deploys of however many drafts are in flight, answers lost, processes    *)
(* stopped.                                                                 *)
EXTENDS Deploy, FiniteSetTheorems, TLAPS

-----------------------------------------------------------------------------
(* Typing.                                                                  *)

Assets  == [asset : Nat \cup Coins, i : Issuances, kind : Kinds, terms : Terms,
            coin : Coins \cup Nat \cup {"none"}]
Preps   == [asset : Nat, i : Issuances, terms : Terms]
Things  == {None} \cup Assets \cup Preps
Steps   == {"read", "elected", "admitted", "minting", "preparing", "funding", "prepared", "minted",
            "building", "sending", "recorded", "live"}
Flights == [pc : Steps, i : Issuances, kind : Kinds, terms : Terms, seen : {"draft", "live"}, asset : Things]
Records == [idem : BOOLEAN \X Terms, asset : Assets]
Rows    == [status : {"draft", "live"}, kind : Kinds \cup {"none"},
            terms : Terms \cup {CHOOSE t \in Terms : TRUE}, asset : Things]

Typed ==
    /\ row \in [Issuances -> Rows]
    /\ req \in [Requests -> {Idle} \cup Flights]
    /\ prep \in [Issuances -> {None} \cup Preps]
    /\ deploys \in [Issuances -> SUBSET Records]
    /\ assets \subseteq Assets /\ prepared \subseteq Preps /\ sent \subseteq Assets
    /\ IsFiniteSet(prepared) /\ IsFiniteSet(assets) /\ held \subseteq Coins /\ stopped \in Nat

\* An asset under way carries what its step says of it.
Carried(r) ==
    /\ req[r].pc = "minting" => req[r].kind = "serviced"
    /\ req[r].pc \in {"preparing", "prepared"} => req[r].kind = "network"
    /\ req[r].pc \in {"funding", "building", "sending"} => req[r].kind = "bearer"
    /\ req[r].pc = "prepared" => req[r].asset \in prepared /\ req[r].asset.i = req[r].i
    /\ req[r].pc \in {"minted", "building", "sending", "recorded", "live"} => req[r].asset \in Assets
    /\ req[r].pc = "minted" => req[r].asset.kind # "bearer" /\ req[r].kind # "bearer"
    /\ req[r].pc \in {"building", "sending"} =>
          /\ req[r].asset.kind = "bearer" /\ req[r].asset.i = req[r].i /\ req[r].asset.terms = req[r].terms
          /\ req[r].asset.coin \in Coins

Holds(r) == req[r].pc \notin {"idle", "read", "elected"}

\* One deploy of an issuance at a time.
Alone == \A r, q \in Requests : Holds(r) /\ Holds(q) /\ req[r].i = req[q].i => r = q

Base == Typed /\ Alone /\ \A r \in Requests : Carried(r)

\* At most one asset and one preparation come about at a time.
OneMore  == UNCHANGED assets \/ \E a \in Assets : assets' = assets \cup {a}
Prepares == UNCHANGED prepared \/ (prepared \subseteq prepared' /\ prepared' \subseteq Preps /\ IsFiniteSet(prepared'))

\* A request that moves alone leaves what others carry, and the lock, as they were.
LEMMA Turn ==
    ASSUME Base, NEW r \in Requests, NEW f \in {Idle} \cup Flights,
           req' = [req EXCEPT ![r] = f], prepared \subseteq prepared', Carried(r)',
           \/ f.pc \in {"idle", "read", "elected"}
           \/ Holds(r) /\ f.i = req[r].i
           \/ ~Locked(f.i)
    PROVE  req' \in [Requests -> {Idle} \cup Flights] /\ Alone' /\ \A q \in Requests : Carried(q)'
<1>1. req \in [Requests -> {Idle} \cup Flights]
  BY DEF Base, Typed
<1>2. req' \in [Requests -> {Idle} \cup Flights] /\ req'[r] = f /\ \A q \in Requests : q # r => req'[q] = req[q]
  BY <1>1
<1>3. Alone'
  <2> SUFFICES ASSUME NEW p \in Requests, NEW q \in Requests, Holds(p)', Holds(q)', req'[p].i = req'[q].i, p # q
               PROVE  FALSE
    BY DEF Alone
  <2>1. Holds(p) /\ Holds(q) /\ req[p].i = req[q].i => FALSE
    BY DEF Base, Alone
  <2>2. PICK o \in {p, q} : o # r
    BY <2>1
  <2>3. req'[o] = req[o] /\ Holds(o)
    BY <1>2, <2>2 DEF Holds
  <2>4. r \in {p, q}
    BY <1>2, <2>1 DEF Holds
  <2>5. Holds(r)' /\ f.i = req[o].i
    BY <1>2, <2>2, <2>3, <2>4
  <2>6. f.pc \notin {"idle", "read", "elected"}
    BY <1>2, <2>5 DEF Holds
  <2>7. Locked(f.i)
    BY <2>2, <2>3, <2>5 DEF Locked, Holds
  <2>8. Holds(r) /\ req[r].i = req[o].i
    BY <2>5, <2>6, <2>7
  <2> QED
    BY <2>2, <2>3, <2>8 DEF Base, Alone
<1>4. ASSUME NEW q \in Requests PROVE Carried(q)'
  <2>1. CASE q = r
    BY <2>1
  <2>2. CASE q # r
    <3>1. Carried(q) /\ req'[q] = req[q]
      BY <1>2, <2>2 DEF Base
    <3> QED
      BY <3>1 DEF Carried
  <2> QED
    BY <2>1, <2>2
<1> QED
  BY <1>2, <1>3, <1>4

\* A step of a request to another one.
LEMMA StepFlight ==
    ASSUME Base, NEW r \in Requests, req[r].pc # "idle", NEW pc \in Steps
    PROVE  req[r] \in Flights /\ [req[r] EXCEPT !.pc = pc] \in Flights
<1>1. req[r] \in Flights
  BY DEF Base, Typed, Idle
<1> QED
  BY <1>1 DEF Flights

LEMMA GotFlight ==
    ASSUME Base, NEW r \in Requests, req[r].pc # "idle", NEW pc \in Steps, NEW a \in Things
    PROVE  [req[r] EXCEPT !.pc = pc, !.asset = a] \in Flights
<1>1. req[r] \in Flights
  BY DEF Base, Typed, Idle
<1> QED
  BY <1>1 DEF Flights

\* What the policy server or the node makes of a request is an asset.
LEMMA MintedType ==
    ASSUME Base, NEW i \in Issuances, NEW kind \in Kinds, NEW terms \in Terms, NEW coin \in Nat \cup {"none"}
    PROVE  Minted(i, kind, terms, coin) \in Assets
<1>1. IsFiniteSet({a \in assets : a.i = i})
  BY FS_Subset DEF Base, Typed
<1>2. Cardinality({a \in assets : a.i = i}) + 1 \in Nat
  BY <1>1, FS_CardinalityType
<1> QED
  BY <1>2 DEF Minted, Assets

LEMMA CompletedType ==
    ASSUME Base, NEW p \in Preps, "network" \in Kinds
    PROVE  Completed(p) \in Assets /\ Completed(p).kind = "network"
<1> DEFINE done == {a \in assets : a.kind = "network" /\ a.coin = p.asset}
<1>1. assets \subseteq Assets
  BY DEF Base, Typed
<1>2. CASE done = {}
  <2>1. Completed(p) = Minted(p.i, "network", p.terms, p.asset)
    BY <1>2 DEF Completed
  <2>2. Completed(p) \in Assets
    BY <1>1, <2>1, MintedType DEF Preps
  <2> QED
    BY <2>1, <2>2 DEF Minted
<1>3. CASE done # {}
  <2>1. Completed(p) \in done
    BY <1>3 DEF Completed
  <2> QED
    BY <1>1, <2>1
<1> QED
  BY <1>2, <1>3

LEMMA BaseInit == Init => Base
<1> SUFFICES ASSUME Init PROVE Base
  OBVIOUS
<1>1. IsFiniteSet({}) /\ Cardinality({}) = 0
  BY FS_EmptySet
<1>2. Typed
  BY <1>1 DEF Init, Typed, Rows, Things, Idle
<1>3. Alone /\ \A r \in Requests : Carried(r)
  BY DEF Init, Alone, Holds, Carried, Idle
<1> QED
  BY <1>2, <1>3 DEF Base

\* What a step of one request has to show.
LEMMA BaseTurn ==
    ASSUME Base, NEW r \in Requests, NEW f \in {Idle} \cup Flights,
           req' = [req EXCEPT ![r] = f], Prepares, Carried(r)',
           \/ f.pc \in {"idle", "read", "elected"}
           \/ Holds(r) /\ f.i = req[r].i
           \/ ~Locked(f.i),
           row' \in [Issuances -> Rows], prep' \in [Issuances -> {None} \cup Preps],
           deploys' \in [Issuances -> SUBSET Records],
           OneMore, sent' \subseteq Assets, held' \subseteq Coins, UNCHANGED stopped
    PROVE  Base'
<1>1. req' \in [Requests -> {Idle} \cup Flights] /\ Alone' /\ \A q \in Requests : Carried(q)'
  BY Turn DEF Prepares
<1>2. assets' \subseteq Assets /\ IsFiniteSet(assets')
  <2>1. assets \subseteq Assets /\ IsFiniteSet(assets)
    BY DEF Base, Typed
  <2> QED
    BY <2>1, FS_AddElement DEF OneMore
<1>3. prepared' \subseteq Preps /\ IsFiniteSet(prepared') /\ stopped' \in Nat
  BY DEF Base, Typed, Prepares
<1> QED
  BY <1>1, <1>2, <1>3 DEF Base, Typed

\* And when it ends.
LEMMA BaseEnd ==
    ASSUME Base, NEW r \in Requests, End(r), UNCHANGED <<row, deploys, stopped>>,
           prep' \in [Issuances -> {None} \cup Preps],
           OneMore, sent' \subseteq Assets, held' \subseteq Coins, Prepares
    PROVE  Base'
<1>1. req' = [req EXCEPT ![r] = Idle] /\ Idle.pc = "idle" /\ req'[r] = Idle
  BY DEF End, Base, Typed, Idle
<1>2. Carried(r)'
  BY <1>1 DEF Carried
<1>3. row \in [Issuances -> Rows] /\ deploys \in [Issuances -> SUBSET Records]
  BY DEF Base, Typed
<1> QED
  BY <1>1, <1>2, <1>3, BaseTurn

LEMMA BaseAsk ==
    ASSUME Base, NEW r \in Requests, NEW i \in Issuances, NEW kind \in Kinds, NEW t \in Terms, Ask(r, i, kind, t)
    PROVE  Base'
<1> DEFINE f == [pc |-> "read", i |-> i, kind |-> kind, terms |-> t, seen |-> row[i].status, asset |-> None]
<1>1. row[i].status \in {"draft", "live"}
  BY DEF Base, Typed, Rows
<1>2. f \in Flights /\ f.pc = "read"
  BY <1>1 DEF Flights, Steps, Things
<1>3. req' = [req EXCEPT ![r] = f] /\ UNCHANGED <<row, deploys, prep, prepared, assets, held, sent, stopped>>
  BY DEF Ask, store, server
<1>4. req'[r] = f
  BY <1>3 DEF Base, Typed
<1>5. Carried(r)'
  BY <1>2, <1>4 DEF Carried
<1>6. OneMore /\ Prepares
  BY <1>3 DEF OneMore, Prepares
<1> HIDE DEF f
<1> QED
  BY <1>2, <1>3, <1>5, <1>6, BaseTurn DEF Base, Typed

\* A request that only moves on.
LEMMA BaseMove ==
    ASSUME Base, NEW r \in Requests, req[r].pc # "idle", NEW pc \in Steps, Move(r, pc), Carried(r)',
           \/ pc \in {"read", "elected"}
           \/ Holds(r)
           \/ ~Locked(req[r].i),
           row' \in [Issuances -> Rows], deploys' \in [Issuances -> SUBSET Records],
           OneMore, sent' \subseteq Assets, UNCHANGED <<prep, prepared, held, stopped>>
    PROVE  Base'
<1> DEFINE f == [req[r] EXCEPT !.pc = pc]
<1>1. f \in Flights /\ req[r] \in Flights
  BY StepFlight
<1>2. req' = [req EXCEPT ![r] = f]
  BY DEF Move, Base, Typed
<1>3. f.pc = pc /\ f.i = req[r].i
  BY <1>1 DEF Flights
<1>4. /\ prep' \in [Issuances -> {None} \cup Preps] /\ held' \subseteq Coins
      /\ Prepares /\ UNCHANGED stopped
  BY DEF Base, Typed, Prepares
<1>5. f.pc \in {"idle", "read", "elected"} \/ (Holds(r) /\ f.i = req[r].i) \/ ~Locked(f.i)
  BY <1>3
<1>6. f \in {Idle} \cup Flights
  BY <1>1
<1> QED
  BY <1>2, <1>4, <1>5, <1>6, BaseTurn DEF Base, Typed

LEMMA BaseElect ==
    ASSUME Base, NEW r \in Requests, Elect(r)
    PROVE  Base'
<1>1. req[r].pc = "read" /\ Move(r, "elected")
  BY DEF Elect
<1>2. req[r] \in Flights
  BY <1>1 DEF Base, Typed, Idle
<1>3. row' \in [Issuances -> Rows]
  BY <1>2 DEF Elect, Base, Typed, Rows, Flights
<1>4. UNCHANGED <<deploys, prep, prepared, assets, held, sent, stopped>>
  BY DEF Elect, server
<1>5. Carried(r)'
  BY <1>1, <1>2 DEF Move, Carried, Flights, Base, Typed
<1>6. deploys' \in [Issuances -> SUBSET Records] /\ sent' \subseteq Assets
  BY <1>4 DEF Base, Typed
<1>7. OneMore
  BY <1>4 DEF OneMore
<1> QED
  BY <1>1, <1>3, <1>4, <1>5, <1>6, <1>7, BaseMove DEF Steps

LEMMA BaseAdmit ==
    ASSUME Base, NEW r \in Requests, Admit(r)
    PROVE  Base'
<1>1. req[r].pc = "elected" /\ Move(r, "admitted") /\ ~Locked(req[r].i)
  BY DEF Admit
<1>2. req[r] \in Flights
  BY <1>1 DEF Base, Typed, Idle
<1>3. UNCHANGED <<row, deploys, prep, prepared, assets, held, sent, stopped>>
  BY DEF Admit, server, store
<1>4. Carried(r)'
  BY <1>1, <1>2 DEF Move, Carried, Flights, Base, Typed
<1>5. row' \in [Issuances -> Rows] /\ deploys' \in [Issuances -> SUBSET Records] /\ sent' \subseteq Assets
  BY <1>3 DEF Base, Typed
<1>6. OneMore
  BY <1>3 DEF OneMore
<1> QED
  BY <1>1, <1>3, <1>4, <1>5, <1>6, BaseMove DEF Steps

LEMMA BaseCheckTicker ==
    ASSUME Base, NEW r \in Requests, CheckTicker(r)
    PROVE  Base'
<1> DEFINE pc == CASE req[r].kind = "serviced" -> "minting"
                   [] req[r].kind = "network"  -> "preparing"
                   [] req[r].kind = "bearer"   -> "funding"
<1>1. req[r].pc = "admitted" /\ Move(r, pc)
  BY DEF CheckTicker
<1>2. req[r] \in Flights
  BY <1>1 DEF Base, Typed, Idle
<1>3. req[r].kind \in {"serviced", "network", "bearer"}
  BY <1>2, DeployAssumption DEF Flights, DeployAssumption
<1>4. /\ pc \in {"minting", "preparing", "funding"}
      /\ pc = "minting" => req[r].kind = "serviced"
      /\ pc = "preparing" => req[r].kind = "network"
      /\ pc = "funding" => req[r].kind = "bearer"
  BY <1>3
<1>5. UNCHANGED <<row, deploys, prep, prepared, assets, held, sent, stopped>>
  BY DEF CheckTicker, server, store
<1> HIDE DEF pc
<1>6. req'[r] = [req[r] EXCEPT !.pc = pc]
  BY <1>1 DEF Move, Base, Typed
<1>7. req'[r].pc = pc /\ req'[r].kind = req[r].kind
  BY <1>2, <1>6 DEF Flights
<1>8. Carried(r)'
  BY <1>4, <1>7 DEF Carried
<1>9. row' \in [Issuances -> Rows] /\ deploys' \in [Issuances -> SUBSET Records] /\ sent' \subseteq Assets
  BY <1>5 DEF Base, Typed
<1>10. pc \in Steps /\ Holds(r) /\ OneMore
  BY <1>1, <1>4, <1>5 DEF Steps, Holds, OneMore
<1> QED
  BY <1>1, <1>5, <1>8, <1>9, <1>10, BaseMove

\* A request that moves on with an asset in hand.
LEMMA BaseGot ==
    ASSUME Base, NEW r \in Requests, Holds(r), NEW pc \in Steps, NEW a \in Things, Got(r, pc, a), Carried(r)',
           OneMore, held' \subseteq Coins, Prepares,
           UNCHANGED <<row, deploys, prep, sent, stopped>>
    PROVE  Base'
<1> DEFINE f == [req[r] EXCEPT !.pc = pc, !.asset = a]
<1>1. req[r].pc # "idle"
  BY DEF Holds
<1>2. f \in Flights /\ req[r] \in Flights
  BY <1>1, GotFlight, StepFlight
<1>3. req' = [req EXCEPT ![r] = f]
  BY DEF Got, Base, Typed
<1>4. f.i = req[r].i
  BY <1>2 DEF Flights
<1>5. /\ prep' \in [Issuances -> {None} \cup Preps] /\ row' \in [Issuances -> Rows]
      /\ deploys' \in [Issuances -> SUBSET Records] /\ sent' \subseteq Assets /\ UNCHANGED stopped
  BY DEF Base, Typed
<1>6. f \in {Idle} \cup Flights
  BY <1>2
<1> HIDE DEF f
<1> QED
  BY <1>3, <1>4, <1>5, <1>6, BaseTurn

LEMMA BaseMintServiced ==
    ASSUME Base, NEW r \in Requests, MintServiced(r)
    PROVE  Base'
<1> DEFINE a == Minted(req[r].i, "serviced", req[r].terms, "none")
<1>1. req[r].pc = "minting" /\ Got(r, "minted", a) /\ assets' = assets \cup {a}
  BY DEF MintServiced
<1>2. req[r] \in Flights /\ req[r].kind = "serviced"
  BY <1>1 DEF Base, Typed, Idle, Carried
<1>3. a \in Assets
  BY <1>2, MintedType DEF Flights
<1>4. a.kind = "serviced"
  BY DEF Minted
<1>5. UNCHANGED <<row, deploys, prep, prepared, held, sent, stopped>>
  BY DEF MintServiced, store
<1> HIDE DEF a
<1>6. req'[r].pc = "minted" /\ req'[r].asset = a /\ req'[r].kind = "serviced"
  BY <1>1, <1>2 DEF Got, Base, Typed, Flights
<1>7. Carried(r)'
  BY <1>3, <1>4, <1>6 DEF Carried
<1>8. a \in Things /\ Holds(r) /\ "minted" \in Steps /\ held' \subseteq Coins /\ OneMore /\ Prepares
  BY <1>1, <1>3, <1>5 DEF Things, Holds, Steps, Base, Typed, OneMore, Prepares
<1> QED
  BY <1>1, <1>3, <1>5, <1>7, <1>8, BaseGot

LEMMA BaseMintUnanswered ==
    ASSUME Base, NEW r \in Requests, MintUnanswered(r)
    PROVE  Base'
<1> DEFINE a == Minted(req[r].i, "serviced", req[r].terms, "none")
<1>1. req[r].pc = "minting" /\ End(r) /\ (assets' = assets \cup {a} \/ UNCHANGED assets)
  BY DEF MintUnanswered
<1>2. req[r] \in Flights /\ req[r].kind = "serviced"
  BY <1>1 DEF Base, Typed, Idle, Carried
<1>3. a \in Assets
  BY <1>2, MintedType DEF Flights
<1>4. UNCHANGED <<row, deploys, prep, prepared, held, sent, stopped>>
  BY DEF MintUnanswered, store
<1>5. /\ prep' \in [Issuances -> {None} \cup Preps] /\ sent' \subseteq Assets /\ held' \subseteq Coins
      /\ OneMore /\ Prepares
  BY <1>1, <1>3, <1>4 DEF Base, Typed, OneMore, Prepares
<1> HIDE DEF a
<1> QED
  BY <1>1, <1>3, <1>4, <1>5, BaseEnd

LEMMA BasePrepare ==
    ASSUME Base, NEW r \in Requests, Prepare(r)
    PROVE  Base'
<1> DEFINE p == [asset |-> Cardinality(prepared) + 1, i |-> req[r].i, terms |-> req[r].terms]
<1>1. req[r].pc = "preparing" /\ prepared' = prepared \cup {p} /\ (Got(r, "prepared", p) \/ End(r))
  BY DEF Prepare
<1>2. req[r] \in Flights /\ req[r].kind = "network"
  BY <1>1 DEF Base, Typed, Idle, Carried
<1>3. IsFiniteSet(prepared) /\ Cardinality(prepared) \in Nat /\ prepared \subseteq Preps
  BY FS_CardinalityType DEF Base, Typed
<1>8. p \in Preps
  BY <1>2, <1>3 DEF Preps, Flights
<1>9. prepared' \subseteq Preps /\ IsFiniteSet(prepared') /\ prepared \subseteq prepared'
  BY <1>1, <1>3, <1>8, FS_AddElement
<1>4. UNCHANGED <<row, deploys, prep, assets, held, sent, stopped>>
  BY DEF Prepare, store
<1>5. /\ prep' \in [Issuances -> {None} \cup Preps] /\ sent' \subseteq Assets /\ held' \subseteq Coins
      /\ OneMore /\ Prepares
  BY <1>4, <1>9 DEF Base, Typed, OneMore, Prepares
<1>6. CASE Got(r, "prepared", p)
  <2>1. p \in prepared' /\ p \in Things /\ p.i = req[r].i
    BY <1>1, <1>8 DEF Things
  <2> HIDE DEF p
  <2>2. req'[r].pc = "prepared" /\ req'[r].asset = p /\ req'[r].kind = "network" /\ req'[r].i = req[r].i
    BY <1>2, <1>6 DEF Got, Base, Typed, Flights
  <2>3. Carried(r)'
    BY <2>1, <2>2 DEF Carried
  <2>4. Holds(r) /\ "prepared" \in Steps
    BY <1>1 DEF Holds, Steps
  <2> QED
    BY <1>3, <1>4, <1>5, <1>6, <2>1, <2>3, <2>4, BaseGot
<1>7. CASE End(r)
  BY <1>3, <1>4, <1>5, <1>7, BaseEnd
<1> QED
  BY <1>1, <1>6, <1>7

LEMMA BasePutPrepare ==
    ASSUME Base, NEW r \in Requests, PutPrepare(r)
    PROVE  Base'
<1>1. req[r].pc = "prepared" /\ End(r) /\ prep' = [prep EXCEPT ![req[r].i] = req[r].asset]
  BY DEF PutPrepare
<1>2. req[r].asset \in Preps
  BY <1>1 DEF Base, Typed, Carried
<1>3. UNCHANGED <<row, deploys, prepared, assets, held, sent, stopped>>
  BY DEF PutPrepare, server
<1>4. /\ prep' \in [Issuances -> {None} \cup Preps] /\ sent' \subseteq Assets /\ held' \subseteq Coins
      /\ OneMore /\ Prepares
  BY <1>1, <1>2, <1>3 DEF Base, Typed, OneMore, Prepares
<1> QED
  BY <1>1, <1>3, <1>4, BaseEnd

LEMMA BaseComplete ==
    ASSUME Base, NEW r \in Requests, Complete(r)
    PROVE  Base'
<1> DEFINE a == Completed(prep[req[r].i])
<1>1. /\ req[r].pc = "preparing" /\ prep[req[r].i] # None /\ assets' = assets \cup {a}
      /\ Got(r, "minted", a) \/ End(r)
  BY DEF Complete
<1>2. req[r] \in Flights /\ req[r].kind = "network"
  BY <1>1 DEF Base, Typed, Idle, Carried
<1>3. prep[req[r].i] \in Preps
  BY <1>1, <1>2 DEF Base, Typed, Flights
<1>4. a \in Assets /\ a.kind = "network"
  BY <1>2, <1>3, CompletedType DEF Flights
<1>5. UNCHANGED <<row, deploys, prep, prepared, held, sent, stopped>>
  BY DEF Complete, store
<1> HIDE DEF a
<1>6. /\ prep' \in [Issuances -> {None} \cup Preps] /\ sent' \subseteq Assets /\ held' \subseteq Coins
      /\ OneMore /\ Prepares
  BY <1>1, <1>4, <1>5 DEF Base, Typed, OneMore, Prepares
<1>7. CASE Got(r, "minted", a)
  <2>1. req'[r].pc = "minted" /\ req'[r].asset = a /\ req'[r].kind = "network"
    BY <1>2, <1>7 DEF Got, Base, Typed, Flights
  <2>2. Carried(r)'
    BY <1>4, <2>1 DEF Carried
  <2>3. a \in Things /\ Holds(r) /\ "minted" \in Steps
    BY <1>1, <1>4 DEF Things, Holds, Steps
  <2> QED
    BY <1>5, <1>6, <1>7, <2>2, <2>3, BaseGot
<1>8. CASE End(r)
  BY <1>5, <1>6, <1>8, BaseEnd
<1> QED
  BY <1>1, <1>7, <1>8

LEMMA BaseFund ==
    ASSUME Base, NEW r \in Requests, Fund(r)
    PROVE  Base'
<1>1. PICK c \in Spendable : /\ held' = held \cup {c}
                             /\ Got(r, "building", [asset |-> c, i |-> req[r].i, kind |-> "bearer",
                                                    terms |-> req[r].terms, coin |-> c])
  BY DEF Fund
<1> DEFINE a == [asset |-> c, i |-> req[r].i, kind |-> "bearer", terms |-> req[r].terms, coin |-> c]
<1>2. req[r].pc = "funding"
  BY DEF Fund
<1>3. req[r] \in Flights /\ req[r].kind = "bearer"
  BY <1>2 DEF Base, Typed, Idle, Carried
<1>4. c \in Coins
  BY DEF Spendable
<1>5. a \in Assets /\ a.kind = "bearer" /\ a.i = req[r].i /\ a.terms = req[r].terms /\ a.coin \in Coins
  BY <1>3, <1>4 DEF Assets, Flights
<1>6. UNCHANGED <<row, deploys, prep, prepared, assets, sent, stopped>>
  BY DEF Fund, store
<1>7. Got(r, "building", a)
  BY <1>1
<1> HIDE DEF a
<1>8. /\ req'[r].pc = "building" /\ req'[r].asset = a /\ req'[r].kind = "bearer"
      /\ req'[r].i = req[r].i /\ req'[r].terms = req[r].terms
  BY <1>3, <1>7 DEF Got, Base, Typed, Flights
<1>9. Carried(r)'
  BY <1>5, <1>8 DEF Carried
<1>10. /\ a \in Things /\ Holds(r) /\ "building" \in Steps /\ held' \subseteq Coins
       /\ OneMore /\ Prepares
  BY <1>1, <1>2, <1>4, <1>5, <1>6 DEF Things, Holds, Steps, OneMore, Prepares, Base, Typed
<1> QED
  BY <1>6, <1>7, <1>9, <1>10, BaseGot

LEMMA BaseEnds ==
    ASSUME Base, NEW r \in Requests, Refuse(r) \/ FundFails(r) \/ BuildFails(r) \/ OnDeployed(r)
    PROVE  Base'
<1>1. /\ End(r) /\ UNCHANGED <<row, deploys, prepared, assets, sent, stopped>>
      /\ held' = held \/ held' = Freed(r)
  BY DEF Refuse, FundFails, BuildFails, OnDeployed, store, server
<1>2. prep' = prep \/ prep' = [prep EXCEPT ![req[r].i] = None]
  BY DEF Refuse, FundFails, BuildFails, OnDeployed, store
<1>3. /\ prep' \in [Issuances -> {None} \cup Preps] /\ sent' \subseteq Assets /\ held' \subseteq Coins
      /\ OneMore /\ Prepares
  BY <1>1, <1>2 DEF Base, Typed, OneMore, Prepares, Freed
<1> QED
  BY <1>1, <1>3, BaseEnd

LEMMA BaseRecord ==
    ASSUME Base, NEW r \in Requests, Record(r)
    PROVE  Base'
<1> DEFINE pc == IF req[r].kind = "bearer" THEN "sending" ELSE "recorded"
           d  == [idem |-> Idem(req[r].kind, req[r].terms), asset |-> req[r].asset]
<1>1. /\ req[r].pc \in {"minted", "building"} /\ Move(r, pc)
      /\ deploys' = [deploys EXCEPT ![req[r].i] = @ \cup {d}]
      /\ UNCHANGED <<row, prep, prepared, assets, held, sent, stopped>>
  BY DEF Record, server
<1>2. req[r] \in Flights /\ req[r].asset \in Assets /\ req[r].pc # "idle"
  BY <1>1 DEF Base, Typed, Idle, Carried
<1>3. d \in Records
  BY <1>2 DEF Records, Flights, Idem
<1>4. deploys' \in [Issuances -> SUBSET Records]
  BY <1>1, <1>2, <1>3 DEF Base, Typed, Flights
<1>5. req'[r] = [req[r] EXCEPT !.pc = pc]
  BY <1>1 DEF Move, Base, Typed
<1>6. /\ pc \in {"sending", "recorded"}
      /\ pc = "sending" => req[r].kind = "bearer" /\ req[r].pc = "building"
  BY <1>1 DEF Base, Carried
<1> HIDE DEF pc
<1>7. /\ req'[r].pc = pc /\ req'[r].asset = req[r].asset /\ req'[r].kind = req[r].kind
      /\ req'[r].i = req[r].i /\ req'[r].terms = req[r].terms
  BY <1>2, <1>5 DEF Flights
<1>8. Carried(r)
  BY DEF Base
<1>9. Carried(r)'
  BY <1>2, <1>6, <1>7, <1>8 DEF Carried
<1>10. pc \in Steps /\ Holds(r) /\ OneMore /\ row' \in [Issuances -> Rows] /\ sent' \subseteq Assets
  BY <1>1, <1>6 DEF Steps, Holds, OneMore, Base, Typed
<1> QED
  BY <1>1, <1>2, <1>4, <1>9, <1>10, BaseMove

LEMMA BaseSend ==
    ASSUME Base, NEW r \in Requests, Send(r)
    PROVE  Base'
<1>1. /\ req[r].pc = "sending" /\ Move(r, "recorded")
      /\ sent' = sent \cup {req[r].asset} /\ assets' = assets \cup {req[r].asset}
      /\ UNCHANGED <<row, deploys, prep, prepared, held, stopped>>
  BY DEF Send, Accept, store
<1>2. req[r] \in Flights /\ req[r].asset \in Assets
  BY <1>1 DEF Base, Typed, Idle, Carried
<1>3. req'[r] = [req[r] EXCEPT !.pc = "recorded"]
  BY <1>1 DEF Move, Base, Typed
<1>4. req'[r].pc = "recorded" /\ req'[r].asset \in Assets
  BY <1>2, <1>3 DEF Flights
<1>5. Carried(r)'
  BY <1>4 DEF Carried
<1>6. /\ "recorded" \in Steps /\ Holds(r) /\ OneMore /\ sent' \subseteq Assets
      /\ row' \in [Issuances -> Rows] /\ deploys' \in [Issuances -> SUBSET Records]
  BY <1>1, <1>2 DEF Steps, Holds, OneMore, Base, Typed
<1> QED
  BY <1>1, <1>5, <1>6, BaseMove

LEMMA BaseSendFails ==
    ASSUME Base, NEW r \in Requests, SendFails(r)
    PROVE  Base'
<1>1. /\ req[r].pc = "sending" /\ End(r) /\ held' = held
      /\ sent' \subseteq sent \cup {req[r].asset}
      /\ assets' = assets \/ assets' = assets \cup {req[r].asset}
      /\ UNCHANGED <<row, deploys, prep, prepared, stopped>>
  BY DEF SendFails, Kept, store
<1>2. req[r].asset \in Assets
  BY <1>1 DEF Base, Typed, Carried
<1>3. /\ prep' \in [Issuances -> {None} \cup Preps] /\ sent' \subseteq Assets /\ held' \subseteq Coins
      /\ OneMore /\ Prepares
  BY <1>1, <1>2 DEF Base, Typed, OneMore, Prepares
<1> QED
  BY <1>1, <1>3, BaseEnd

LEMMA BaseGoLive ==
    ASSUME Base, NEW r \in Requests, GoLive(r)
    PROVE  Base'
<1>1. /\ req[r].pc = "recorded" /\ Move(r, "live")
      /\ UNCHANGED <<deploys, prep, prepared, assets, held, sent, stopped>>
  BY DEF GoLive, server
<1>2. req[r] \in Flights /\ req[r].asset \in Assets
  BY <1>1 DEF Base, Typed, Idle, Carried
<1> DEFINE kind == IF req[r].kind = "serviced" THEN row[req[r].i].kind ELSE req[r].kind
           new  == [status |-> "live", asset |-> req[r].asset, terms |-> req[r].terms, kind |-> kind]
<1>3. row' = [row EXCEPT ![req[r].i] = new]
  BY <1>2 DEF GoLive, Base, Typed, Flights
<1>4. kind \in Kinds \cup {"none"}
  BY <1>2 DEF Base, Typed, Rows, Flights
<1> HIDE DEF kind
<1>5. new \in Rows
  BY <1>2, <1>4 DEF Rows, Things, Flights
<1> HIDE DEF new
<1>6. row' \in [Issuances -> Rows] /\ deploys' \in [Issuances -> SUBSET Records] /\ sent' \subseteq Assets
  BY <1>1, <1>3, <1>5 DEF Base, Typed
<1>7. req'[r] = [req[r] EXCEPT !.pc = "live"]
  BY <1>1 DEF Move, Base, Typed
<1>8. req'[r].pc = "live" /\ req'[r].asset \in Assets
  BY <1>2, <1>7 DEF Flights
<1>9. Carried(r)'
  BY <1>8 DEF Carried
<1>10. "live" \in Steps /\ Holds(r) /\ OneMore
  BY <1>1 DEF Steps, Holds, OneMore
<1> QED
  BY <1>1, <1>6, <1>9, <1>10, BaseMove

\* The watcher and the chain leave deploys alone.
Still == UNCHANGED <<row, deploys, prep, req, prepared, assets, held, sent, stopped>>

LEMMA Elsewhere ==
    ASSUME Watching \/ (\E a \in assets : Confirm(a)) \/ (\E m \in mined : Anchor(m) \/ Reorg(m))
    PROVE  Still
<1>1. CASE Watching
  BY <1>1 DEF Watching, Seeded, TickFails, Seed, TickWrite, Tick, store, server, Still
<1>2. CASE \E a \in assets : Confirm(a)
  BY <1>2 DEF Confirm, store, server, procs, Still
<1>3. CASE \E m \in mined : Anchor(m) \/ Reorg(m)
  BY <1>3 DEF Anchor, Reorg, store, server, procs, Still
<1> QED
  BY <1>1, <1>2, <1>3

LEMMA BaseStill == Base /\ Still => Base'
<1> SUFFICES ASSUME Base, Still PROVE Base'
  OBVIOUS
<1>1. Typed'
  BY DEF Base, Still, Typed
<1>2. Alone'
  BY DEF Base, Still, Alone, Holds
<1>3. \A r \in Requests : Carried(r)'
  BY DEF Base, Still, Carried
<1> QED
  BY <1>1, <1>2, <1>3 DEF Base

LEMMA BaseSendAgain ==
    ASSUME Base, NEW i \in Issuances, NEW d \in deploys[i], SendAgain(d.asset)
    PROVE  Base'
<1>1. /\ sent' = sent \cup {d.asset} /\ assets' = assets \cup {d.asset}
      /\ UNCHANGED <<row, deploys, prep, req, prepared, held, stopped>>
  BY DEF SendAgain, Accept, store, procs
<1>2. d.asset \in Assets
  BY DEF Base, Typed, Records
<1>3. assets' \subseteq Assets /\ IsFiniteSet(assets') /\ sent' \subseteq Assets
  BY <1>1, <1>2, FS_AddElement DEF Base, Typed
<1>4. Typed'
  BY <1>1, <1>3 DEF Base, Typed
<1>5. Alone'
  BY <1>1 DEF Base, Alone, Holds
<1>6. \A r \in Requests : Carried(r)'
  BY <1>1 DEF Base, Carried
<1> QED
  BY <1>4, <1>5, <1>6 DEF Base

LEMMA BaseCrash == Base /\ Crash => Base'
<1> SUFFICES ASSUME Base, Crash PROVE Base'
  OBVIOUS
<1>1. /\ req' = [r \in Requests |-> Idle] /\ stopped' = stopped + 1
      /\ UNCHANGED <<row, deploys, prep, prepared, assets, held, sent>>
  BY DEF Crash, store, server
<1>2. Typed'
  BY <1>1 DEF Base, Typed
<1>3. Alone' /\ \A r \in Requests : Carried(r)'
  BY <1>1 DEF Alone, Holds, Carried, Idle
<1> QED
  BY <1>2, <1>3 DEF Base

LEMMA BaseNext == Base /\ [Next]_vars => Base'
<1> SUFFICES ASSUME Base, [Next]_vars PROVE Base'
  OBVIOUS
<1>1. ASSUME NEW r \in Requests, Deploying(r) PROVE Base'
  <2>1. CASE \E i \in Issuances, kind \in Kinds, t \in Terms : Ask(r, i, kind, t)
    BY <2>1, BaseAsk
  <2>2. CASE Elect(r) \/ Admit(r) \/ CheckTicker(r)
    BY <2>2, BaseElect, BaseAdmit, BaseCheckTicker
  <2>3. CASE MintServiced(r) \/ MintUnanswered(r)
    BY <2>3, BaseMintServiced, BaseMintUnanswered
  <2>4. CASE Prepare(r) \/ PutPrepare(r) \/ Complete(r)
    BY <2>4, BasePrepare, BasePutPrepare, BaseComplete
  <2>5. CASE Refuse(r) \/ FundFails(r) \/ BuildFails(r) \/ OnDeployed(r)
    BY <2>5, BaseEnds
  <2>6. CASE Fund(r) \/ Record(r) \/ GoLive(r)
    BY <2>6, BaseFund, BaseRecord, BaseGoLive
  <2>7. CASE Send(r) \/ SendFails(r)
    BY <2>7, BaseSend, BaseSendFails
  <2> QED
    BY <1>1, <2>1, <2>2, <2>3, <2>4, <2>5, <2>6, <2>7 DEF Deploying
<1>2. CASE Crash
  BY <1>2, BaseCrash
<1>3. CASE \E i \in Issuances : \E d \in deploys[i] : SendAgain(d.asset)
  BY <1>3, BaseSendAgain
<1>4. CASE Watching \/ (\E a \in assets : Confirm(a)) \/ (\E m \in mined : Anchor(m) \/ Reorg(m))
  BY <1>4, Elsewhere, BaseStill
<1>5. CASE UNCHANGED vars
  BY <1>5, BaseStill DEF vars, store, server, procs, Still
<1> QED
  BY <1>1, <1>2, <1>3, <1>4, <1>5 DEF Next

-----------------------------------------------------------------------------
(* No election over one set of terms exists twice.                          *)

\* What a deploy has seen to holds until it is done: nobody else mints or records for its issuance.
Clear(r) ==
    /\ req[r].pc \in {"minting", "preparing"} =>
          \A a \in assets : a.kind # "bearer" /\ a.i = req[r].i => a.terms # req[r].terms
    /\ req[r].pc = "prepared" =>
          \A a \in assets : a.kind = "network" /\ a.i = req[r].i => a.terms # req[r].asset.terms
    /\ req[r].pc \in {"admitted", "funding", "building"} /\ req[r].kind = "bearer" =>
          \A d \in deploys[req[r].i] : d.idem # <<TRUE, req[r].terms>>
    /\ req[r].pc = "sending" => \E d \in deploys[req[r].i] : d.asset = req[r].asset

\* A preparation kept for an issuance is of its own, and the only one of its terms that was completed.
Resumed ==
    \A i \in Issuances : prep[i] # None =>
        /\ prep[i].i = i
        /\ \A a \in assets : a.kind = "network" /\ a.i = i /\ a.terms = prep[i].terms => a.coin = prep[i].asset

\* A bearer mint is recorded before it can exist, once for its terms.
Booked ==
    /\ \A a \in assets : a.kind = "bearer" => \E d \in deploys[a.i] : d.asset = a
    /\ \A i \in Issuances : \A d, e \in deploys[i] : d.idem = e.idem /\ d.idem[1] => d = e
    /\ \A i \in Issuances : \A d \in deploys[i] :
          d.asset.kind = "bearer" => d.idem = <<TRUE, d.asset.terms>> /\ d.asset.i = i

Guarded == (\A r \in Requests : Clear(r)) /\ Resumed /\ Booked /\ MintedOnce

LEMMA GuardedInit == Init => Guarded
<1> SUFFICES ASSUME Init PROVE Guarded
  OBVIOUS
<1>1. \A r \in Requests : req[r].pc = "idle"
  BY DEF Init, Idle
<1>2. \A i \in Issuances : deploys[i] = {} /\ prep[i] = None
  BY DEF Init
<1>3. assets = {}
  BY DEF Init
<1> QED
  BY <1>1, <1>2, <1>3 DEF Guarded, Clear, Resumed, Booked, MintedOnce

LEMMA Apart ==
    ASSUME Base, NEW r \in Requests, NEW q \in Requests, q # r, Holds(r), Holds(q)
    PROVE  req[q].i # req[r].i
BY DEF Base, Alone

\* What a request clears for itself, no other takes away.
LEMMA Others ==
    ASSUME Base, NEW r \in Requests, NEW q \in Requests, q # r, req'[q] = req[q], Clear(q),
           \A a \in assets' \ assets : a.kind = "bearer" \/ (Holds(r) /\ a.i = req[r].i),
           \A i \in Issuances : deploys[i] \subseteq deploys'[i],
           \A i \in Issuances : deploys'[i] = deploys[i] \/ (Holds(r) /\ i = req[r].i)
    PROVE  Clear(q)'
<1>1. CASE ~Holds(q)
  BY <1>1 DEF Clear, Holds
<1>2. CASE Holds(q)
  <2>1. req[q] \in Flights
    BY <1>2 DEF Base, Typed, Holds, Idle
  <2>2. \A a \in assets' \ assets : a.kind = "bearer" \/ a.i # req[q].i
    BY <1>2, Apart
  <2>3. deploys'[req[q].i] = deploys[req[q].i]
    BY <1>2, <2>1, Apart DEF Flights
  <2>4. (req[q].pc \in {"minting", "preparing"} =>
          \A a \in assets : a.kind # "bearer" /\ a.i = req[q].i => a.terms # req[q].terms)'
    BY <2>2 DEF Clear
  <2>5. (req[q].pc = "prepared" =>
          \A a \in assets : a.kind = "network" /\ a.i = req[q].i => a.terms # req[q].asset.terms)'
    BY <2>2 DEF Clear
  <2> QED
    BY <2>3, <2>4, <2>5 DEF Clear
<1> QED
  BY <1>1, <1>2

\* A step of one request that neither mints nor records.
LEMMA Quiet ==
    ASSUME Base, Guarded, NEW r \in Requests, NEW f, req' = [req EXCEPT ![r] = f],
           Clear(r)', UNCHANGED <<assets, deploys, prep>>
    PROVE  Guarded'
<1>1. \A q \in Requests : q # r => req'[q] = req[q]
  BY DEF Base, Typed
<1>2. \A q \in Requests : q # r => Clear(q)'
  BY <1>1, Others DEF Guarded
<1>3. Resumed' /\ Booked' /\ MintedOnce'
  BY DEF Guarded, Resumed, Booked, MintedOnce
<1> QED
  BY <1>2, <1>3 DEF Guarded

\* The asset under way and what else the step of a request leaves of it.
LEMMA Moved ==
    ASSUME Base, NEW r \in Requests, req[r].pc # "idle", NEW pc \in Steps, Move(r, pc)
    PROVE  /\ req' = [req EXCEPT ![r] = [req[r] EXCEPT !.pc = pc]]
           /\ req'[r].pc = pc /\ req'[r].asset = req[r].asset /\ req'[r].kind = req[r].kind
           /\ req'[r].i = req[r].i /\ req'[r].terms = req[r].terms
           /\ \A q \in Requests : q # r => req'[q] = req[q]
<1>1. req[r] \in Flights
  BY DEF Base, Typed, Idle
<1>2. req' = [req EXCEPT ![r] = [req[r] EXCEPT !.pc = pc]]
  BY DEF Move, Base, Typed
<1>3. req'[r] = [req[r] EXCEPT !.pc = pc] /\ \A q \in Requests : q # r => req'[q] = req[q]
  BY <1>2 DEF Base, Typed
<1> QED
  BY <1>1, <1>2, <1>3 DEF Flights

LEMMA Fetched ==
    ASSUME Base, NEW r \in Requests, req[r].pc # "idle", NEW pc \in Steps, NEW a, Got(r, pc, a)
    PROVE  /\ req' = [req EXCEPT ![r] = [req[r] EXCEPT !.pc = pc, !.asset = a]]
           /\ req'[r].pc = pc /\ req'[r].asset = a /\ req'[r].kind = req[r].kind
           /\ req'[r].i = req[r].i /\ req'[r].terms = req[r].terms
           /\ \A q \in Requests : q # r => req'[q] = req[q]
<1>1. req[r] \in Flights
  BY DEF Base, Typed, Idle
<1>2. req' = [req EXCEPT ![r] = [req[r] EXCEPT !.pc = pc, !.asset = a]]
  BY DEF Got, Base, Typed
<1>3. req'[r] = [req[r] EXCEPT !.pc = pc, !.asset = a] /\ \A q \in Requests : q # r => req'[q] = req[q]
  BY <1>2 DEF Base, Typed
<1>4. /\ req'[r].pc = pc /\ req'[r].asset = a /\ req'[r].kind = req[r].kind
      /\ req'[r].i = req[r].i /\ req'[r].terms = req[r].terms
  BY <1>1, <1>3 DEF Flights
<1> QED
  BY <1>2, <1>3, <1>4

LEMMA Ended ==
    ASSUME Base, NEW r \in Requests, End(r)
    PROVE  /\ req' = [req EXCEPT ![r] = Idle] /\ req'[r].pc = "idle" /\ Clear(r)'
           /\ \A q \in Requests : q # r => req'[q] = req[q]
<1>1. req' = [req EXCEPT ![r] = Idle] /\ req'[r] = Idle /\ \A q \in Requests : q # r => req'[q] = req[q]
  BY DEF End, Base, Typed
<1>2. req'[r].pc = "idle"
  BY <1>1 DEF Idle
<1>3. Clear(r)'
  BY <1>2 DEF Clear
<1> QED
  BY <1>1, <1>2, <1>3

LEMMA GuardedQuiet ==
    ASSUME Base, Guarded, NEW r \in Requests,
           \/ \E i \in Issuances, kind \in Kinds, t \in Terms : Ask(r, i, kind, t)
           \/ Elect(r) \/ Refuse(r) \/ FundFails(r) \/ BuildFails(r) \/ GoLive(r)
    PROVE  Guarded'
<1>1. UNCHANGED <<assets, deploys, prep>>
  BY DEF Ask, Elect, Refuse, FundFails, BuildFails, GoLive, store, server
<1>2. CASE \E i \in Issuances, kind \in Kinds, t \in Terms : Ask(r, i, kind, t)
  <2>1. PICK i \in Issuances, kind \in Kinds, t \in Terms : Ask(r, i, kind, t)
    BY <1>2
  <2> DEFINE f == [pc |-> "read", i |-> i, kind |-> kind, terms |-> t, seen |-> row[i].status, asset |-> None]
  <2>2. req' = [req EXCEPT ![r] = f] /\ f.pc = "read"
    BY <2>1 DEF Ask
  <2>3. req'[r] = f
    BY <2>2 DEF Base, Typed
  <2> HIDE DEF f
  <2>4. Clear(r)'
    BY <2>2, <2>3 DEF Clear
  <2> QED
    BY <1>1, <2>2, <2>4, Quiet
<1>3. CASE Elect(r) \/ GoLive(r)
  <2>1. PICK pc \in {"elected", "live"} : Move(r, pc) /\ req[r].pc # "idle"
    BY <1>3 DEF Elect, GoLive
  <2>2. req' = [req EXCEPT ![r] = [req[r] EXCEPT !.pc = pc]] /\ req'[r].pc = pc
    BY <2>1, Moved DEF Steps
  <2>3. Clear(r)'
    BY <2>2 DEF Clear
  <2> QED
    BY <1>1, <2>2, <2>3, Quiet
<1>4. CASE Refuse(r) \/ FundFails(r) \/ BuildFails(r)
  <2>1. End(r)
    BY <1>4 DEF Refuse, FundFails, BuildFails
  <2> QED
    BY <1>1, <2>1, Ended, Quiet
<1> QED
  BY <1>2, <1>3, <1>4

\* Nothing of these terms is recorded when the lock is taken.
LEMMA GuardedAdmit ==
    ASSUME Base, Guarded, NEW r \in Requests, Admit(r)
    PROVE  Guarded'
<1>1. req[r].pc = "elected" /\ Move(r, "admitted") /\ ~Replayed(r) /\ UNCHANGED <<assets, deploys, prep>>
  BY DEF Admit, store, server
<1>2. /\ req' = [req EXCEPT ![r] = [req[r] EXCEPT !.pc = "admitted"]] /\ req'[r].pc = "admitted"
      /\ req'[r].i = req[r].i /\ req'[r].kind = req[r].kind /\ req'[r].terms = req[r].terms
  BY <1>1, Moved DEF Steps
<1>3. req[r].kind = "bearer" => \A d \in deploys[req[r].i] : d.idem # <<TRUE, req[r].terms>>
  BY <1>1 DEF Replayed, Idem
<1>4. Clear(r)'
  BY <1>1, <1>2, <1>3 DEF Clear
<1> QED
  BY <1>1, <1>2, <1>4, Quiet

\* Nothing of these terms is listed when the ticker is looked up.
LEMMA GuardedCheckTicker ==
    ASSUME Base, Guarded, NEW r \in Requests, CheckTicker(r)
    PROVE  Guarded'
<1> DEFINE pc == CASE req[r].kind = "serviced" -> "minting"
                   [] req[r].kind = "network"  -> "preparing"
                   [] req[r].kind = "bearer"   -> "funding"
<1>1. /\ req[r].pc = "admitted" /\ Move(r, pc) /\ ~Taken(Ticker[req[r].terms])
      /\ UNCHANGED <<assets, deploys, prep>>
  BY DEF CheckTicker, store, server
<1>2. req[r] \in Flights
  BY <1>1 DEF Base, Typed, Idle
<1>3. req[r].kind \in {"serviced", "network", "bearer"}
  BY <1>2, DeployAssumption DEF Flights, DeployAssumption
<1>4. pc \in {"minting", "preparing", "funding"}
  BY <1>3
<1> HIDE DEF pc
<1>5. /\ req' = [req EXCEPT ![r] = [req[r] EXCEPT !.pc = pc]] /\ req'[r].pc = pc
      /\ req'[r].i = req[r].i /\ req'[r].kind = req[r].kind /\ req'[r].terms = req[r].terms
  BY <1>1, <1>4, Moved DEF Steps
<1>6. \A a \in assets : a.kind # "bearer" => a.terms # req[r].terms
  BY <1>1 DEF Taken
<1>7. Clear(r)
  BY DEF Guarded
<1>8. Clear(r)'
  BY <1>1, <1>4, <1>5, <1>6, <1>7 DEF Clear
<1> QED
  BY <1>1, <1>5, <1>8, Quiet

LEMMA GuardedFund ==
    ASSUME Base, Guarded, NEW r \in Requests, Fund(r)
    PROVE  Guarded'
<1>1. PICK c \in Spendable : Got(r, "building", [asset |-> c, i |-> req[r].i, kind |-> "bearer",
                                                 terms |-> req[r].terms, coin |-> c])
  BY DEF Fund
<1> DEFINE a == [asset |-> c, i |-> req[r].i, kind |-> "bearer", terms |-> req[r].terms, coin |-> c]
<1>2. Got(r, "building", a) /\ req[r].pc = "funding" /\ UNCHANGED <<assets, deploys, prep>>
  BY <1>1 DEF Fund, store
<1> HIDE DEF a
<1>3. /\ req' = [req EXCEPT ![r] = [req[r] EXCEPT !.pc = "building", !.asset = a]] /\ req'[r].pc = "building"
      /\ req'[r].i = req[r].i /\ req'[r].kind = req[r].kind /\ req'[r].terms = req[r].terms
  BY <1>2, Fetched DEF Steps
<1>4. Clear(r)
  BY DEF Guarded
<1>5. Clear(r)'
  BY <1>2, <1>3, <1>4 DEF Clear
<1> QED
  BY <1>2, <1>3, <1>5, Quiet

LEMMA GuardedPrepare ==
    ASSUME Base, Guarded, NEW r \in Requests, Prepare(r)
    PROVE  Guarded'
<1> DEFINE p == [asset |-> Cardinality(prepared) + 1, i |-> req[r].i, terms |-> req[r].terms]
<1>1. /\ req[r].pc = "preparing" /\ (Got(r, "prepared", p) \/ End(r))
      /\ UNCHANGED <<assets, deploys, prep>>
  BY DEF Prepare, store
<1>2. CASE End(r)
  BY <1>1, <1>2, Ended, Quiet
<1>3. CASE Got(r, "prepared", p)
  <2>1. p.terms = req[r].terms
    OBVIOUS
  <2> HIDE DEF p
  <2>2. /\ req' = [req EXCEPT ![r] = [req[r] EXCEPT !.pc = "prepared", !.asset = p]]
        /\ req'[r].pc = "prepared" /\ req'[r].asset = p /\ req'[r].i = req[r].i
    BY <1>1, <1>3, Fetched DEF Steps
  <2>3. Clear(r)
    BY DEF Guarded
  <2>4. Clear(r)'
    BY <1>1, <2>1, <2>2, <2>3 DEF Clear
  <2> QED
    BY <1>1, <2>2, <2>4, Quiet
<1> QED
  BY <1>1, <1>2, <1>3

LEMMA GuardedPutPrepare ==
    ASSUME Base, Guarded, NEW r \in Requests, PutPrepare(r)
    PROVE  Guarded'
<1>1. /\ req[r].pc = "prepared" /\ End(r) /\ prep' = [prep EXCEPT ![req[r].i] = req[r].asset]
      /\ UNCHANGED <<assets, deploys>>
  BY DEF PutPrepare, server
<1>2. req[r].asset.i = req[r].i /\ req[r] \in Flights
  BY <1>1 DEF Base, Typed, Carried, Idle
<1>3. \A a \in assets : a.kind = "network" /\ a.i = req[r].i => a.terms # req[r].asset.terms
  BY <1>1 DEF Guarded, Clear
<1>4. Resumed'
  <2> SUFFICES ASSUME NEW i \in Issuances, prep'[i] # None
               PROVE  prep'[i].i = i /\ \A a \in assets : a.kind = "network" /\ a.i = i /\ a.terms = prep'[i].terms
                                                             => a.coin = prep'[i].asset
    BY <1>1 DEF Resumed
  <2>1. CASE i = req[r].i
    <3>1. prep'[i] = req[r].asset
      BY <1>1, <2>1 DEF Base, Typed
    <3> QED
      BY <1>2, <1>3, <2>1, <3>1
  <2>2. CASE i # req[r].i
    <3>1. prep'[i] = prep[i]
      BY <1>1, <2>2 DEF Base, Typed
    <3> QED
      BY <3>1 DEF Guarded, Resumed
  <2> QED
    BY <2>1, <2>2
<1>5. \A q \in Requests : Clear(q)'
  <2> SUFFICES ASSUME NEW q \in Requests, q # r PROVE Clear(q)'
    BY <1>1, Ended
  <2>1. req'[q] = req[q]
    BY <1>1, Ended
  <2> QED
    BY <1>1, <2>1, Others DEF Guarded
<1>6. Booked' /\ MintedOnce'
  BY <1>1 DEF Guarded, Booked, MintedOnce
<1> QED
  BY <1>4, <1>5, <1>6 DEF Guarded

LEMMA GuardedOnDeployed ==
    ASSUME Base, Guarded, NEW r \in Requests, OnDeployed(r)
    PROVE  Guarded'
<1>1. /\ End(r) /\ UNCHANGED <<assets, deploys>>
      /\ prep' = prep \/ prep' = [prep EXCEPT ![req[r].i] = None]
  BY DEF OnDeployed, server
<1>2. \A i \in Issuances : prep'[i] # None => prep'[i] = prep[i]
  BY <1>1 DEF Base, Typed
<1>3. Resumed'
  BY <1>1, <1>2 DEF Guarded, Resumed
<1>4. \A q \in Requests : Clear(q)'
  <2> SUFFICES ASSUME NEW q \in Requests, q # r PROVE Clear(q)'
    BY <1>1, Ended
  <2>1. req'[q] = req[q]
    BY <1>1, Ended
  <2> QED
    BY <1>1, <2>1, Others DEF Guarded
<1>5. Booked' /\ MintedOnce'
  BY <1>1 DEF Guarded, Booked, MintedOnce
<1> QED
  BY <1>3, <1>4, <1>5 DEF Guarded

\* The books of bearer mints do not speak of other assets.
LEMMA Registered ==
    ASSUME Booked, UNCHANGED deploys, \A x \in assets' : x \in assets \/ x.kind # "bearer"
    PROVE  Booked'
<1>1. \A x \in assets' : x.kind = "bearer" => x \in assets
  OBVIOUS
<1> QED
  BY <1>1 DEF Booked

\* A serviced asset is minted by the request that saw none of its terms.
LEMMA GuardedMint ==
    ASSUME Base, Guarded, NEW r \in Requests, MintServiced(r) \/ MintUnanswered(r)
    PROVE  Guarded'
<1> DEFINE a == Minted(req[r].i, "serviced", req[r].terms, "none")
<1>1. /\ req[r].pc = "minting" /\ UNCHANGED <<deploys, prep>>
      /\ assets' = assets \/ assets' = assets \cup {a}
      /\ Got(r, "minted", a) \/ End(r)
  BY DEF MintServiced, MintUnanswered, store
<1>2. a.i = req[r].i /\ a.kind = "serviced" /\ a.terms = req[r].terms
  BY DEF Minted
<1> HIDE DEF a
<1>3. \A x \in assets : x.kind = "serviced" /\ x.i = a.i => x.terms # a.terms
  BY <1>1, <1>2 DEF Guarded, Clear
<1>4. MintedOnce'
  BY <1>1, <1>2, <1>3 DEF Guarded, MintedOnce
<1>5. Resumed' /\ Booked'
  <2>1. \A x \in assets' : x \in assets \/ x.kind = "serviced"
    BY <1>1, <1>2
  <2>2. Resumed'
    BY <1>1, <2>1 DEF Guarded, Resumed
  <2>3. Booked'
    BY <1>1, <2>1, Registered DEF Guarded
  <2> QED
    BY <2>2, <2>3
<1>6. req'[r].pc \in {"minted", "idle"} /\ \A q \in Requests : q # r => req'[q] = req[q]
  BY <1>1, Fetched, Ended DEF Steps
<1>7. \A q \in Requests : Clear(q)'
  <2> SUFFICES ASSUME NEW q \in Requests PROVE Clear(q)'
    OBVIOUS
  <2>1. CASE q = r
    BY <1>6, <2>1 DEF Clear
  <2>2. CASE q # r
    <3>1. \A x \in assets' \ assets : x.kind = "bearer" \/ (Holds(r) /\ x.i = req[r].i)
      BY <1>1, <1>2 DEF Holds
    <3> QED
      BY <1>1, <1>6, <2>2, <3>1, Others DEF Guarded
  <2> QED
    BY <2>1, <2>2
<1> QED
  BY <1>4, <1>5, <1>7 DEF Guarded

\* A preparation is completed into one asset, by the terms it was made with.
LEMMA GuardedComplete ==
    ASSUME Base, Guarded, NEW r \in Requests, Complete(r)
    PROVE  Guarded'
<1> DEFINE p == prep[req[r].i]
           a == Completed(p)
           done == {x \in assets : x.kind = "network" /\ x.coin = p.asset}
<1>1. /\ req[r].pc = "preparing" /\ p # None /\ UNCHANGED <<deploys, prep>>
      /\ assets' = assets \cup {a}
      /\ Got(r, "minted", a) \/ End(r)
  BY DEF Complete, store
<1>2. req[r] \in Flights
  BY <1>1 DEF Base, Typed, Idle
<1>3. /\ p.i = req[r].i
      /\ \A x \in assets : x.kind = "network" /\ x.i = p.i /\ x.terms = p.terms => x.coin = p.asset
  BY <1>1, <1>2 DEF Guarded, Resumed, Flights
<1>4. a \in assets \/ (/\ a.i = req[r].i /\ a.kind = "network" /\ a.terms = p.terms /\ a.coin = p.asset
                       /\ \A x \in assets : x.kind = "network" => x.coin # p.asset)
  <2>1. CASE done = {}
    <3>1. a = Minted(p.i, "network", p.terms, p.asset)
      BY <2>1 DEF Completed
    <3> QED
      BY <1>3, <2>1, <3>1 DEF Minted
  <2>2. CASE done # {}
    <3>1. a \in done
      BY <2>2 DEF Completed
    <3> QED
      BY <3>1
  <2> QED
    BY <2>1, <2>2
<1> HIDE DEF a, done
<1>5. MintedOnce'
  <2>1. CASE a \in assets
    BY <1>1, <2>1 DEF Guarded, MintedOnce
  <2>2. CASE a \notin assets
    BY <1>1, <1>3, <1>4, <2>2 DEF Guarded, MintedOnce
  <2> QED
    BY <2>1, <2>2
<1>6. Resumed'
  <2> SUFFICES ASSUME NEW i \in Issuances, prep[i] # None, NEW x \in assets', x.kind = "network", x.i = i, x.terms = prep[i].terms
               PROVE  x.coin = prep[i].asset
    BY <1>1 DEF Guarded, Resumed
  <2>1. CASE x \in assets
    BY <2>1 DEF Guarded, Resumed
  <2>2. CASE x \notin assets
    BY <1>1, <1>4, <2>2
  <2> QED
    BY <2>1, <2>2
<1>7. Booked'
  <2>1. \A x \in assets' : x \in assets \/ x.kind = "network"
    BY <1>1, <1>4
  <2> QED
    BY <1>1, <2>1, Registered DEF Guarded
<1>8. req'[r].pc \in {"minted", "idle"} /\ \A q \in Requests : q # r => req'[q] = req[q]
  BY <1>1, Fetched, Ended DEF Steps
<1>9. \A q \in Requests : Clear(q)'
  <2> SUFFICES ASSUME NEW q \in Requests PROVE Clear(q)'
    OBVIOUS
  <2>1. CASE q = r
    BY <1>8, <2>1 DEF Clear
  <2>2. CASE q # r
    <3>1. \A x \in assets' \ assets : x.kind = "bearer" \/ (Holds(r) /\ x.i = req[r].i)
      BY <1>1, <1>4 DEF Holds
    <3> QED
      BY <1>1, <1>8, <2>2, <3>1, Others DEF Guarded
  <2> QED
    BY <2>1, <2>2
<1> QED
  BY <1>5, <1>6, <1>7, <1>9 DEF Guarded

\* A mint is recorded by the request that saw no record of its terms.
LEMMA GuardedRecord ==
    ASSUME Base, Guarded, NEW r \in Requests, Record(r)
    PROVE  Guarded'
<1> DEFINE pc == IF req[r].kind = "bearer" THEN "sending" ELSE "recorded"
           n  == [idem |-> Idem(req[r].kind, req[r].terms), asset |-> req[r].asset]
<1>1. /\ req[r].pc \in {"minted", "building"} /\ Move(r, pc)
      /\ deploys' = [deploys EXCEPT ![req[r].i] = @ \cup {n}]
      /\ UNCHANGED <<assets, prep>>
  BY DEF Record, server
<1>2. req[r] \in Flights /\ pc \in {"sending", "recorded"} /\ req[r].i \in Issuances
  BY <1>1 DEF Base, Typed, Idle, Flights
<1>3. /\ deploys'[req[r].i] = deploys[req[r].i] \cup {n}
      /\ \A i \in Issuances : i # req[r].i => deploys'[i] = deploys[i]
  BY <1>1, <1>2 DEF Base, Typed
<1>4. /\ n.idem = <<req[r].kind = "bearer", req[r].terms>> /\ n.idem[1] = (req[r].kind = "bearer")
      /\ n.asset = req[r].asset
  BY DEF Idem
<1>5. req[r].kind # "bearer" => n.asset.kind # "bearer"
  BY <1>1, <1>4 DEF Base, Carried
<1>6. req[r].kind = "bearer" =>
         /\ req[r].pc = "building" /\ n.asset.i = req[r].i /\ n.asset.terms = req[r].terms
         /\ \A d \in deploys[req[r].i] : d.idem # n.idem
  <2>1. Carried(r) /\ Clear(r)
    BY DEF Base, Guarded
  <2> SUFFICES ASSUME req[r].kind = "bearer"
               PROVE  /\ req[r].pc = "building" /\ n.asset.i = req[r].i /\ n.asset.terms = req[r].terms
                      /\ \A d \in deploys[req[r].i] : d.idem # n.idem
    OBVIOUS
  <2>2. req[r].pc = "building"
    BY <1>1, <2>1 DEF Carried
  <2>3. n.asset.i = req[r].i /\ n.asset.terms = req[r].terms
    BY <1>4, <2>1, <2>2 DEF Carried
  <2>4. n.idem = <<TRUE, req[r].terms>>
    BY <1>4
  <2> HIDE DEF n
  <2>5. \A d \in deploys[req[r].i] : d.idem # n.idem
    BY <2>1, <2>2, <2>4 DEF Clear
  <2> QED
    BY <2>2, <2>3, <2>5
<1> HIDE DEF pc, n
<1>7. /\ req'[r].pc = pc /\ req'[r].asset = req[r].asset /\ req'[r].i = req[r].i
      /\ \A q \in Requests : q # r => req'[q] = req[q]
  BY <1>1, <1>2, Moved DEF Steps
<1>8. \A i \in Issuances : deploys[i] \subseteq deploys'[i]
  BY <1>3
<1>9. \A q \in Requests : Clear(q)'
  <2> SUFFICES ASSUME NEW q \in Requests PROVE Clear(q)'
    OBVIOUS
  <2>1. CASE q = r
    <3>1. n \in deploys'[req'[r].i] /\ n.asset = req'[r].asset
      BY <1>3, <1>4, <1>7
    <3> QED
      BY <1>2, <1>7, <2>1, <3>1 DEF Clear
  <2>2. CASE q # r
    <3>1. Holds(r)
      BY <1>1 DEF Holds
    <3>2. \A i \in Issuances : deploys'[i] = deploys[i] \/ (Holds(r) /\ i = req[r].i)
      BY <1>3, <3>1
    <3>3. \A a \in assets' \ assets : a.kind = "bearer" \/ (Holds(r) /\ a.i = req[r].i)
      BY <1>1
    <3> QED
      BY <1>7, <1>8, <2>2, <3>2, <3>3, Others DEF Guarded
  <2> QED
    BY <2>1, <2>2
<1>10. Booked'
  <2>1. ASSUME NEW a \in assets', a.kind = "bearer" PROVE \E d \in deploys'[a.i] : d.asset = a
    <3>1. a \in assets /\ a.i \in Issuances
      BY <1>1, <2>1 DEF Base, Typed, Assets
    <3> QED
      BY <1>8, <2>1, <3>1 DEF Guarded, Booked
  <2>2. ASSUME NEW i \in Issuances, NEW d \in deploys'[i], NEW e \in deploys'[i], d.idem = e.idem, d.idem[1]
        PROVE  d = e
    <3>1. CASE d \in deploys[i] /\ e \in deploys[i]
      BY <2>2, <3>1 DEF Guarded, Booked
    <3>2. CASE d = n /\ e = n
      BY <3>2
    <3>3. CASE \E x \in deploys[i] : i = req[r].i /\ x.idem = n.idem /\ n.idem[1]
      BY <1>4, <1>6, <3>3
    <3>4. \/ d \in deploys[i] /\ e \in deploys[i]
          \/ d = n /\ e = n
          \/ i = req[r].i /\ ((d \in deploys[i] /\ e = n) \/ (d = n /\ e \in deploys[i]))
      BY <1>3
    <3> QED
      BY <2>2, <3>1, <3>2, <3>3, <3>4
  <2>3. ASSUME NEW i \in Issuances, NEW d \in deploys'[i], d.asset.kind = "bearer"
        PROVE  d.idem = <<TRUE, d.asset.terms>> /\ d.asset.i = i
    <3>1. CASE d \in deploys[i]
      BY <2>3, <3>1 DEF Guarded, Booked
    <3>2. CASE d = n /\ i = req[r].i
      <4>1. req[r].kind = "bearer"
        BY <1>5, <2>3, <3>2
      <4> QED
        BY <1>4, <1>6, <3>2, <4>1
    <3> QED
      BY <1>3, <3>1, <3>2
  <2> QED
    BY <2>1, <2>2, <2>3 DEF Booked
<1>11. Resumed' /\ MintedOnce'
  BY <1>1 DEF Guarded, Resumed, MintedOnce
<1> QED
  BY <1>9, <1>10, <1>11 DEF Guarded

\* A bearer asset that comes to exist is one that is recorded, and of its terms no other is.
LEMMA Entered ==
    ASSUME Base, Guarded, NEW i \in Issuances, NEW d \in deploys[i], d.asset.kind = "bearer",
           assets' = assets \/ assets' = assets \cup {d.asset}, UNCHANGED <<deploys, prep>>
    PROVE  Resumed' /\ Booked' /\ MintedOnce'
<1> DEFINE a == d.asset
<1>1. d.idem = <<TRUE, a.terms>> /\ a.i = i
  BY DEF Guarded, Booked
<1>2. \A x \in assets' : x \in assets \/ x = a
  OBVIOUS
<1>3. Resumed'
  BY <1>2 DEF Guarded, Resumed
<1>4. Booked'
  <2>1. \A x \in assets' : x.kind = "bearer" => \E e \in deploys[x.i] : e.asset = x
    BY <1>1, <1>2 DEF Guarded, Booked
  <2> QED
    BY <2>1 DEF Guarded, Booked
<1>5. MintedOnce'
  <2>1. ASSUME NEW x \in assets, x.kind = "bearer", x.i = i, x.terms = a.terms PROVE x = a
    <3>1. PICK e \in deploys[i] : e.asset = x
      BY <2>1 DEF Guarded, Booked
    <3>5. e.asset.kind = "bearer" => e.idem = <<TRUE, e.asset.terms>>
      BY DEF Guarded, Booked
    <3>4. e.idem = <<TRUE, a.terms>>
      BY <2>1, <3>1, <3>5
    <3>2. e.idem = d.idem /\ d.idem[1]
      BY <1>1, <3>4
    <3>3. e = d
      BY <3>2 DEF Guarded, Booked
    <3> QED
      BY <3>1, <3>3
  <2> QED
    BY <1>1, <1>2, <2>1 DEF Guarded, MintedOnce
<1> QED
  BY <1>3, <1>4, <1>5

LEMMA GuardedSend ==
    ASSUME Base, Guarded, NEW r \in Requests, Send(r) \/ SendFails(r)
    PROVE  Guarded'
<1>1. /\ req[r].pc = "sending" /\ UNCHANGED <<deploys, prep>>
      /\ assets' = assets \/ assets' = assets \cup {req[r].asset}
      /\ Move(r, "recorded") \/ End(r)
  BY DEF Send, SendFails, Accept, store
<1>2. req[r].asset.kind = "bearer" /\ req[r].i \in Issuances
  BY <1>1 DEF Base, Carried, Typed, Idle, Flights
<1>3. PICK d \in deploys[req[r].i] : d.asset = req[r].asset
  BY <1>1 DEF Guarded, Clear
<1>4. Resumed' /\ Booked' /\ MintedOnce'
  BY <1>1, <1>2, <1>3, Entered
<1>5. req'[r].pc \in {"recorded", "idle"} /\ \A q \in Requests : q # r => req'[q] = req[q]
  BY <1>1, Moved, Ended DEF Steps
<1>6. \A q \in Requests : Clear(q)'
  <2> SUFFICES ASSUME NEW q \in Requests PROVE Clear(q)'
    OBVIOUS
  <2>1. CASE q = r
    BY <1>5, <2>1 DEF Clear
  <2>2. CASE q # r
    <3>1. \A x \in assets' \ assets : x.kind = "bearer" \/ (Holds(r) /\ x.i = req[r].i)
      BY <1>1, <1>2
    <3> QED
      BY <1>1, <1>5, <2>2, <3>1, Others DEF Guarded
  <2> QED
    BY <2>1, <2>2
<1> QED
  BY <1>4, <1>6 DEF Guarded

LEMMA GuardedSendAgain ==
    ASSUME Base, Guarded, NEW i \in Issuances, NEW d \in deploys[i], SendAgain(d.asset)
    PROVE  Guarded'
<1>1. d.asset.kind = "bearer" /\ assets' = assets \cup {d.asset} /\ UNCHANGED <<deploys, prep, req>>
  BY DEF SendAgain, Accept, store, procs
<1>2. Resumed' /\ Booked' /\ MintedOnce'
  BY <1>1, Entered
<1>3. \A q \in Requests : Clear(q)'
  BY <1>1 DEF Guarded, Clear
<1> QED
  BY <1>2, <1>3 DEF Guarded

LEMMA GuardedNext == Base /\ Guarded /\ [Next]_vars => Guarded'
<1> SUFFICES ASSUME Base, Guarded, [Next]_vars PROVE Guarded'
  OBVIOUS
<1>1. ASSUME NEW r \in Requests, Deploying(r) PROVE Guarded'
  <2>1. CASE \/ \E i \in Issuances, kind \in Kinds, t \in Terms : Ask(r, i, kind, t)
             \/ Elect(r) \/ Refuse(r) \/ FundFails(r) \/ BuildFails(r) \/ GoLive(r)
    BY <2>1, GuardedQuiet
  <2>2. CASE Admit(r) \/ CheckTicker(r) \/ Fund(r) \/ Prepare(r)
    BY <2>2, GuardedAdmit, GuardedCheckTicker, GuardedFund, GuardedPrepare
  <2>3. CASE MintServiced(r) \/ MintUnanswered(r)
    BY <2>3, GuardedMint
  <2>4. CASE PutPrepare(r) \/ Complete(r) \/ OnDeployed(r)
    BY <2>4, GuardedPutPrepare, GuardedComplete, GuardedOnDeployed
  <2>5. CASE Record(r) \/ Send(r) \/ SendFails(r)
    BY <2>5, GuardedRecord, GuardedSend
  <2> QED
    BY <1>1, <2>1, <2>2, <2>3, <2>4, <2>5 DEF Deploying
<1>2. CASE Crash
  <2>1. (\A r \in Requests : req'[r].pc = "idle") /\ UNCHANGED <<assets, deploys, prep>>
    BY <1>2 DEF Crash, store, server, Idle
  <2> QED
    BY <2>1 DEF Guarded, Clear, Resumed, Booked, MintedOnce
<1>3. CASE \E i \in Issuances : \E d \in deploys[i] : SendAgain(d.asset)
  BY <1>3, GuardedSendAgain
<1>4. CASE Still
  <2>1. \A r \in Requests : Clear(r)'
    BY <1>4 DEF Still, Guarded, Clear
  <2>2. Resumed' /\ MintedOnce'
    BY <1>4 DEF Still, Guarded, Resumed, MintedOnce
  <2>3. Booked'
    BY <1>4 DEF Still, Guarded, Booked
  <2> QED
    BY <2>1, <2>2, <2>3 DEF Guarded
<1>5. CASE Watching \/ (\E a \in assets : Confirm(a)) \/ (\E m \in mined : Anchor(m) \/ Reorg(m))
  BY <1>4, <1>5, Elsewhere
<1>6. CASE UNCHANGED vars
  BY <1>4, <1>6 DEF vars, store, server, procs, Still
<1> QED
  BY <1>1, <1>2, <1>3, <1>5, <1>6 DEF Next

\* Whatever deploys are in flight, answers lost and processes stopped, one election over one set of
\* terms of an issuance exists at most once on the chain.
THEOREM NeverTwice == Spec => []MintedOnce
<1>1. Init => Base /\ Guarded
  BY BaseInit, GuardedInit
<1>2. Base /\ Guarded /\ [Next]_vars => Base' /\ Guarded'
  BY BaseNext, GuardedNext
<1>3. Base /\ Guarded => MintedOnce
  BY DEF Guarded
<1> QED
  BY <1>1, <1>2, <1>3, PTL DEF Spec

-----------------------------------------------------------------------------
(* Every recorded bearer mint has its coin, and no coin stays locked for     *)
(* nothing.                                                                  *)

\* The coin of a mint being built is locked, and nothing else uses it.
Reserved(r) ==
    req[r].pc = "building" =>
        /\ req[r].asset.coin \in held
        /\ \A a \in Recorded : a.kind = "bearer" => a.coin # req[r].asset.coin
        /\ \A q \in Requests : req[q].pc = "building" /\ req[q].asset.coin = req[r].asset.coin => q = r

OneEach == \A a, b \in Recorded : a.kind = "bearer" /\ b.kind = "bearer" /\ a.coin = b.coin => a = b
Locks   == \A a \in Recorded : a.kind = "bearer" /\ a \notin sent => a.coin \in held
Freeing ==
    stopped = 0 =>
        \A c \in held : \/ \E r \in Requests : req[r].pc = "building" /\ req[r].asset.coin = c
                        \/ \E a \in Recorded : a.coin = c

Coined == (\A r \in Requests : Reserved(r)) /\ OneEach /\ Locks /\ Freeing /\ sent \subseteq Recorded

LEMMA CoinedInit == Init => Coined
<1> SUFFICES ASSUME Init PROVE Coined
  OBVIOUS
<1>1. \A r \in Requests : req[r].pc = "idle"
  BY DEF Init, Idle
<1>2. Recorded = {} /\ held = {} /\ sent = {}
  BY DEF Init, Recorded
<1> QED
  BY <1>1, <1>2 DEF Coined, Reserved, OneEach, Locks, Freeing

\* A step that neither locks nor records, of a request that is not being built.
LEMMA Unbuilt ==
    ASSUME Coined, UNCHANGED <<deploys, held, stopped>>, sent \subseteq sent', sent' \subseteq Recorded,
           \A q \in Requests : req'[q] = req[q] \/ (req[q].pc # "building" /\ req'[q].pc # "building")
    PROVE  Coined'
<1>1. Recorded' = Recorded
  BY DEF Recorded
<1>2. \A q \in Requests : /\ req'[q].pc = "building" <=> req[q].pc = "building"
                          /\ req[q].pc = "building" => req'[q].asset = req[q].asset
  OBVIOUS
<1>3. \A r \in Requests : Reserved(r)'
  <2> SUFFICES ASSUME NEW r \in Requests, req[r].pc = "building"
               PROVE  Reserved(r)'
    BY <1>2 DEF Reserved
  <2>1. Reserved(r)
    BY DEF Coined
  <2> QED
    BY <1>1, <1>2, <2>1 DEF Reserved
<1>4. OneEach' /\ Locks'
  BY <1>1 DEF Coined, OneEach, Locks
<1>5. Freeing'
  BY <1>1, <1>2 DEF Coined, Freeing
<1> QED
  BY <1>1, <1>3, <1>4, <1>5 DEF Coined

LEMMA CoinedUnbuilt ==
    ASSUME Base, Coined, NEW r \in Requests,
           \/ \E i \in Issuances, kind \in Kinds, t \in Terms : Ask(r, i, kind, t)
           \/ Elect(r) \/ Refuse(r) \/ Admit(r) \/ CheckTicker(r)
           \/ MintServiced(r) \/ MintUnanswered(r) \/ Prepare(r) \/ PutPrepare(r) \/ Complete(r)
           \/ FundFails(r) \/ GoLive(r) \/ OnDeployed(r)
    PROVE  Coined'
<1>1. UNCHANGED <<deploys, held, sent, stopped>>
  BY DEF Ask, Elect, Refuse, Admit, CheckTicker, MintServiced, MintUnanswered, Prepare, PutPrepare, Complete,
         FundFails, GoLive, OnDeployed, store, server
<1>2. \/ \E f : f.pc = "read" /\ req' = [req EXCEPT ![r] = f] /\ req[r] = Idle
      \/ req[r].pc \notin {"idle", "building"} /\
           \/ End(r)
           \/ \E pc \in Steps \ {"building"} : Move(r, pc)
           \/ \E pc \in Steps \ {"building"} : \E a : Got(r, pc, a)
  <2>1. CASE \E i \in Issuances, kind \in Kinds, t \in Terms : Ask(r, i, kind, t)
    <3>1. PICK i \in Issuances, kind \in Kinds, t \in Terms : Ask(r, i, kind, t)
      BY <2>1
    <3> DEFINE f == [pc |-> "read", i |-> i, kind |-> kind, terms |-> t, seen |-> row[i].status, asset |-> None]
    <3>2. f.pc = "read" /\ req' = [req EXCEPT ![r] = f] /\ req[r] = Idle
      BY <3>1 DEF Ask
    <3> QED
      BY <3>2
  <2>2. CASE Elect(r) \/ Admit(r) \/ GoLive(r)
    <3>1. \E pc \in {"elected", "admitted", "live"} : Move(r, pc) /\ req[r].pc \in {"read", "elected", "recorded"}
      BY <2>2 DEF Elect, Admit, GoLive
    <3> QED
      BY <3>1 DEF Steps
  <2>3. CASE CheckTicker(r)
    <3> DEFINE pc == CASE req[r].kind = "serviced" -> "minting"
                       [] req[r].kind = "network"  -> "preparing"
                       [] req[r].kind = "bearer"   -> "funding"
    <3>1. req[r].pc = "admitted" /\ Move(r, pc)
      BY <2>3 DEF CheckTicker
    <3>2. req[r].kind \in {"serviced", "network", "bearer"}
      BY <3>1, DeployAssumption DEF Base, Typed, Idle, Flights, DeployAssumption
    <3>3. pc \in {"minting", "preparing", "funding"}
      BY <3>2
    <3> HIDE DEF pc
    <3> QED
      BY <3>1, <3>3 DEF Steps
  <2>4. CASE MintServiced(r)
    BY <2>4 DEF MintServiced, Steps
  <2>5. CASE Prepare(r)
    BY <2>5 DEF Prepare, Steps
  <2>6. CASE Complete(r)
    BY <2>6 DEF Complete, Steps
  <2>7. CASE Refuse(r) \/ MintUnanswered(r) \/ PutPrepare(r) \/ FundFails(r) \/ OnDeployed(r)
    BY <2>7 DEF Refuse, MintUnanswered, PutPrepare, FundFails, OnDeployed
  <2> QED
    BY <2>1, <2>2, <2>3, <2>4, <2>5, <2>6, <2>7
<1>3. \A q \in Requests : req'[q] = req[q] \/ (req[q].pc # "building" /\ req'[q].pc # "building")
  <2>1. CASE \E f : f.pc = "read" /\ req' = [req EXCEPT ![r] = f] /\ req[r] = Idle
    <3>1. req'[r].pc = "read" /\ req[r].pc = "idle" /\ \A q \in Requests : q # r => req'[q] = req[q]
      BY <2>1 DEF Base, Typed, Idle
    <3> QED
      BY <3>1
  <2>2. CASE req[r].pc \notin {"idle", "building"} /\ End(r)
    BY <2>2, Ended
  <2>3. CASE req[r].pc \notin {"idle", "building"} /\ \E pc \in Steps \ {"building"} : Move(r, pc)
    BY <2>3, Moved
  <2>4. CASE req[r].pc \notin {"idle", "building"} /\ \E pc \in Steps \ {"building"} : \E a : Got(r, pc, a)
    <3>1. PICK pc \in Steps \ {"building"} : \E a : Got(r, pc, a)
      BY <2>4
    <3>2. PICK a : Got(r, pc, a)
      BY <3>1
    <3>3. req'[r].pc = pc /\ \A q \in Requests : q # r => req'[q] = req[q]
      BY <2>4, <3>2, Fetched
    <3> QED
      BY <2>4, <3>3
  <2> QED
    BY <1>2, <2>1, <2>2, <2>3, <2>4
<1>4. sent \subseteq sent' /\ sent' \subseteq Recorded
  BY <1>1 DEF Coined
<1> QED
  BY <1>1, <1>3, <1>4, Unbuilt

\* The coin of a new mint was neither locked nor spent.
LEMMA CoinedFund ==
    ASSUME Base, Coined, NEW r \in Requests, Fund(r)
    PROVE  Coined'
<1>1. PICK c \in Spendable : /\ held' = held \cup {c}
                             /\ Got(r, "building", [asset |-> c, i |-> req[r].i, kind |-> "bearer",
                                                    terms |-> req[r].terms, coin |-> c])
  BY DEF Fund
<1> DEFINE n == [asset |-> c, i |-> req[r].i, kind |-> "bearer", terms |-> req[r].terms, coin |-> c]
<1>2. /\ Got(r, "building", n) /\ req[r].pc = "funding" /\ UNCHANGED <<deploys, sent, stopped>>
      /\ n.coin = c
  BY <1>1 DEF Fund, store
<1> HIDE DEF n
<1>3. req'[r].pc = "building" /\ req'[r].asset.coin = c /\ \A q \in Requests : q # r => req'[q] = req[q]
  BY <1>2, Fetched DEF Steps
<1>4. c \notin held /\ \A a \in sent : a.coin # c
  BY DEF Spendable
<1>5. Recorded' = Recorded
  BY <1>2 DEF Recorded
<1>6. \A a \in Recorded : a.kind = "bearer" => a.coin # c
  BY <1>4 DEF Coined, Locks
<1>7. \A q \in Requests : req[q].pc = "building" => req[q].asset.coin \in held
  BY DEF Coined, Reserved
<1>8. ASSUME NEW q \in Requests PROVE Reserved(q)'
  <2>1. CASE q = r
    <3>1. \A p \in Requests : req'[p].pc = "building" /\ req'[p].asset.coin = c => p = r
      BY <1>3, <1>4, <1>7
    <3> QED
      BY <1>1, <1>3, <1>5, <1>6, <2>1, <3>1 DEF Reserved
  <2>2. CASE q # r /\ req[q].pc = "building"
    <3>1. Reserved(q) /\ req'[q] = req[q]
      BY <1>3, <2>2 DEF Coined
    <3>2. req[q].asset.coin # c
      BY <1>4, <1>7, <2>2
    <3>3. \A p \in Requests : req'[p].pc = "building" /\ req'[p].asset.coin = req[q].asset.coin => p = q
      BY <1>3, <2>2, <3>1, <3>2 DEF Reserved
    <3> QED
      BY <1>1, <1>5, <2>2, <3>1, <3>3 DEF Reserved
  <2>3. CASE q # r /\ req[q].pc # "building"
    BY <1>3, <2>3 DEF Reserved
  <2> QED
    BY <2>1, <2>2, <2>3
<1>9. OneEach' /\ Locks'
  BY <1>1, <1>2, <1>5 DEF Coined, OneEach, Locks
<1>10. Freeing'
  <2> SUFFICES ASSUME stopped = 0, NEW x \in held'
               PROVE  \/ \E q \in Requests : req'[q].pc = "building" /\ req'[q].asset.coin = x
                      \/ \E a \in Recorded : a.coin = x
    BY <1>2, <1>5 DEF Freeing
  <2>1. CASE x = c
    BY <1>3, <2>1
  <2>2. CASE x \in held
    <3>1. \/ \E q \in Requests : req[q].pc = "building" /\ req[q].asset.coin = x
          \/ \E a \in Recorded : a.coin = x
      BY <2>2 DEF Coined, Freeing
    <3> QED
      BY <1>2, <1>3, <3>1
  <2> QED
    BY <1>1, <2>1, <2>2
<1> QED
  BY <1>2, <1>5, <1>8, <1>9, <1>10 DEF Coined

\* The coin that is freed is of no other mint.
LEMMA CoinedBuildFails ==
    ASSUME Base, Coined, NEW r \in Requests, BuildFails(r)
    PROVE  Coined'
<1> DEFINE c == req[r].asset.coin
<1>1. /\ req[r].pc = "building" /\ held' = held \ {c} /\ End(r)
      /\ UNCHANGED <<deploys, sent, stopped>>
  BY DEF BuildFails, Freed, store
<1>2. req'[r].pc = "idle" /\ \A q \in Requests : q # r => req'[q] = req[q]
  BY <1>1, Ended
<1>3. Recorded' = Recorded
  BY <1>1 DEF Recorded
<1>4. /\ \A a \in Recorded : a.kind = "bearer" => a.coin # c
      /\ \A q \in Requests : req[q].pc = "building" /\ req[q].asset.coin = c => q = r
  BY <1>1 DEF Coined, Reserved
<1>5. ASSUME NEW q \in Requests PROVE Reserved(q)'
  <2>1. CASE q = r \/ req[q].pc # "building"
    BY <1>2, <2>1 DEF Reserved
  <2>2. CASE q # r /\ req[q].pc = "building"
    <3>1. Reserved(q) /\ req'[q] = req[q] /\ req[q].asset.coin # c
      BY <1>2, <1>4, <2>2 DEF Coined
    <3>2. \A p \in Requests : req'[p].pc = "building" /\ req'[p].asset.coin = req[q].asset.coin => p = q
      BY <1>2, <2>2, <3>1 DEF Reserved
    <3> QED
      BY <1>1, <1>3, <2>2, <3>1, <3>2 DEF Reserved
  <2> QED
    BY <2>1, <2>2
<1>6. OneEach' /\ Locks'
  BY <1>1, <1>3, <1>4 DEF Coined, OneEach, Locks
<1>7. Freeing'
  <2> SUFFICES ASSUME stopped = 0, NEW x \in held'
               PROVE  \/ \E q \in Requests : req'[q].pc = "building" /\ req'[q].asset.coin = x
                      \/ \E a \in Recorded : a.coin = x
    BY <1>1, <1>3 DEF Freeing
  <2>1. x \in held /\ x # c
    BY <1>1
  <2>2. \/ \E q \in Requests : req[q].pc = "building" /\ req[q].asset.coin = x
        \/ \E a \in Recorded : a.coin = x
    BY <2>1 DEF Coined, Freeing
  <2> QED
    BY <1>2, <2>1, <2>2
<1> QED
  BY <1>1, <1>3, <1>5, <1>6, <1>7 DEF Coined

\* A recorded mint takes over the coin its request reserved.
LEMMA CoinedRecord ==
    ASSUME Base, Coined, NEW r \in Requests, Record(r)
    PROVE  Coined'
<1> DEFINE pc == IF req[r].kind = "bearer" THEN "sending" ELSE "recorded"
           d  == [idem |-> Idem(req[r].kind, req[r].terms), asset |-> req[r].asset]
           n  == req[r].asset
<1>1. /\ req[r].pc \in {"minted", "building"} /\ Move(r, pc)
      /\ deploys' = [deploys EXCEPT ![req[r].i] = @ \cup {d}]
      /\ UNCHANGED <<held, sent, stopped>>
  BY DEF Record, server
<1>2. pc \in {"sending", "recorded"} /\ req[r].i \in Issuances
  BY <1>1 DEF Base, Typed, Idle, Flights
<1>3. Recorded' = Recorded \cup {n}
  <2>1. deploys \in [Issuances -> SUBSET Records]
    BY DEF Base, Typed
  <2>2. UNION {deploys'[i] : i \in Issuances} = (UNION {deploys[i] : i \in Issuances}) \cup {d}
    BY <1>1, <1>2, <2>1
  <2>3. d.asset = n
    OBVIOUS
  <2> HIDE DEF d, n
  <2> QED
    BY <2>2, <2>3 DEF Recorded
<1> HIDE DEF pc
<1>4. req'[r].pc = pc /\ \A q \in Requests : q # r => req'[q] = req[q]
  BY <1>1, <1>2, Moved DEF Steps
<1>5. n.kind = "bearer" => req[r].pc = "building"
  BY <1>1 DEF Base, Carried
<1>6. req[r].pc = "building" =>
         /\ n.coin \in held
         /\ \A a \in Recorded : a.kind = "bearer" => a.coin # n.coin
         /\ \A q \in Requests : req[q].pc = "building" /\ req[q].asset.coin = n.coin => q = r
  BY DEF Coined, Reserved
<1>7. ASSUME NEW q \in Requests PROVE Reserved(q)'
  <2>1. CASE q = r \/ req[q].pc # "building"
    BY <1>2, <1>4, <2>1 DEF Reserved
  <2>2. CASE q # r /\ req[q].pc = "building"
    <3>1. Reserved(q) /\ req'[q] = req[q]
      BY <1>4, <2>2 DEF Coined
    <3>2. n.kind = "bearer" => n.coin # req[q].asset.coin
      BY <1>5, <1>6, <2>2
    <3>3. \A p \in Requests : req'[p].pc = "building" /\ req'[p].asset.coin = req[q].asset.coin => p = q
      BY <1>2, <1>4, <2>2, <3>1 DEF Reserved
    <3> QED
      BY <1>1, <1>3, <2>2, <3>1, <3>2, <3>3 DEF Reserved
  <2> QED
    BY <2>1, <2>2
<1>8. OneEach'
  BY <1>3, <1>5, <1>6 DEF Coined, OneEach
<1>9. Locks'
  BY <1>1, <1>3, <1>5, <1>6 DEF Coined, Locks
<1>10. Freeing'
  <2> SUFFICES ASSUME stopped = 0, NEW x \in held
               PROVE  \/ \E q \in Requests : req'[q].pc = "building" /\ req'[q].asset.coin = x
                      \/ \E a \in Recorded' : a.coin = x
    BY <1>1 DEF Freeing
  <2>1. \/ \E q \in Requests : req[q].pc = "building" /\ req[q].asset.coin = x
        \/ \E a \in Recorded : a.coin = x
    BY DEF Coined, Freeing
  <2> QED
    BY <1>3, <1>4, <2>1
<1>11. sent' \subseteq Recorded'
  BY <1>1, <1>3 DEF Coined
<1> QED
  BY <1>7, <1>8, <1>9, <1>10, <1>11 DEF Coined

LEMMA CoinedSend ==
    ASSUME Base, Guarded, Coined, NEW r \in Requests, Send(r) \/ SendFails(r)
    PROVE  Coined'
<1>1. /\ req[r].pc = "sending" /\ UNCHANGED <<deploys, held, stopped>>
      /\ sent \subseteq sent' /\ sent' \subseteq sent \cup {req[r].asset}
      /\ Move(r, "recorded") \/ End(r)
  BY DEF Send, SendFails, Accept, Kept, store
<1>2. req[r].asset \in Recorded
  <2>1. req[r].i \in Issuances
    BY <1>1 DEF Base, Typed, Idle, Flights
  <2>2. PICK d \in deploys[req[r].i] : d.asset = req[r].asset
    BY <1>1 DEF Guarded, Clear
  <2> QED
    BY <2>1, <2>2 DEF Recorded
<1>3. req'[r].pc \in {"recorded", "idle"} /\ \A q \in Requests : q # r => req'[q] = req[q]
  BY <1>1, Moved, Ended DEF Steps
<1>4. sent' \subseteq Recorded
  BY <1>1, <1>2 DEF Coined
<1>5. \A q \in Requests : req'[q] = req[q] \/ (req[q].pc # "building" /\ req'[q].pc # "building")
  BY <1>1, <1>3
<1> QED
  BY <1>1, <1>4, <1>5, Unbuilt

LEMMA CoinedNext == Base /\ Guarded /\ Coined /\ [Next]_vars => Coined'
<1> SUFFICES ASSUME Base, Guarded, Coined, [Next]_vars PROVE Coined'
  OBVIOUS
<1>1. ASSUME NEW r \in Requests, Deploying(r) PROVE Coined'
  <2>1. CASE Fund(r) \/ BuildFails(r) \/ Record(r)
    BY <2>1, CoinedFund, CoinedBuildFails, CoinedRecord
  <2>2. CASE Send(r) \/ SendFails(r)
    BY <2>2, CoinedSend
  <2>3. CASE ~(Fund(r) \/ BuildFails(r) \/ Record(r) \/ Send(r) \/ SendFails(r))
    BY <1>1, <2>3, CoinedUnbuilt DEF Deploying
  <2> QED
    BY <2>1, <2>2, <2>3
<1>2. CASE Crash
  <2>1. (\A r \in Requests : req'[r].pc = "idle") /\ UNCHANGED <<deploys, held, sent>> /\ stopped' = stopped + 1
    BY <1>2 DEF Crash, store, server, Idle
  <2>2. Recorded' = Recorded /\ stopped' # 0
    BY <2>1 DEF Recorded, Base, Typed
  <2> QED
    BY <2>1, <2>2 DEF Coined, Reserved, OneEach, Locks, Freeing
<1>3. CASE \E i \in Issuances : \E d \in deploys[i] : SendAgain(d.asset)
  <2>1. PICK i \in Issuances : \E d \in deploys[i] : SendAgain(d.asset)
    BY <1>3
  <2>2. PICK d \in deploys[i] : SendAgain(d.asset)
    BY <2>1
  <2>3. sent' = sent \cup {d.asset} /\ UNCHANGED <<deploys, req, held, stopped>>
    BY <2>2 DEF SendAgain, Accept, store, procs
  <2>4. d.asset \in Recorded
    BY DEF Recorded
  <2>5. sent \subseteq sent' /\ sent' \subseteq Recorded
    BY <2>3, <2>4 DEF Coined
  <2> QED
    BY <2>3, <2>5, Unbuilt
<1>4. CASE Still
  BY <1>4, Unbuilt DEF Still, Coined
<1>5. CASE Watching \/ (\E a \in assets : Confirm(a)) \/ (\E m \in mined : Anchor(m) \/ Reorg(m))
  BY <1>4, <1>5, Elsewhere
<1>6. CASE UNCHANGED vars
  BY <1>4, <1>6 DEF vars, store, server, procs, Still
<1> QED
  BY <1>1, <1>2, <1>3, <1>5, <1>6 DEF Next

\* A recorded bearer mint can always be broadcast again, for the node keeps its coin and signs it for
\* nothing else; and a deploy that came to nothing leaves no coin locked, unless the process stopped.
THEOREM CoinsKept == Spec => []CoinsAccounted
<1>1. Init => Base /\ Guarded /\ Coined
  BY BaseInit, GuardedInit, CoinedInit
<1>2. Base /\ Guarded /\ Coined /\ [Next]_vars => Base' /\ Guarded' /\ Coined'
  BY BaseNext, GuardedNext, CoinedNext
<1>3. Coined => CoinsAccounted
  BY DEF Coined, OneEach, Locks, Freeing, CoinsAccounted, Building
<1> QED
  BY <1>1, <1>2, <1>3, PTL DEF Spec
=============================================================================
