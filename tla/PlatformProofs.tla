--------------------------- MODULE PlatformProofs ---------------------------
(* What holds of the secondary market, the receipt programme, the keys      *)
(* people sign in with and the dividends of an asset, for every value of    *)
(* the constants.                                                           *)
EXTENDS Platform, Sequences, FiniteSetTheorems, WellFoundedInduction, Sums, TLAPS

-----------------------------------------------------------------------------
(* The ID a key signs in to, one request at a time.                         *)

Keys   == A!Keys
Ops    == {"register", "login", "link", "attach", "unlink"}
Early  == {"register", "unknown", "login", "find", "unlink"}
Links  == {"enclave", "claim", "free", "column", "attach", "own", "mine", "attached", "row"}
Steps  == Early \cup {"create", "first", "in", "wallet", "prove", "insert"} \cup Links
Visitors == [pc : Steps, op : Ops, key : Keys, aid : Keys]

IdTyped ==
    /\ accounts \in [Keys -> {A!Absent, A!None} \cup Enclaves]
    /\ wallets \in [Keys -> Keys \cup {A!None}]
    /\ answer \in [Keys -> Keys \cup {A!None}]
    /\ visits \in [Visits -> {A!Nobody} \cup Visitors]

NoEnclaveIn(a) == A!HeldIn(a) \cap Enclaves = {}

\* What a request knows at each of its steps: of the key it presents and of the ID it adds it to.
Founds(pc, k) ==
    /\ pc = "create" => ~A!Exists(k) /\ (k \in Wallets => wallets[k] = A!None)
    /\ pc = "first" => /\ A!Exists(k) /\ wallets[k] = A!None /\ answer[k] = A!None
                       /\ A!HeldIn(k) = {} /\ (k \in Enclaves => accounts[k] = k)
    /\ pc = "in" => wallets[k] = k /\ answer[k] = A!None /\ A!Exists(k)

Adds(pc, k, a) ==
    /\ pc \in {"wallet", "prove"} => k \in Wallets /\ A!Exists(a)
    /\ pc \in Links => k \in Enclaves /\ A!Exists(a)
    /\ pc = "prove" => A!Free(k, a)
    /\ pc \in {"claim", "free", "own", "mine", "attached"} => ~A!HasEnclave(a)
    /\ pc = "insert" => A!Exists(a) /\ A!Free(k, a) /\ (k \in Enclaves => ~A!HasEnclave(a))
    /\ pc = "column" => wallets[k] = a /\ accounts[a] = A!None /\ A!XOnlyOf(k) = {}
    /\ pc = "attached" => ~A!Exists(k) /\ A!XOnlyOf(k) = {}
    /\ pc = "row" => /\ accounts[a] = k /\ ~A!Exists(k) /\ wallets[k] = A!None /\ NoEnclaveIn(a)

Knows(v) == visits[v] # A!Nobody => /\ Founds(visits[v].pc, visits[v].key)
                                    /\ Adds(visits[v].pc, visits[v].key, visits[v].aid)

\* An enclave whose row is written and whose column is not yet.
Half(v, k) == visits[v].pc = "column" /\ visits[v].key = k

Owned    == \A k \in Keys : wallets[k] # A!None => A!Exists(wallets[k])
Sealed   == \A k \in Enclaves : wallets[k] # A!None =>
                accounts[wallets[k]] = k \/ \E v \in Visits : Half(v, k)
Answered == \A k \in Keys : answer[k] # A!None =>
                \/ wallets[k] = answer[k]
                \/ wallets[k] = A!None /\ answer[k] = k /\ A!Exists(k)

IdInv == IdTyped /\ Owned /\ Sealed /\ Answered /\ \A v \in Visits : Knows(v)

\* One request at a time, and no stop between the row of an enclave and its column.
OneVisit == (\A v, w \in Visits : v = w) /\ "column" \notin Torn

-----------------------------------------------------------------------------
LEMMA KeyFacts ==
    /\ Keys = Wallets \cup Enclaves /\ Wallets \cap Enclaves = {}
    /\ A!None \notin Keys /\ A!Absent \notin Keys /\ A!None # A!Absent
  BY PlatformAssumption DEF Keys, A!Keys, A!None, A!Absent

LEMMA VisitorFacts == \A w \in Visitors :
    /\ w # A!Nobody /\ w.pc # "idle" /\ w.pc \in Steps /\ w.key \in Keys /\ w.aid \in Keys
    /\ A!Nobody.pc = "idle"
  BY DEF Visitors, A!Nobody, Steps, Early, Links

\* A request goes on to its next step with the key and the ID it came with.
LEMMA GoesOn ==
    ASSUME IdTyped, OneVisit, NEW v \in Visits, NEW from \in Steps, NEW pc \in Steps,
           A!At(v, from), A!Goes(v, pc)
    PROVE  /\ visits' \in [Visits -> {A!Nobody} \cup Visitors]
           /\ visits[v].pc = from /\ visits[v].key \in Keys /\ visits[v].aid \in Keys
           /\ visits[v] # A!Nobody /\ \A w \in Visits : w = v
           /\ visits'[v].pc = pc /\ visits'[v].key = visits[v].key /\ visits'[v].aid = visits[v].aid
  <1>1. visits[v] \in Visitors
    BY VisitorFacts DEF IdTyped, A!At, Steps, Early, Links, A!Nobody
  <1>2. [visits[v] EXCEPT !.pc = pc] \in Visitors
    BY <1>1 DEF Visitors
  <1>3. visits' = [visits EXCEPT ![v] = [visits[v] EXCEPT !.pc = pc]]
    BY DEF A!Goes
  <1>4. visits'[v] = [visits[v] EXCEPT !.pc = pc]
    BY <1>3 DEF IdTyped
  <1>5. /\ visits'[v].pc = pc /\ visits'[v].key = visits[v].key /\ visits'[v].aid = visits[v].aid
    BY <1>1, <1>4 DEF Visitors
  <1>6. visits' \in [Visits -> {A!Nobody} \cup Visitors]
    BY <1>2, <1>3 DEF IdTyped
  <1> QED
    BY <1>1, <1>5, <1>6, VisitorFacts DEF OneVisit, A!At

LEMMA GoesOut ==
    ASSUME IdTyped, OneVisit, NEW v \in Visits, NEW from \in Steps, A!At(v, from), A!Leaves(v)
    PROVE  /\ visits' \in [Visits -> {A!Nobody} \cup Visitors]
           /\ visits[v].pc = from /\ visits[v].key \in Keys /\ visits[v].aid \in Keys
           /\ visits[v] # A!Nobody /\ \A w \in Visits : w = v
           /\ visits'[v] = A!Nobody /\ visits'[v].pc = "idle"
  <1>1. visits[v] \in Visitors
    BY VisitorFacts DEF IdTyped, A!At, Steps, Early, Links, A!Nobody
  <1> QED
    BY <1>1, VisitorFacts DEF IdTyped, OneVisit, A!At, A!Leaves, A!Nobody

TablesKept == UNCHANGED <<accounts, wallets, answer>>
Knowing(v, pc) == Founds(pc, visits[v].key) /\ Adds(pc, visits[v].key, visits[v].aid)

\* With the tables unchanged it is enough that the request knows what its next step takes for granted.
LEMMA Walks ==
    ASSUME IdInv, OneVisit, NEW v \in Visits, NEW from \in Steps \ {"column"}, NEW pc \in Steps,
           A!At(v, from), A!Goes(v, pc), TablesKept, Knowing(v, pc)
    PROVE  IdInv'
  <1> USE DEF TablesKept
  <1>1. /\ visits' \in [Visits -> {A!Nobody} \cup Visitors]
        /\ visits[v].pc = from /\ \A w \in Visits : w = v
        /\ visits'[v].pc = pc /\ visits'[v].key = visits[v].key /\ visits'[v].aid = visits[v].aid
    BY GoesOn DEF IdInv
  <1>2. IdTyped' /\ Owned' /\ Answered'
    BY <1>1 DEF IdInv, IdTyped, Owned, Answered, A!Exists
  <1>3. Sealed'
    BY <1>1 DEF IdInv, Sealed, Half
  <1>4. Knows(v)'
    BY <1>1 DEF Knowing, Knows, Founds, Adds, A!Exists, A!HeldIn, A!XOnlyOf, A!Free, A!HasEnclave, NoEnclaveIn
  <1> QED
    BY <1>1, <1>2, <1>3, <1>4 DEF IdInv

LEMMA WalksOut ==
    ASSUME IdInv, OneVisit, NEW v \in Visits, NEW from \in Steps \ {"column"},
           A!At(v, from), A!Leaves(v), TablesKept
    PROVE  IdInv'
  <1> USE DEF TablesKept
  <1>1. /\ visits' \in [Visits -> {A!Nobody} \cup Visitors]
        /\ visits[v].pc = from /\ \A w \in Visits : w = v
        /\ visits'[v] = A!Nobody /\ visits'[v].pc = "idle"
    BY GoesOut DEF IdInv
  <1>2. IdTyped' /\ Owned' /\ Answered'
    BY <1>1 DEF IdInv, IdTyped, Owned, Answered, A!Exists
  <1>3. Sealed'
    BY <1>1 DEF IdInv, Sealed, Half
  <1> QED
    BY <1>1, <1>2, <1>3 DEF IdInv, Knows

\* A request comes in.
LEMMA ComesIn ==
    ASSUME IdInv, OneVisit, NEW v \in Visits, NEW op \in Ops, NEW k \in Keys, NEW a \in Keys, NEW pc \in Steps,
           A!Comes(v, op, k, a, pc), Founds(pc, k) /\ Adds(pc, k, a)
    PROVE  IdInv'
  <1> DEFINE who == [pc |-> pc, op |-> op, key |-> k, aid |-> a]
  <1>1. who \in Visitors /\ who.pc = pc /\ who.key = k /\ who.aid = a
    BY DEF Visitors
  <1>2. /\ visits' = [visits EXCEPT ![v] = who] /\ UNCHANGED <<accounts, wallets, answer>>
        /\ visits[v].pc = "idle" /\ \A w \in Visits : w = v
    BY DEF A!Comes, A!At, OneVisit
  <1> HIDE DEF who
  <1>3. visits' \in [Visits -> {A!Nobody} \cup Visitors] /\ visits'[v] = who
    BY <1>1, <1>2 DEF IdInv, IdTyped
  <1>4. IdTyped' /\ Owned' /\ Answered'
    BY <1>2, <1>3 DEF IdInv, IdTyped, Owned, Answered, A!Exists
  <1>5. Sealed'
    BY <1>2, <1>3 DEF IdInv, Sealed, Half
  <1>6. Knows(v)'
    BY <1>1, <1>2, <1>3 DEF Knows, Founds, Adds, A!Exists, A!HeldIn, A!XOnlyOf, A!Free, A!HasEnclave, NoEnclaveIn
  <1> QED
    BY <1>2, <1>4, <1>5, <1>6 DEF IdInv

LEMMA Come ==
    ASSUME IdInv, OneVisit, NEW v \in Visits,
           \/ \E k \in Keys : A!Register(v, k) \/ A!Login(v, k) \/ A!Unlink(v, k)
           \/ \E k, a \in Keys : A!Link(v, k, a) \/ A!Attach(v, k, a)
    PROVE  IdInv'
  <1>1. ASSUME NEW k \in Keys, A!Register(v, k) \/ A!Login(v, k) PROVE IdInv'
    <2>1. PICK op \in Ops, pc \in {"register", "login"} : A!Comes(v, op, k, k, pc)
      BY <1>1 DEF A!Register, A!Login, Ops
    <2> QED
      BY <2>1, ComesIn DEF Founds, Adds, Steps, Early, Links
  <1>2. ASSUME NEW k \in Keys, A!Unlink(v, k) PROVE IdInv'
    <2>1. A!Comes(v, "unlink", k, wallets[k], "unlink") /\ wallets[k] \in Keys
      BY <1>2 DEF A!Unlink, IdInv, IdTyped
    <2> QED
      BY <2>1, ComesIn DEF Founds, Adds, Steps, Early, Links, Ops
  <1>3. ASSUME NEW k \in Keys, NEW a \in Keys, A!Link(v, k, a) PROVE IdInv'
    <2>1. CASE k \in Wallets
      <3>1. A!Exists(a) /\ A!Comes(v, "link", k, a, "wallet")
        BY <1>3, <2>1 DEF A!Link
      <3> QED
        BY <2>1, <3>1, ComesIn DEF Founds, Adds, Steps, Early, Links, Ops
    <2>2. CASE k \notin Wallets
      <3>1. A!Exists(a) /\ A!Comes(v, "link", k, a, "enclave") /\ k \in Enclaves
        BY <1>3, <2>2, KeyFacts DEF A!Link
      <3> QED
        BY <3>1, ComesIn DEF Founds, Adds, Steps, Early, Links, Ops
    <2> QED
      BY <2>1, <2>2
  <1>4. ASSUME NEW k \in Keys, NEW a \in Keys, A!Attach(v, k, a) PROVE IdInv'
    <2>1. A!Exists(a) /\ A!Comes(v, "attach", k, a, "attach") /\ k \in Enclaves
      BY <1>4 DEF A!Attach
    <2> QED
      BY <2>1, ComesIn DEF Founds, Adds, Steps, Early, Links, Ops
  <1> QED
    BY <1>1, <1>2, <1>3, <1>4

\* A signed challenge is used up, or the request ends.
LEMMA Proved ==
    ASSUME IdInv, OneVisit, NEW v \in Visits, NEW from \in Steps \ {"column"}, NEW pc \in Steps,
           A!Prove(v, from, pc), visits[v].pc = from => Knowing(v, pc)
    PROVE  IdInv'
  <1>1. A!At(v, from) /\ TablesKept
    BY DEF A!Prove, TablesKept
  <1>2. CASE A!Goes(v, pc)
    BY <1>1, <1>2, Walks DEF A!At
  <1>3. CASE A!Leaves(v)
    BY <1>1, <1>3, WalksOut
  <1> QED
    BY <1>2, <1>3 DEF A!Prove

LEMMA Checked ==
    ASSUME IdInv, OneVisit, NEW v \in Visits, NEW from \in Steps \ {"column"}, NEW pc \in Steps,
           NEW passes \in BOOLEAN, A!Checks(v, from, passes, pc),
           visits[v].pc = from /\ passes => Knowing(v, pc)
    PROVE  IdInv'
  <1>1. A!At(v, from) /\ TablesKept
    BY DEF A!Checks, TablesKept
  <1>2. CASE passes
    <2>1. A!Goes(v, pc)
      BY <1>2 DEF A!Checks
    <2> QED
      BY <1>1, <1>2, <2>1, Walks DEF A!At
  <1>3. CASE ~passes
    <2>1. A!Leaves(v)
      BY <1>3 DEF A!Checks
    <2> QED
      BY <1>1, <2>1, WalksOut
  <1> QED
    BY <1>2, <1>3

\* Where a request stands, its facts are at hand.
LEMMA Standing ==
    ASSUME IdInv, NEW v \in Visits, NEW from \in Steps, visits[v].pc = from
    PROVE  visits[v] \in Visitors /\ Founds(from, visits[v].key) /\ Adds(from, visits[v].key, visits[v].aid)
  BY VisitorFacts DEF IdInv, IdTyped, Knows, Steps, Early, Links, A!Nobody

LEMMA Checkpoints ==
    ASSUME IdInv, OneVisit, NEW v \in Visits,
           \/ A!Prove(v, "register", "unknown") \/ A!Prove(v, "login", "find")
           \/ A!Checks(v, "unknown", A!Unregistered(A!Key(v)), "create")
           \/ A!Checks(v, "wallet", A!Free(A!Key(v), A!Owner(v)), "prove")
           \/ A!Prove(v, "prove", "insert")
           \/ A!Checks(v, "enclave", ~A!HasEnclave(A!Owner(v)), "claim") \/ A!Prove(v, "claim", "free")
           \/ A!Checks(v, "free", A!Free(A!Key(v), A!Owner(v)), "insert")
           \/ A!Checks(v, "attach", ~A!HasEnclave(A!Owner(v)), "own") \/ A!Prove(v, "own", "mine")
           \/ A!Checks(v, "mine", ~A!Exists(A!Key(v)) /\ A!XOnlyOf(A!Key(v)) = {}, "attached")
    PROVE  IdInv'
  <1> USE DEF Steps, Early, Links, Knowing, Founds, Adds, A!Key, A!Owner
  <1>1. CASE A!Prove(v, "register", "unknown") \/ A!Prove(v, "login", "find")
    BY <1>1, Proved
  <1>2. CASE A!Checks(v, "unknown", A!Unregistered(A!Key(v)), "create")
    <2>1. A!Unregistered(A!Key(v)) \in BOOLEAN
      BY DEF A!Unregistered
    <2> QED
      BY <1>2, <2>1, Checked DEF A!Unregistered
  <1>3. CASE A!Checks(v, "wallet", A!Free(A!Key(v), A!Owner(v)), "prove")
    <2>1. A!Free(A!Key(v), A!Owner(v)) \in BOOLEAN
      BY DEF A!Free
    <2> QED
      BY <1>3, <2>1, Checked, Standing
  <1>4. CASE A!Prove(v, "prove", "insert")
    <2>1. visits[v].pc = "prove" => Knowing(v, "insert")
      BY Standing, KeyFacts
    <2> QED
      BY <1>4, <2>1, Proved
  <1>5. CASE A!Checks(v, "enclave", ~A!HasEnclave(A!Owner(v)), "claim")
    <2>1. (~A!HasEnclave(A!Owner(v))) \in BOOLEAN
      OBVIOUS
    <2> QED
      BY <1>5, <2>1, Checked, Standing
  <1>6. CASE A!Prove(v, "claim", "free")
    BY <1>6, Proved, Standing
  <1>7. CASE A!Checks(v, "free", A!Free(A!Key(v), A!Owner(v)), "insert")
    <2>1. A!Free(A!Key(v), A!Owner(v)) \in BOOLEAN
      BY DEF A!Free
    <2> QED
      BY <1>7, <2>1, Checked, Standing
  <1>8. CASE A!Checks(v, "attach", ~A!HasEnclave(A!Owner(v)), "own")
    <2>1. (~A!HasEnclave(A!Owner(v))) \in BOOLEAN
      OBVIOUS
    <2> QED
      BY <1>8, <2>1, Checked, Standing
  <1>9. CASE A!Prove(v, "own", "mine")
    BY <1>9, Proved, Standing
  <1>10. CASE A!Checks(v, "mine", ~A!Exists(A!Key(v)) /\ A!XOnlyOf(A!Key(v)) = {}, "attached")
    <2>1. (~A!Exists(A!Key(v)) /\ A!XOnlyOf(A!Key(v)) = {}) \in BOOLEAN
      OBVIOUS
    <2> QED
      BY <1>10, <2>1, Checked, Standing
  <1> QED
    BY <1>1, <1>2, <1>3, <1>4, <1>5, <1>6, <1>7, <1>8, <1>9, <1>10

-----------------------------------------------------------------------------
(* The writes.                                                              *)

LEMMA Created ==
    ASSUME IdInv, OneVisit, NEW v \in Visits, A!CreateAccount(v)
    PROVE  IdInv'
  <1> DEFINE k == visits[v].key
  <1>1. A!At(v, "create") /\ UNCHANGED <<wallets, answer>> /\ "create" \in Steps \ {"column"}
    BY DEF A!CreateAccount, Steps, Early, Links
  <1>2. k \in Keys /\ visits[v].pc = "create" /\ ~A!Exists(k) /\ (k \in Wallets => wallets[k] = A!None)
    BY <1>1, Standing, VisitorFacts DEF A!At, Founds
  <1>3. CASE UNCHANGED accounts /\ A!Leaves(v)
    BY <1>1, <1>3, WalksOut DEF TablesKept
  <1>4. CASE ~(UNCHANGED accounts /\ A!Leaves(v))
    <2> DEFINE col == IF k \in Enclaves THEN k ELSE A!None
    <2>1. /\ A!Goes(v, "first") /\ accounts' = [accounts EXCEPT ![k] = col]
          /\ (k \in Enclaves => A!XOnlyOf(k) = {})
      BY <1>4 DEF A!CreateAccount, A!Key
    <2>2. /\ visits' \in [Visits -> {A!Nobody} \cup Visitors] /\ \A w \in Visits : w = v
          /\ visits'[v].pc = "first" /\ visits'[v].key = k /\ visits'[v].aid = visits[v].aid
      BY <1>1, <2>1, GoesOn DEF IdInv, Steps, Early, Links
    <2>3. col \in {A!None} \cup Enclaves /\ col # A!Absent /\ (k \in Enclaves => col = k)
      BY KeyFacts DEF Keys, A!Keys
    <2> HIDE DEF k, col
    <2>4. /\ accounts' \in [Keys -> {A!Absent, A!None} \cup Enclaves] /\ accounts'[k] = col
          /\ \A x \in Keys : x # k => accounts'[x] = accounts[x]
      BY <1>2, <2>1, <2>3 DEF IdInv, IdTyped
    <2>5. \A x \in Keys : wallets[x] # A!None => wallets[x] \in Keys /\ wallets[x] # k
      BY <1>2 DEF IdInv, IdTyped, Owned
    <2>6. wallets[k] = A!None
      <3>1. CASE k \in Enclaves
        BY <1>2, <2>1, <2>2, <2>5, <3>1 DEF IdInv, Sealed, Half, A!XOnlyOf, Keys
      <3> QED
        BY <1>2, <3>1, KeyFacts
    <2>7. answer[k] = A!None
      BY <1>2, <2>6 DEF IdInv, Answered
    <2>8. A!HeldIn(k) = {}
      BY <2>5, <1>2, KeyFacts DEF A!HeldIn, Keys
    <2>9. IdTyped'
      BY <1>1, <2>2, <2>4 DEF IdInv, IdTyped
    <2>10. Owned'
      BY <1>1, <2>3, <2>4, <2>5 DEF IdInv, Owned, A!Exists
    <2>11. Sealed'
      <3> SUFFICES ASSUME NEW x \in Enclaves, wallets[x] # A!None PROVE accounts'[wallets[x]] = x
        BY <1>1 DEF Sealed
      <3>1. x \in Keys /\ ~\E w \in Visits : Half(w, x)
        BY <1>2, <2>2, KeyFacts DEF Half
      <3>2. accounts[wallets[x]] = x
        BY <3>1 DEF IdInv, Sealed
      <3> QED
        BY <2>4, <2>5, <3>1, <3>2
    <2>12. Answered'
      BY <1>1, <2>4, <2>7 DEF IdInv, Answered, A!Exists
    <2>13. Knows(v)'
      BY <1>1, <2>2, <2>3, <2>4, <2>6, <2>7, <2>8 DEF Knows, Founds, Adds, Links, A!Exists, A!HeldIn
    <2> QED
      BY <2>2, <2>9, <2>10, <2>11, <2>12, <2>13 DEF IdInv
  <1> QED
    BY <1>3, <1>4

\* A row of account_wallets for a key that has none.
LEMMA RowWritten ==
    ASSUME IdInv, OneVisit, NEW v \in Visits, NEW k \in Keys, NEW a \in Keys,
           k = visits[v].key, wallets[k] = A!None, k \in Enclaves => NoEnclaveIn(a),
           A!Exists(a), answer[k] # A!None => a = k, UNCHANGED <<accounts, answer>>,
           A!Inserted(k, a)
    PROVE  /\ wallets' \in [Keys -> Keys \cup {A!None}] /\ wallets'[k] = a
           /\ \A x \in Keys : x # k => wallets'[x] = wallets[x]
           /\ Owned' /\ Answered'
  <1>1. wallets' = [wallets EXCEPT ![k] = a]
    BY DEF A!Inserted, A!Insertable, NoEnclaveIn
  <1>2. /\ wallets' \in [Keys -> Keys \cup {A!None}] /\ wallets'[k] = a
        /\ \A x \in Keys : x # k => wallets'[x] = wallets[x]
    BY <1>1 DEF IdInv, IdTyped
  <1>3. Owned'
    BY <1>2 DEF IdInv, Owned, A!Exists
  <1>4. Answered'
    BY <1>2 DEF IdInv, Answered, A!Exists
  <1> QED
    BY <1>2, <1>3, <1>4

LEMMA FirstRow ==
    ASSUME IdInv, OneVisit, NEW v \in Visits, A!FirstWallet(v)
    PROVE  IdInv'
  <1> DEFINE k == visits[v].key
  <1>1. /\ A!At(v, "first") /\ A!Goes(v, "in") /\ UNCHANGED <<accounts, answer>>
        /\ A!Inserted(k, k) /\ "first" \in Steps \ {"column"} /\ "in" \in Steps
    BY DEF A!FirstWallet, A!Key, Steps, Early, Links
  <1>2. /\ k \in Keys /\ A!Exists(k) /\ wallets[k] = A!None /\ answer[k] = A!None /\ NoEnclaveIn(k)
        /\ (k \in Enclaves => accounts[k] = k)
    BY <1>1, Standing, VisitorFacts DEF A!At, Founds, NoEnclaveIn
  <1>3. /\ visits' \in [Visits -> {A!Nobody} \cup Visitors] /\ \A w \in Visits : w = v
        /\ visits[v].pc = "first" /\ visits'[v].pc = "in" /\ visits'[v].key = k
        /\ visits'[v].aid = visits[v].aid
    BY <1>1, GoesOn DEF IdInv
  <1>4. /\ wallets' \in [Keys -> Keys \cup {A!None}] /\ wallets'[k] = k
        /\ \A x \in Keys : x # k => wallets'[x] = wallets[x]
        /\ Owned' /\ Answered'
    BY <1>1, <1>2, RowWritten
  <1> HIDE DEF k
  <1>5. IdTyped'
    BY <1>1, <1>3, <1>4 DEF IdInv, IdTyped
  <1>6. Sealed'
    BY <1>1, <1>2, <1>3, <1>4, KeyFacts DEF IdInv, Sealed, Half
  <1>7. Knows(v)'
    BY <1>1, <1>2, <1>3, <1>4 DEF Knows, Founds, Adds, Links, A!Exists
  <1> QED
    BY <1>3, <1>4, <1>5, <1>6, <1>7 DEF IdInv

\* Signing in: the key signs in to the ID that holds it, or to the one named after it.
LEMMA SignsIn ==
    ASSUME IdInv, OneVisit, NEW v \in Visits, NEW from \in Steps \ {"column"}, NEW a \in Keys,
           A!At(v, from), A!OpenSession(v, a), UNCHANGED <<accounts, wallets>>,
           \/ wallets[visits[v].key] = a
           \/ wallets[visits[v].key] = A!None /\ a = visits[v].key /\ A!Exists(a)
    PROVE  IdInv'
  <1> DEFINE k == visits[v].key
  <1>1. A!Leaves(v) /\ answer' = [answer EXCEPT ![k] = a]
    BY DEF A!OpenSession, A!Key
  <1>2. /\ visits' \in [Visits -> {A!Nobody} \cup Visitors] /\ \A w \in Visits : w = v
        /\ visits[v].pc = from /\ k \in Keys /\ visits'[v] = A!Nobody /\ visits'[v].pc = "idle"
    BY <1>1, GoesOut DEF IdInv
  <1> HIDE DEF k
  <1>3. /\ answer' \in [Keys -> Keys \cup {A!None}] /\ answer'[k] = a
        /\ \A x \in Keys : x # k => answer'[x] = answer[x]
    BY <1>1, <1>2 DEF IdInv, IdTyped
  <1>4. IdTyped' /\ Owned'
    BY <1>2, <1>3 DEF IdInv, IdTyped, Owned, A!Exists
  <1>5. Answered'
    BY <1>2, <1>3 DEF IdInv, Answered, A!Exists, k
  <1>6. Sealed'
    BY <1>2 DEF IdInv, Sealed, Half
  <1> QED
    BY <1>2, <1>4, <1>5, <1>6 DEF IdInv, Knows

LEMMA SessionsOpen ==
    ASSUME IdInv, OneVisit, NEW v \in Visits, A!Registered(v) \/ A!SignedIn(v)
    PROVE  IdInv'
  <1>1. CASE A!Registered(v)
    <2>1. /\ A!At(v, "in") /\ A!OpenSession(v, visits[v].key) /\ UNCHANGED <<accounts, wallets>>
          /\ "in" \in Steps \ {"column"}
      BY <1>1 DEF A!Registered, A!Key, Steps, Early, Links
    <2>2. visits[v].key \in Keys /\ wallets[visits[v].key] = visits[v].key
      BY <2>1, Standing, VisitorFacts DEF A!At, Founds
    <2> QED
      BY <2>1, <2>2, SignsIn
  <1>2. CASE A!SignedIn(v)
    <2>1. /\ A!At(v, "find") /\ UNCHANGED <<accounts, wallets>> /\ "find" \in Steps \ {"column"}
      BY <1>2 DEF A!SignedIn, Steps, Early, Links
    <2>2. visits[v].key \in Keys /\ wallets[visits[v].key] \in Keys \cup {A!None}
      BY <2>1, Standing, VisitorFacts DEF A!At, IdInv, IdTyped
    <2>3. CASE wallets[visits[v].key] # A!None
      BY <1>2, <2>1, <2>2, <2>3, SignsIn DEF A!SignedIn, A!Key
    <2>4. CASE wallets[visits[v].key] = A!None /\ A!Exists(visits[v].key)
      BY <1>2, <2>1, <2>2, <2>4, SignsIn DEF A!SignedIn, A!Key
    <2>5. CASE wallets[visits[v].key] = A!None /\ ~A!Exists(visits[v].key)
      <3>1. A!Leaves(v) /\ TablesKept
        BY <1>2, <2>5 DEF A!SignedIn, A!Key, TablesKept
      <3> QED
        BY <2>1, <3>1, WalksOut
    <2> QED
      BY <2>3, <2>4, <2>5
  <1> QED
    BY <1>1, <1>2

\* A further key of an ID; an enclave has its column still to be written.
LEMMA WalletAdded ==
    ASSUME IdInv, OneVisit, NEW v \in Visits, A!InsertWallet(v)
    PROVE  IdInv'
  <1> DEFINE k == visits[v].key
             a == visits[v].aid
  <1>1. /\ A!At(v, "insert") /\ UNCHANGED <<accounts, answer>> /\ A!Inserted(k, a)
        /\ {"insert", "column"} \subseteq Steps /\ "insert" # "column"
    BY DEF A!InsertWallet, A!Key, A!Owner, Steps, Early, Links
  <1>2. /\ k \in Keys /\ a \in Keys /\ A!Exists(a) /\ A!Free(k, a)
        /\ (k \in Enclaves => ~A!HasEnclave(a))
    BY <1>1, Standing, VisitorFacts DEF A!At, Adds
  <1>3. (k \in Enclaves => NoEnclaveIn(a)) /\ wallets[k] = A!None
    BY <1>2 DEF A!HasEnclave, NoEnclaveIn, A!Free
  <1>4. answer[k] # A!None => a = k
    BY <1>2, <1>3 DEF A!Free, IdInv, Answered
  <1>5. /\ wallets' \in [Keys -> Keys \cup {A!None}] /\ wallets'[k] = a
        /\ \A x \in Keys : x # k => wallets'[x] = wallets[x]
        /\ Owned' /\ Answered'
    BY <1>1, <1>2, <1>3, <1>4, RowWritten
  <1>6. CASE k \in Enclaves
    <2>1. A!Goes(v, "column")
      BY <1>3, <1>6 DEF A!InsertWallet, A!Insertable, NoEnclaveIn, A!Key, A!Owner
    <2>2. /\ visits' \in [Visits -> {A!Nobody} \cup Visitors] /\ \A w \in Visits : w = v
          /\ visits[v].pc = "insert" /\ visits'[v].pc = "column" /\ visits'[v].key = k /\ visits'[v].aid = a
      BY <1>1, <2>1, GoesOn DEF IdInv
    <2>3. accounts[a] = A!None
      BY <1>2, <1>6 DEF A!HasEnclave, A!Exists, IdInv, IdTyped
    <2>4. A!XOnlyOf(k) = {}
      BY <1>2, <1>6, <2>3, KeyFacts DEF A!Free, A!XOnlyOf
    <2> HIDE DEF k, a
    <2>5. IdTyped'
      BY <1>1, <1>5, <2>2 DEF IdInv, IdTyped
    <2>6. Sealed'
      BY <1>1, <1>5, <2>2, KeyFacts DEF IdInv, Sealed, Half
    <2>7. Knows(v)'
      BY <1>1, <1>2, <1>5, <1>6, <2>2, <2>3, <2>4 DEF Knows, Founds, Adds, Links, A!Exists, A!XOnlyOf
    <2> QED
      BY <1>5, <2>2, <2>5, <2>6, <2>7 DEF IdInv
  <1>7. CASE k \notin Enclaves
    <2>1. A!Leaves(v)
      BY <1>7 DEF A!InsertWallet, A!Key
    <2>2. /\ visits' \in [Visits -> {A!Nobody} \cup Visitors] /\ \A w \in Visits : w = v
          /\ visits[v].pc = "insert" /\ visits'[v] = A!Nobody /\ visits'[v].pc = "idle"
      BY <1>1, <2>1, GoesOut DEF IdInv
    <2> HIDE DEF k, a
    <2>3. IdTyped'
      BY <1>1, <1>5, <2>2 DEF IdInv, IdTyped
    <2>4. Sealed'
      BY <1>1, <1>5, <1>7, <2>2, KeyFacts DEF IdInv, Sealed, Half
    <2> QED
      BY <1>5, <2>2, <2>3, <2>4 DEF IdInv, Knows
  <1> QED
    BY <1>6, <1>7

\* The column of an ID that has none, for an enclave no ID has.
LEMMA ColumnWritten ==
    ASSUME IdInv, OneVisit, NEW k \in Enclaves, NEW a \in Keys,
           accounts[a] = A!None, A!XOnlyOf(k) = {}, A!Attached(k, a)
    PROVE  /\ accounts' \in [Keys -> {A!Absent, A!None} \cup Enclaves] /\ accounts'[a] = k
           /\ \A x \in Keys : x # a => accounts'[x] = accounts[x]
           /\ \A x \in Keys : A!Exists(x) => accounts'[x] # A!Absent
  <1>1. accounts' = [accounts EXCEPT ![a] = k] /\ k # A!Absent
    BY KeyFacts DEF A!Attached
  <1>2. /\ accounts' \in [Keys -> {A!Absent, A!None} \cup Enclaves] /\ accounts'[a] = k
        /\ \A x \in Keys : x # a => accounts'[x] = accounts[x]
    BY <1>1 DEF IdInv, IdTyped
  <1> QED
    BY <1>1, <1>2 DEF A!Exists

LEMMA ColumnLinked ==
    ASSUME IdInv, OneVisit, NEW v \in Visits, A!LinkColumn(v)
    PROVE  IdInv'
  <1> DEFINE k == visits[v].key
             a == visits[v].aid
  <1>1. /\ A!At(v, "column") /\ UNCHANGED <<wallets, answer>> /\ A!Attached(k, a) /\ A!Leaves(v)
        /\ "column" \in Steps
    BY DEF A!LinkColumn, A!Key, A!Owner, Steps, Links
  <1>2. /\ k \in Keys /\ a \in Keys /\ k \in Enclaves
        /\ wallets[k] = a /\ accounts[a] = A!None /\ A!XOnlyOf(k) = {}
    BY <1>1, Standing, VisitorFacts DEF A!At, Adds, Links
  <1>3. /\ visits' \in [Visits -> {A!Nobody} \cup Visitors] /\ \A w \in Visits : w = v
        /\ visits'[v] = A!Nobody /\ visits'[v].pc = "idle" /\ \A x \in Keys : x # k => ~Half(v, x)
    BY <1>1, GoesOut DEF IdInv, Half
  <1>4. /\ accounts' \in [Keys -> {A!Absent, A!None} \cup Enclaves] /\ accounts'[a] = k
        /\ \A x \in Keys : x # a => accounts'[x] = accounts[x]
        /\ \A x \in Keys : A!Exists(x) => accounts'[x] # A!Absent
    BY <1>1, <1>2, ColumnWritten
  <1> HIDE DEF k, a
  <1>5. IdTyped' /\ Owned' /\ Answered'
    BY <1>1, <1>3, <1>4 DEF IdInv, IdTyped, Owned, Answered, A!Exists
  <1>6. Sealed'
    <2> SUFFICES ASSUME NEW x \in Enclaves, wallets[x] # A!None PROVE accounts'[wallets[x]] = x
      BY <1>1 DEF Sealed
    <2>1. CASE x = k
      BY <1>2, <1>4, <2>1
    <2>2. CASE x # k
      <3>1. x \in Keys /\ accounts[wallets[x]] = x /\ wallets[x] \in Keys
        BY <1>3, <2>2, KeyFacts DEF IdInv, IdTyped, Sealed
      <3> QED
        BY <1>2, <1>4, <3>1, KeyFacts
    <2> QED
      BY <2>1, <2>2
  <1> QED
    BY <1>3, <1>5, <1>6 DEF IdInv, Knows

LEMMA ColumnAttached ==
    ASSUME IdInv, OneVisit, NEW v \in Visits, A!AttachColumn(v)
    PROVE  IdInv'
  <1> DEFINE k == visits[v].key
             a == visits[v].aid
  <1>1. /\ A!At(v, "attached") /\ UNCHANGED <<wallets, answer>> /\ A!Attached(k, a)
        /\ {"attached", "row"} \subseteq Steps
    BY DEF A!AttachColumn, A!Key, A!Owner, Steps, Links
  <1>2. /\ k \in Keys /\ a \in Keys /\ k \in Enclaves /\ A!Exists(a)
        /\ ~A!HasEnclave(a) /\ ~A!Exists(k) /\ A!XOnlyOf(k) = {}
    BY <1>1, Standing, VisitorFacts DEF A!At, Adds, Links
  <1>3. accounts[a] = A!None /\ NoEnclaveIn(a) /\ k # a
    BY <1>2 DEF A!HasEnclave, A!Exists, NoEnclaveIn, IdInv, IdTyped
  <1>4. A!Goes(v, "row")
    BY <1>2 DEF A!AttachColumn, A!Key, A!Owner
  <1>5. /\ visits' \in [Visits -> {A!Nobody} \cup Visitors] /\ \A w \in Visits : w = v
        /\ visits[v].pc = "attached" /\ visits'[v].pc = "row" /\ visits'[v].key = k /\ visits'[v].aid = a
    BY <1>1, <1>4, GoesOn DEF IdInv
  <1>6. /\ accounts' \in [Keys -> {A!Absent, A!None} \cup Enclaves] /\ accounts'[a] = k
        /\ \A x \in Keys : x # a => accounts'[x] = accounts[x]
        /\ \A x \in Keys : A!Exists(x) => accounts'[x] # A!Absent
    BY <1>1, <1>2, <1>3, ColumnWritten
  <1> HIDE DEF k, a
  <1>7. \A x \in Enclaves : wallets[x] # A!None => /\ accounts[wallets[x]] = x /\ x \in Keys
                                                   /\ wallets[x] \in Keys
    BY <1>5, KeyFacts DEF IdInv, IdTyped, Sealed, Half
  <1>8. wallets[k] = A!None
    BY <1>2, <1>7 DEF A!XOnlyOf, Keys
  <1>9. IdTyped' /\ Owned' /\ Answered'
    BY <1>1, <1>5, <1>6 DEF IdInv, IdTyped, Owned, Answered, A!Exists
  <1>10. Sealed'
    BY <1>1, <1>3, <1>6, <1>7, KeyFacts DEF Sealed
  <1>11. Knows(v)'
    BY <1>1, <1>2, <1>3, <1>5, <1>6, <1>8
       DEF Knows, Founds, Adds, Links, A!Exists, NoEnclaveIn, A!HeldIn
  <1> QED
    BY <1>5, <1>9, <1>10, <1>11 DEF IdInv

LEMMA RowAttached ==
    ASSUME IdInv, OneVisit, NEW v \in Visits, A!AttachRow(v)
    PROVE  IdInv'
  <1> DEFINE k == visits[v].key
             a == visits[v].aid
  <1>1. /\ A!At(v, "row") /\ UNCHANGED <<accounts, answer>> /\ A!Inserted(k, a) /\ A!Leaves(v)
        /\ "row" \in Steps
    BY DEF A!AttachRow, A!Key, A!Owner, Steps, Links
  <1>2. /\ k \in Keys /\ a \in Keys /\ k \in Enclaves /\ A!Exists(a)
        /\ accounts[a] = k /\ ~A!Exists(k) /\ wallets[k] = A!None /\ NoEnclaveIn(a)
    BY <1>1, Standing, VisitorFacts DEF A!At, Adds, Links
  <1>3. /\ visits' \in [Visits -> {A!Nobody} \cup Visitors] /\ \A w \in Visits : w = v
        /\ visits[v].pc = "row" /\ visits'[v] = A!Nobody /\ visits'[v].pc = "idle"
    BY <1>1, GoesOut DEF IdInv
  <1>4. answer[k] # A!None => a = k
    BY <1>2 DEF IdInv, Answered
  <1>5. /\ wallets' \in [Keys -> Keys \cup {A!None}] /\ wallets'[k] = a
        /\ \A x \in Keys : x # k => wallets'[x] = wallets[x]
        /\ Owned' /\ Answered'
    BY <1>1, <1>2, <1>4, RowWritten
  <1> HIDE DEF k, a
  <1>6. IdTyped'
    BY <1>1, <1>3, <1>5 DEF IdInv, IdTyped
  <1>7. Sealed'
    BY <1>1, <1>2, <1>3, <1>5, KeyFacts DEF IdInv, Sealed, Half
  <1> QED
    BY <1>3, <1>5, <1>6, <1>7 DEF IdInv, Knows

LEMMA RowDeleted ==
    ASSUME IdInv, OneVisit, NEW v \in Visits, A!Delete(v)
    PROVE  IdInv'
  <1> DEFINE k == visits[v].key
  <1>1. /\ A!At(v, "unlink") /\ A!Leaves(v) /\ UNCHANGED accounts /\ "unlink" \in Steps \ {"column"}
    BY DEF A!Delete, Steps, Early, Links
  <1>2. CASE UNCHANGED <<wallets, answer>>
    BY <1>1, <1>2, WalksOut DEF TablesKept
  <1>3. CASE /\ wallets' = [wallets EXCEPT ![k] = A!None] /\ answer' = [answer EXCEPT ![k] = A!None]
    <2>1. /\ visits' \in [Visits -> {A!Nobody} \cup Visitors] /\ \A w \in Visits : w = v
          /\ visits[v].pc = "unlink" /\ visits'[v] = A!Nobody /\ visits'[v].pc = "idle" /\ k \in Keys
      BY <1>1, GoesOut DEF IdInv
    <2> HIDE DEF k
    <2>2. /\ wallets' \in [Keys -> Keys \cup {A!None}] /\ wallets'[k] = A!None
          /\ answer' \in [Keys -> Keys \cup {A!None}] /\ answer'[k] = A!None
          /\ \A x \in Keys : x # k => wallets'[x] = wallets[x] /\ answer'[x] = answer[x]
      BY <1>3, <2>1 DEF IdInv, IdTyped
    <2>3. IdTyped' /\ Owned' /\ Answered'
      BY <1>1, <2>1, <2>2 DEF IdInv, IdTyped, Owned, Answered, A!Exists
    <2>4. Sealed'
      BY <1>1, <2>1, <2>2, KeyFacts DEF IdInv, Sealed, Half
    <2> QED
      BY <2>1, <2>3, <2>4 DEF IdInv, Knows
  <1> QED
    BY <1>2, <1>3 DEF A!Delete, A!Key

\* A stop ends the request; none is between a row and its column.
LEMMA Stopped ==
    ASSUME IdInv, OneVisit, A!Crash
    PROVE  IdInv'
  <1>1. /\ visits' = [v \in Visits |-> A!Nobody] /\ UNCHANGED <<accounts, wallets, answer>>
        /\ \A v \in Visits : visits[v].pc # "column"
    BY DEF A!Crash, OneVisit
  <1>2. IdTyped' /\ Owned' /\ Answered'
    BY <1>1 DEF IdInv, IdTyped, Owned, Answered, A!Exists
  <1>3. Sealed'
    BY <1>1 DEF IdInv, Sealed, Half
  <1> QED
    BY <1>1, <1>2, <1>3 DEF IdInv, Knows

LEMMA IdStutters == IdInv /\ UNCHANGED <<accounts, wallets, visits, answer>> => IdInv'
  BY DEF IdInv, IdTyped, Owned, Sealed, Answered, Knows, Founds, Adds, Half, NoEnclaveIn,
         A!Exists, A!HeldIn, A!XOnlyOf, A!Free, A!HasEnclave

LEMMA IdStarts == Init => IdInv
  <1> SUFFICES ASSUME Init PROVE IdInv
    OBVIOUS
  <1>1. /\ accounts = [k \in Keys |-> A!Absent] /\ wallets = [k \in Keys |-> A!None]
        /\ answer = [k \in Keys |-> A!None] /\ visits = [v \in Visits |-> A!Nobody]
    BY DEF Init, A!Init, Keys
  <1>2. \A k \in Enclaves : k \in Keys
    BY KeyFacts
  <1> QED
    BY <1>1, <1>2 DEF IdInv, IdTyped, Owned, Sealed, Answered, Knows

LEMMA IdSteps ==
    ASSUME IdInv, OneVisit, [Next]_vars
    PROVE  IdInv'
  <1>1. CASE UNCHANGED <<accounts, wallets, visits, answer>>
    BY <1>1, IdStutters
  <1>2. CASE A!Next
    <2>1. ASSUME NEW k \in Keys, A!Challenge(k) PROVE IdInv'
      BY <2>1, IdStutters DEF A!Challenge
    <2>2. ASSUME NEW v \in Visits, A!Visit(v) PROVE IdInv'
      BY <2>2, Come, Checkpoints, Created, FirstRow, SessionsOpen, WalletAdded, ColumnLinked,
         ColumnAttached, RowAttached, RowDeleted DEF A!Visit, Keys
    <2> QED
      BY <1>2, <2>1, <2>2, Stopped DEF A!Next, Keys
  <1> QED
    BY <1>1, <1>2 DEF Next, vars, identity

\* No step signs a key in to another ID than before.
LEMMA OneAnswerSteps ==
    ASSUME IdInv, [Next]_vars
    PROVE  \A k \in Keys : answer[k] # A!None /\ answer'[k] # A!None => answer'[k] = answer[k]
  <1>1. CASE UNCHANGED answer
    BY <1>1
  <1>2. ASSUME NEW v \in Visits, A!Registered(v)
        PROVE  \A k \in Keys : answer[k] # A!None => answer'[k] = answer[k]
    <2>1. A!At(v, "in") /\ answer' = [answer EXCEPT ![visits[v].key] = visits[v].key] /\ "in" \in Steps
      BY <1>2 DEF A!Registered, A!OpenSession, A!Key, Steps
    <2>2. answer[visits[v].key] = A!None
      BY <2>1, Standing DEF A!At, Founds
    <2> QED
      BY <2>1, <2>2 DEF IdInv, IdTyped
  <1>3. ASSUME NEW v \in Visits, A!SignedIn(v)
        PROVE  \A k \in Keys : answer[k] # A!None => answer'[k] = answer[k]
    <2> DEFINE key == visits[v].key
    <2>1. A!At(v, "find") /\ "find" \in Steps
      BY <1>3 DEF A!SignedIn, Steps, Early
    <2>2. key \in Keys
      BY <2>1, Standing, VisitorFacts DEF A!At
    <2>3. \/ UNCHANGED answer
          \/ wallets[key] # A!None /\ answer' = [answer EXCEPT ![key] = wallets[key]]
          \/ wallets[key] = A!None /\ answer' = [answer EXCEPT ![key] = key]
      BY <1>3 DEF A!SignedIn, A!OpenSession, A!Key
    <2>4. answer[key] # A!None =>
            \/ wallets[key] # A!None /\ wallets[key] = answer[key]
            \/ wallets[key] = A!None /\ answer[key] = key
      BY <2>2 DEF IdInv, Answered
    <2> HIDE DEF key
    <2> QED
      BY <2>2, <2>3, <2>4 DEF IdInv, IdTyped
  <1>4. ASSUME NEW v \in Visits, A!Delete(v)
        PROVE  \A k \in Keys : answer[k] # A!None /\ answer'[k] # A!None => answer'[k] = answer[k]
    <2>1. UNCHANGED answer \/ answer' = [answer EXCEPT ![visits[v].key] = A!None]
      BY <1>4 DEF A!Delete, A!Key
    <2> QED
      BY <2>1 DEF IdInv, IdTyped
  <1>5. \/ UNCHANGED answer
        \/ \E v \in Visits : A!Registered(v) \/ A!SignedIn(v) \/ A!Delete(v)
    BY DEF Next, vars, identity, A!Next, A!Challenge, A!Visit, A!Crash, A!Register, A!Login, A!Unlink,
           A!Link, A!Attach, A!Comes, A!Prove, A!Checks, A!CreateAccount, A!FirstWallet, A!InsertWallet,
           A!LinkColumn, A!AttachColumn, A!AttachRow
  <1> QED
    BY <1>1, <1>2, <1>3, <1>4, <1>5

\* A key that signed in to an ID signs in to no other unless it was unlinked in between, whatever is
\* founded, linked, attached and unlinked one request after another (auth.go, wallets.go).
THEOREM AKeyHasOneIdentity == OneVisit => (Spec => OneAnswer)
<1>1. Init => IdInv
  BY IdStarts
<1>2. ASSUME OneVisit PROVE IdInv /\ [Next]_vars => IdInv'
  BY <1>2, IdSteps
<1>3. IdInv /\ [Next]_vars =>
        [\A k \in A!Keys : answer[k] # A!None /\ answer'[k] # A!None
                           => answer'[k] = answer[k]]_<<A!avars, budget>>
  BY OneAnswerSteps DEF Keys
<1>4. OneVisit => (Spec => OneAnswer)
  <2> SUFFICES ASSUME OneVisit PROVE Spec => OneAnswer
    OBVIOUS
  <2>1. IdInv /\ [Next]_vars => IdInv'
    BY <1>2
  <2> QED
    BY <1>1, <2>1, <1>3, PTL DEF Spec, OneAnswer, A!OneAnswer
<1> QED
  BY <1>4

-----------------------------------------------------------------------------
(* The market: its types.                                                   *)

ClickSteps == {"intend", "call", "moved", "unsure", "refused", "book", "found", "failing"}
DrSteps    == {"reissue", "minted", "failing", "build", "look", "burn", "burned", "unsure"}
Clickers   == [pc : ClickSteps, row : Transfers, txid : Nat]
Pollers    == [pc : {"line", "capture", "book"}, at : Nat \ {0}, upto : Nat]
DrHolders  == [pc : DrSteps, req : M!Requests, txid : Nat]
Moves      == [action : {"transfer", "burn"}, of : Transfers \cup M!Requests \cup {"wallet"}]
BrowserRows == [state : {"none"} \cup M!Browser, txid : Nat]
DrOps      == [state : {"none", "pending", "burning", "broadcast", "failed"}, txid : Nat]
Counts     == [{"click", "overlap", "wallet", "mint", "redeem", "unread", "lost", "crash", "quote", "deposit",
                "visit", "challenge", "reissue", "move", "index", "dividend", "vote", "claim", "refuse"} -> Nat]

ClicksTyped == clicks \in [Clicks -> {M!Nobody} \cup Clickers]
RowsTyped   == transfers \in [Transfers -> BrowserRows] /\ captured \subseteq Nat /\ booked \in Seq(Nat)
LogTyped    == log \in Seq(Moves)
PollTyped   == cursor \in Nat /\ poll \in {M!Nobody} \cup Pollers
DrTyped     == drops \in [M!Requests -> DrOps] /\ dr \in {M!Nobody} \cup DrHolders
MarketTyped == ClicksTyped /\ RowsTyped /\ LogTyped /\ PollTyped /\ DrTyped /\ budget \in Counts

LEMMA MarketFacts ==
    /\ \A w \in Clickers : w # M!Nobody /\ w.pc # "idle" /\ w.pc \in ClickSteps /\ w.row \in Transfers /\ w.txid \in Nat
    /\ \A w \in Pollers : w # M!Nobody /\ w.pc # "idle" /\ w.at \in Nat \ {0} /\ w.upto \in Nat
    /\ \A w \in DrHolders : w # M!Nobody /\ w.pc # "idle" /\ w.pc \in DrSteps /\ w.req \in M!Requests /\ w.txid \in Nat
    /\ M!Nobody.pc = "idle" /\ M!Requests = Mints \cup Redemptions /\ Mints \cap Redemptions = {} /\ M!None = 0
  BY PlatformAssumption DEF Clickers, Pollers, DrHolders, ClickSteps, DrSteps, M!Nobody, M!Requests, M!None

LEMMA HighestIn ==
    ASSUME NEW n \in Nat, NEW P \in SUBSET (1..n), P # {}
    PROVE  \E i \in P : \A j \in P : j <= i
<1> DEFINE D == {n - i : i \in P}
           less == {ss \in Nat \X Nat : ss[1] < ss[2]}
<1>1. D \in SUBSET Nat /\ D # {}
  <2>1. \A i \in P : i \in Nat /\ i <= n
    OBVIOUS
  <2>2. \A i \in P : n - i \in Nat
    BY <2>1
  <2> QED
    BY <2>2
<1>2. IsWellFoundedOn(less, Nat)
  BY NatLessThanWellFounded, Zenon DEF OpToRel
<1>3. PICK d \in D : \A e \in D : ~(<<e, d>> \in less)
  BY <1>1, <1>2, WFMin, Zenon
<1>4. PICK i \in P : d = n - i
  OBVIOUS
<1>5. \A j \in P : j <= i
  <2> TAKE j \in P
  <2>1. ~(n - j < d)
    BY <1>1, <1>3
  <2> QED
    BY <1>4, <2>1
<1> QED
  BY <1>5

\* logFindMoved answers with a line of the action, or the log has none.
LEMMA InLogFinds ==
    ASSUME LogTyped, NEW act
    PROVE  \/ M!InLog(act) \in DOMAIN log /\ log[M!InLog(act)].action = act
           \/ M!InLog(act) = 0 /\ \A i \in DOMAIN log : log[i].action # act
<1> DEFINE T == {i \in DOMAIN log : log[i].action = act}
<1>1. CASE T = {}
  BY <1>1 DEF M!InLog, M!None
<1>2. CASE T # {}
  <2>1. T \in SUBSET (1..Len(log)) /\ Len(log) \in Nat
    BY DEF LogTyped
  <2>2. \E i \in T : \A j \in T : j <= i
    BY <1>2, <2>1, HighestIn
  <2>3. M!InLog(act) = CHOOSE i \in T : \A j \in T : j <= i
    BY <1>2 DEF M!InLog
  <2> HIDE DEF T
  <2>4. M!InLog(act) \in T
    BY <2>2, <2>3
  <2>5. \A i \in T : i \in DOMAIN log /\ log[i].action = act
    BY DEF T
  <2> QED
    BY <2>4, <2>5
<1> QED
  BY <1>1, <1>2

LEMMA Paid ==
    ASSUME budget \in Counts, NEW k \in {"click", "overlap", "wallet", "mint", "redeem", "unread", "lost", "crash"}
    PROVE  /\ M!Spent(k) => /\ budget' \in Counts /\ budget[k] > 0 /\ budget'[k] = budget[k] - 1
                            /\ \A j \in {"overlap", "redeem", "unread", "crash"} : j # k => budget'[j] = budget[j]
           /\ \A j \in {"overlap", "redeem", "unread", "crash"} : budget[j] \in Nat
  BY DEF Counts, M!Spent

LEMMA Read ==
    ASSUME budget \in Counts, NEW act, NEW found, M!Scanned(act, found)
    PROVE  /\ budget' \in Counts
           /\ \/ found = M!InLog(act) /\ UNCHANGED budget
              \/ /\ found = 0 /\ budget["unread"] > 0 /\ budget'["unread"] = budget["unread"] - 1
                 /\ \A j \in {"overlap", "redeem", "crash"} : budget'[j] = budget[j]
  BY Paid DEF M!Scanned, M!None

\* A request takes its next step with the row it read.
Turned(c, pc, n) == clicks' = [clicks EXCEPT ![c] = [pc |-> pc, row |-> clicks[c].row, txid |-> n]]

LEMMA ClickStands ==
    ASSUME ClicksTyped, NEW c \in Clicks, NEW from \in ClickSteps, M!At(c, from)
    PROVE  clicks[c] \in Clickers /\ clicks[c].pc = from /\ clicks[c].row \in Transfers /\ clicks[c].txid \in Nat
  BY MarketFacts DEF ClicksTyped, M!At, M!Nobody, ClickSteps

LEMMA GoesTurns ==
    ASSUME ClicksTyped, NEW c \in Clicks, NEW from \in ClickSteps, M!At(c, from), NEW pc \in ClickSteps, M!Goes(c, pc)
    PROVE  Turned(c, pc, clicks[c].txid)
<1>1. clicks[c] \in Clickers
  BY ClickStands
<1>2. [clicks[c] EXCEPT !.pc = pc] = [pc |-> pc, row |-> clicks[c].row, txid |-> clicks[c].txid]
  BY <1>1 DEF Clickers
<1>3. clicks' = [clicks EXCEPT ![c] = [clicks[c] EXCEPT !.pc = pc]]
  BY DEF M!Goes
<1> QED
  BY <1>2, <1>3 DEF Turned

LEMMA TurnedTo ==
    ASSUME ClicksTyped, NEW c \in Clicks, clicks[c] \in Clickers, NEW pc \in ClickSteps, NEW n \in Nat,
           Turned(c, pc, n)
    PROVE  /\ ClicksTyped' /\ clicks'[c] \in Clickers /\ clicks'[c].pc = pc /\ clicks'[c].row = clicks[c].row
           /\ clicks'[c].txid = n /\ \A d \in Clicks : d # c => clicks'[d] = clicks[d]
<1> DEFINE w == [pc |-> pc, row |-> clicks[c].row, txid |-> n]
<1>1. w \in Clickers /\ w.pc = pc /\ w.row = clicks[c].row /\ w.txid = n
  BY DEF Clickers
<1>2. clicks' = [clicks EXCEPT ![c] = w]
  BY DEF Turned
<1> HIDE DEF w
<1> QED
  BY <1>1, <1>2 DEF ClicksTyped

LEMMA LeftTo ==
    ASSUME ClicksTyped, NEW c \in Clicks, M!Leaves(c)
    PROVE  ClicksTyped' /\ clicks'[c] = M!Nobody /\ \A d \in Clicks : d # c => clicks'[d] = clicks[d]
  BY DEF ClicksTyped, M!Leaves

\* A line is added to the log.
LEMMA LineAdded ==
    ASSUME LogTyped, NEW act \in {"transfer", "burn"}, NEW of \in Transfers \cup M!Requests \cup {"wallet"},
           log' = M!Moved(act, of)
    PROVE  /\ LogTyped' /\ Len(log) \in Nat /\ DOMAIN log = 1..Len(log)
           /\ Len(log') = Len(log) + 1 /\ DOMAIN log' = 1..(Len(log) + 1)
           /\ log'[Len(log) + 1].action = act /\ log'[Len(log) + 1].of = of
           /\ \A i \in DOMAIN log : log'[i] = log[i]
<1> DEFINE e == [action |-> act, of |-> of]
<1>1. e \in Moves /\ e.action = act /\ e.of = of
  BY DEF Moves
<1>2. log' = Append(log, e)
  BY DEF M!Moved
<1> HIDE DEF e
<1> QED
  BY <1>1, <1>2 DEF LogTyped

\* The row of a request is written.
LEMMA RowStamped ==
    ASSUME RowsTyped, NEW c \in Clicks, clicks[c].row \in Transfers, NEW st \in M!Browser, M!Write(c, st)
    PROVE  LET t == clicks[c].row
           IN  /\ transfers' \in [Transfers -> BrowserRows]
               /\ transfers'[t].state = st /\ transfers'[t].txid = transfers[t].txid
               /\ \A o \in Transfers : o # t => transfers'[o] = transfers[o]
<1> DEFINE t == clicks[c].row
           e == [transfers[t] EXCEPT !.state = st]
<1>1. e \in BrowserRows /\ e.state = st /\ e.txid = transfers[t].txid
  BY DEF RowsTyped, BrowserRows
<1>2. transfers' = [transfers EXCEPT ![t] = e]
  BY DEF M!Write
<1> HIDE DEF e
<1> QED
  BY <1>1, <1>2 DEF RowsTyped

LEMMA RowSettled ==
    ASSUME RowsTyped, NEW c \in Clicks, clicks[c].row \in Transfers, NEW n \in Nat, M!Settled(c, n)
    PROVE  LET t == clicks[c].row
           IN  /\ transfers' \in [Transfers -> BrowserRows]
               /\ M!ClaimedByOther(n, t) => UNCHANGED transfers
               /\ ~M!ClaimedByOther(n, t) =>
                    /\ transfers'[t].state = "settled" /\ transfers'[t].txid = n
                    /\ \A o \in Transfers : o # t => transfers'[o] = transfers[o]
<1> DEFINE t == clicks[c].row
           e == [state |-> "settled", txid |-> n]
<1>1. e \in BrowserRows /\ e.state = "settled" /\ e.txid = n
  BY DEF BrowserRows, M!Browser
<1>2. \/ M!ClaimedByOther(n, t) /\ UNCHANGED transfers
      \/ ~M!ClaimedByOther(n, t) /\ transfers' = [transfers EXCEPT ![t] = e]
  BY DEF M!Settled
<1> HIDE DEF e
<1> QED
  BY <1>1, <1>2 DEF RowsTyped

-----------------------------------------------------------------------------
(* The market: what a request to complete a transfer does at each step.     *)

Others == UNCHANGED <<cursor, poll, drops, dr>>

LEMMA OthersTyped == PollTyped /\ DrTyped /\ Others => PollTyped' /\ DrTyped'
  BY DEF PollTyped, DrTyped, Others

LEMMA ReadDoes ==
    ASSUME MarketTyped, NEW c \in Clicks, NEW t \in Transfers, M!Read(c, t)
    PROVE  /\ MarketTyped' /\ UNCHANGED <<transfers, captured, log, booked>> /\ Others
           /\ clicks'[c] \in Clickers /\ clicks'[c].pc = "intend" /\ clicks'[c].row = t
           /\ transfers[t].state \notin {"none", "settled"}
           /\ budget["overlap"] = 0 => \A o \in Clicks : clicks[o].pc = "idle"
           /\ \A d \in Clicks : d # c => clicks'[d] = clicks[d]
<1> DEFINE w == [pc |-> "intend", row |-> t, txid |-> M!None]
<1>1. w \in Clickers /\ w.pc = "intend" /\ w.row = t
  BY MarketFacts DEF Clickers, ClickSteps
<1>2. clicks' = [clicks EXCEPT ![c] = w] /\ UNCHANGED <<transfers, captured, log, booked>> /\ Others
  BY DEF M!Read, M!rows, M!world, Others
<1>3. budget' \in Counts
  BY Paid DEF MarketTyped, M!Read
<1>4. /\ budget["overlap"] = 0 => \A o \in Clicks : clicks[o].pc = "idle"
      /\ transfers[t].state \notin {"none", "settled"}
  BY DEF M!Read, M!At, M!Browser
<1> HIDE DEF w
<1>5. ClicksTyped' /\ clicks'[c] = w /\ \A d \in Clicks : d # c => clicks'[d] = clicks[d]
  BY <1>1, <1>2 DEF MarketTyped, ClicksTyped
<1>6. RowsTyped' /\ LogTyped'
  BY <1>2 DEF MarketTyped, RowsTyped, LogTyped
<1> QED
  BY <1>1, <1>2, <1>3, <1>4, <1>5, <1>6, OthersTyped DEF MarketTyped

\* A request at a step that calls nobody: its row, the transfers and the ledger.
LEMMA IntendDoes ==
    ASSUME MarketTyped, NEW c \in Clicks, M!Intend(c)
    PROVE  /\ MarketTyped' /\ UNCHANGED <<captured, log, booked, budget>> /\ Others
           /\ clicks[c] \in Clickers /\ clicks[c].pc = "intend" /\ clicks'[c] \in Clickers
           /\ clicks'[c].pc = "call" /\ clicks'[c].row = clicks[c].row
           /\ \A d \in Clicks : d # c => clicks'[d] = clicks[d]
           /\ transfers'[clicks[c].row].state = "completing"
           /\ transfers'[clicks[c].row].txid = transfers[clicks[c].row].txid
           /\ \A o \in Transfers : o # clicks[c].row => transfers'[o] = transfers[o]
<1>1. /\ M!At(c, "intend") /\ M!Write(c, "completing") /\ M!Goes(c, "call")
      /\ UNCHANGED <<captured, log, booked, budget>> /\ Others
      /\ {"intend", "call"} \subseteq ClickSteps /\ "completing" \in M!Browser
  BY DEF M!Intend, M!StoresKept, M!world, Others, ClickSteps, M!Browser
<1>2. clicks[c] \in Clickers /\ clicks[c].pc = "intend" /\ clicks[c].row \in Transfers /\ clicks[c].txid \in Nat
  BY <1>1, ClickStands DEF MarketTyped
<1>3. Turned(c, "call", clicks[c].txid)
  BY <1>1, GoesTurns DEF MarketTyped
<1>4. /\ ClicksTyped' /\ clicks'[c] \in Clickers /\ clicks'[c].pc = "call" /\ clicks'[c].row = clicks[c].row
      /\ \A d \in Clicks : d # c => clicks'[d] = clicks[d]
  BY <1>1, <1>2, <1>3, TurnedTo DEF MarketTyped
<1>5. /\ transfers' \in [Transfers -> BrowserRows]
      /\ transfers'[clicks[c].row].state = "completing"
      /\ transfers'[clicks[c].row].txid = transfers[clicks[c].row].txid
      /\ \A o \in Transfers : o # clicks[c].row => transfers'[o] = transfers[o]
  BY <1>1, <1>2, RowStamped DEF MarketTyped
<1>6. RowsTyped' /\ LogTyped'
  BY <1>1, <1>5 DEF MarketTyped, RowsTyped, LogTyped
<1> QED
  BY <1>1, <1>2, <1>4, <1>5, <1>6, OthersTyped DEF MarketTyped

\* The policy server broadcasts, and the answer arrives or is lost.
LEMMA CallMovesDoes ==
    ASSUME MarketTyped, NEW c \in Clicks, M!CallMoves(c)
    PROVE  /\ MarketTyped' /\ UNCHANGED <<transfers, captured, booked>> /\ Others
           /\ clicks[c] \in Clickers /\ clicks[c].pc = "call" /\ clicks'[c] \in Clickers
           /\ clicks'[c].row = clicks[c].row /\ \A d \in Clicks : d # c => clicks'[d] = clicks[d]
           /\ log' = M!Moved("transfer", clicks[c].row) /\ clicks[c].row \in Transfers
           /\ \/ clicks'[c].pc = "moved" /\ clicks'[c].txid = Len(log) + 1
              \/ clicks'[c].pc = "unsure"
           /\ budget'["overlap"] = budget["overlap"] /\ budget'["redeem"] = budget["redeem"]
           /\ budget'["unread"] = budget["unread"] /\ budget'["crash"] = budget["crash"]
<1>1. /\ M!At(c, "call") /\ log' = M!Moved("transfer", clicks[c].row)
      /\ UNCHANGED <<transfers, captured, booked>> /\ Others
      /\ {"call", "moved", "unsure"} \subseteq ClickSteps
  BY DEF M!CallMoves, M!rows, Others, ClickSteps
<1>2. clicks[c] \in Clickers /\ clicks[c].pc = "call" /\ clicks[c].row \in Transfers /\ clicks[c].txid \in Nat
  BY <1>1, ClickStands DEF MarketTyped
<1>3. LogTyped' /\ Len(log) \in Nat /\ Len(log') = Len(log) + 1
  BY <1>1, <1>2, LineAdded DEF MarketTyped
<1>4. CASE clicks' = [clicks EXCEPT ![c].pc = "moved", ![c].txid = Len(log')] /\ UNCHANGED budget
  <2>1. Turned(c, "moved", Len(log) + 1)
    <3>1. [[clicks[c] EXCEPT !.pc = "moved"] EXCEPT !.txid = Len(log')]
            = [pc |-> "moved", row |-> clicks[c].row, txid |-> Len(log) + 1]
      <4>1. [clicks[c] EXCEPT !.pc = "moved"] = [pc |-> "moved", row |-> clicks[c].row, txid |-> clicks[c].txid]
        BY <1>2 DEF Clickers
      <4>2. [[pc |-> "moved", row |-> clicks[c].row, txid |-> clicks[c].txid] EXCEPT !.txid = Len(log')]
              = [pc |-> "moved", row |-> clicks[c].row, txid |-> Len(log')]
        OBVIOUS
      <4> QED
        BY <1>3, <4>1, <4>2
    <3>2. clicks' = [clicks EXCEPT ![c] = [[clicks[c] EXCEPT !.pc = "moved"] EXCEPT !.txid = Len(log')]]
      BY <1>4 DEF MarketTyped, ClicksTyped
    <3> QED
      BY <3>1, <3>2 DEF Turned
  <2>2. /\ ClicksTyped' /\ clicks'[c] \in Clickers /\ clicks'[c].pc = "moved" /\ clicks'[c].row = clicks[c].row
        /\ clicks'[c].txid = Len(log) + 1 /\ \A d \in Clicks : d # c => clicks'[d] = clicks[d]
    BY <1>1, <1>2, <1>3, <2>1, TurnedTo DEF MarketTyped
  <2>3. RowsTyped'
    BY <1>1 DEF MarketTyped, RowsTyped
  <2> QED
    BY <1>1, <1>2, <1>3, <1>4, <2>2, <2>3, OthersTyped DEF MarketTyped
<1>5. CASE M!Spent("lost") /\ M!Goes(c, "unsure")
  <2>1. Turned(c, "unsure", clicks[c].txid)
    BY <1>1, <1>5, GoesTurns DEF MarketTyped
  <2>2. /\ ClicksTyped' /\ clicks'[c] \in Clickers /\ clicks'[c].pc = "unsure" /\ clicks'[c].row = clicks[c].row
        /\ \A d \in Clicks : d # c => clicks'[d] = clicks[d]
    BY <1>1, <1>2, <2>1, TurnedTo DEF MarketTyped
  <2>3. RowsTyped'
    BY <1>1 DEF MarketTyped, RowsTyped
  <2>4. /\ budget' \in Counts
        /\ budget'["overlap"] = budget["overlap"] /\ budget'["redeem"] = budget["redeem"]
        /\ budget'["unread"] = budget["unread"] /\ budget'["crash"] = budget["crash"]
    BY <1>5, Paid DEF MarketTyped
  <2> QED
    BY <1>1, <1>2, <1>3, <2>2, <2>3, <2>4, OthersTyped DEF MarketTyped
<1> QED
  BY <1>4, <1>5 DEF M!CallMoves

\* The policy server refuses, or no answer comes and nothing was broadcast.
LEMMA CallEndsDoes ==
    ASSUME MarketTyped, NEW c \in Clicks, M!CallRefused(c) \/ M!CallFails(c)
    PROVE  /\ MarketTyped' /\ UNCHANGED <<transfers, captured, log, booked, budget>> /\ Others
           /\ clicks[c] \in Clickers /\ clicks[c].pc = "call" /\ clicks'[c] \in Clickers
           /\ clicks'[c].pc \in {"refused", "unsure"} /\ clicks'[c].row = clicks[c].row
           /\ \A d \in Clicks : d # c => clicks'[d] = clicks[d]
<1>1. PICK pc \in {"refused", "unsure"} : M!Goes(c, pc)
  BY DEF M!CallRefused, M!CallFails
<1>2. /\ M!At(c, "call") /\ UNCHANGED <<transfers, captured, log, booked, budget>> /\ Others
      /\ pc \in ClickSteps /\ "call" \in ClickSteps
  BY DEF M!CallRefused, M!CallFails, M!rows, Others, ClickSteps
<1>3. clicks[c] \in Clickers /\ clicks[c].pc = "call" /\ clicks[c].row \in Transfers /\ clicks[c].txid \in Nat
  BY <1>2, ClickStands DEF MarketTyped
<1>4. Turned(c, pc, clicks[c].txid)
  BY <1>1, <1>2, GoesTurns DEF MarketTyped
<1>5. /\ ClicksTyped' /\ clicks'[c] \in Clickers /\ clicks'[c].pc = pc /\ clicks'[c].row = clicks[c].row
      /\ \A d \in Clicks : d # c => clicks'[d] = clicks[d]
  BY <1>2, <1>3, <1>4, TurnedTo DEF MarketTyped
<1>6. RowsTyped' /\ LogTyped'
  BY <1>2 DEF MarketTyped, RowsTyped, LogTyped
<1> QED
  BY <1>2, <1>3, <1>5, <1>6, OthersTyped DEF MarketTyped

SettledAs(t, n) ==
    \/ M!ClaimedByOther(n, t) /\ UNCHANGED transfers
    \/ /\ ~M!ClaimedByOther(n, t) /\ transfers'[t].state = "settled" /\ transfers'[t].txid = n
       /\ \A o \in Transfers : o # t => transfers'[o] = transfers[o]

LEMMA RecordMovedDoes ==
    ASSUME MarketTyped, NEW c \in Clicks, M!RecordMoved(c)
    PROVE  /\ MarketTyped' /\ UNCHANGED <<captured, log, booked, budget>> /\ Others
           /\ clicks[c] \in Clickers /\ clicks[c].pc = "moved" /\ clicks'[c] \in Clickers
           /\ clicks'[c].pc = "book" /\ clicks'[c].row = clicks[c].row /\ clicks'[c].txid = clicks[c].txid
           /\ \A d \in Clicks : d # c => clicks'[d] = clicks[d]
           /\ SettledAs(clicks[c].row, clicks[c].txid)
<1>1. /\ M!At(c, "moved") /\ M!Settled(c, clicks[c].txid) /\ M!Goes(c, "book")
      /\ UNCHANGED <<captured, log, booked, budget>> /\ Others /\ {"moved", "book"} \subseteq ClickSteps
  BY DEF M!RecordMoved, M!StoresKept, M!world, Others, ClickSteps
<1>2. clicks[c] \in Clickers /\ clicks[c].pc = "moved" /\ clicks[c].row \in Transfers /\ clicks[c].txid \in Nat
  BY <1>1, ClickStands DEF MarketTyped
<1>3. Turned(c, "book", clicks[c].txid)
  BY <1>1, GoesTurns DEF MarketTyped
<1>4. /\ ClicksTyped' /\ clicks'[c] \in Clickers /\ clicks'[c].pc = "book" /\ clicks'[c].row = clicks[c].row
      /\ clicks'[c].txid = clicks[c].txid /\ \A d \in Clicks : d # c => clicks'[d] = clicks[d]
  BY <1>1, <1>2, <1>3, TurnedTo DEF MarketTyped
<1>5. transfers' \in [Transfers -> BrowserRows] /\ SettledAs(clicks[c].row, clicks[c].txid)
  BY <1>1, <1>2, RowSettled DEF MarketTyped, SettledAs
<1>6. RowsTyped' /\ LogTyped'
  BY <1>1, <1>5 DEF MarketTyped, RowsTyped, LogTyped
<1> QED
  BY <1>1, <1>2, <1>4, <1>5, <1>6, OthersTyped DEF MarketTyped

LEMMA RecordFoundDoes ==
    ASSUME MarketTyped, NEW c \in Clicks, M!RecordFound(c)
    PROVE  /\ MarketTyped' /\ UNCHANGED <<captured, log, booked, budget>> /\ Others
           /\ clicks[c] \in Clickers /\ clicks[c].pc = "found" /\ clicks'[c] = M!Nobody
           /\ \A d \in Clicks : d # c => clicks'[d] = clicks[d]
           /\ SettledAs(clicks[c].row, clicks[c].txid)
<1>1. /\ M!At(c, "found") /\ M!Settled(c, clicks[c].txid) /\ M!Leaves(c)
      /\ UNCHANGED <<captured, log, booked, budget>> /\ Others /\ "found" \in ClickSteps
  BY DEF M!RecordFound, M!StoresKept, M!world, Others, ClickSteps
<1>2. clicks[c] \in Clickers /\ clicks[c].pc = "found" /\ clicks[c].row \in Transfers /\ clicks[c].txid \in Nat
  BY <1>1, ClickStands DEF MarketTyped
<1>3. ClicksTyped' /\ clicks'[c] = M!Nobody /\ \A d \in Clicks : d # c => clicks'[d] = clicks[d]
  BY <1>1, LeftTo DEF MarketTyped
<1>4. transfers' \in [Transfers -> BrowserRows] /\ SettledAs(clicks[c].row, clicks[c].txid)
  BY <1>1, <1>2, RowSettled DEF MarketTyped, SettledAs
<1>5. RowsTyped' /\ LogTyped'
  BY <1>1, <1>4 DEF MarketTyped, RowsTyped, LogTyped
<1> QED
  BY <1>1, <1>2, <1>3, <1>4, <1>5, OthersTyped DEF MarketTyped

LEMMA RecordEndsDoes ==
    ASSUME MarketTyped, NEW c \in Clicks, M!RecordRefused(c) \/ M!RecordFailed(c)
    PROVE  /\ MarketTyped' /\ UNCHANGED <<captured, log, booked, budget>> /\ Others
           /\ clicks[c] \in Clickers /\ clicks[c].pc \in {"refused", "failing"} /\ clicks'[c] = M!Nobody
           /\ \A d \in Clicks : d # c => clicks'[d] = clicks[d]
           /\ transfers'[clicks[c].row].state \in {"refused", "failed"}
           /\ transfers'[clicks[c].row].txid = transfers[clicks[c].row].txid
           /\ \A o \in Transfers : o # clicks[c].row => transfers'[o] = transfers[o]
<1>1. PICK from \in {"refused", "failing"}, st \in {"refused", "failed"} : M!At(c, from) /\ M!Write(c, st)
  BY DEF M!RecordRefused, M!RecordFailed
<1>2. /\ M!Leaves(c) /\ UNCHANGED <<captured, log, booked, budget>> /\ Others
      /\ from \in ClickSteps /\ st \in M!Browser
  BY DEF M!RecordRefused, M!RecordFailed, M!StoresKept, M!world, Others, ClickSteps, M!Browser
<1>3. clicks[c] \in Clickers /\ clicks[c].pc = from /\ clicks[c].row \in Transfers
  BY <1>1, <1>2, ClickStands DEF MarketTyped
<1>4. ClicksTyped' /\ clicks'[c] = M!Nobody /\ \A d \in Clicks : d # c => clicks'[d] = clicks[d]
  BY <1>2, LeftTo DEF MarketTyped
<1>5. /\ transfers' \in [Transfers -> BrowserRows] /\ transfers'[clicks[c].row].state = st
      /\ transfers'[clicks[c].row].txid = transfers[clicks[c].row].txid
      /\ \A o \in Transfers : o # clicks[c].row => transfers'[o] = transfers[o]
  BY <1>1, <1>2, <1>3, RowStamped DEF MarketTyped
<1>6. RowsTyped' /\ LogTyped'
  BY <1>2, <1>5 DEF MarketTyped, RowsTyped, LogTyped
<1> QED
  BY <1>2, <1>3, <1>4, <1>5, <1>6, OthersTyped DEF MarketTyped

LEMMA BookDoes ==
    ASSUME MarketTyped, NEW c \in Clicks, M!Book(c)
    PROVE  /\ MarketTyped' /\ UNCHANGED <<transfers, captured, log, budget>> /\ Others
           /\ clicks[c] \in Clickers /\ clicks[c].pc = "book" /\ clicks'[c] = M!Nobody
           /\ \A d \in Clicks : d # c => clicks'[d] = clicks[d]
           /\ booked' = Append(booked, clicks[c].txid) /\ clicks[c].txid \in Nat
<1>1. /\ M!At(c, "book") /\ M!Leaves(c) /\ UNCHANGED <<transfers, captured, log, budget>> /\ Others
      /\ booked' = Append(booked, clicks[c].txid) /\ "book" \in ClickSteps
  BY DEF M!Book, M!world, Others, ClickSteps
<1>2. clicks[c] \in Clickers /\ clicks[c].pc = "book" /\ clicks[c].txid \in Nat
  BY <1>1, ClickStands DEF MarketTyped
<1>3. ClicksTyped' /\ clicks'[c] = M!Nobody /\ \A d \in Clicks : d # c => clicks'[d] = clicks[d]
  BY <1>1, LeftTo DEF MarketTyped
<1>4. RowsTyped' /\ LogTyped'
  BY <1>1, <1>2 DEF MarketTyped, RowsTyped, LogTyped
<1> QED
  BY <1>1, <1>2, <1>3, <1>4, OthersTyped DEF MarketTyped

LEMMA ReconcileDoes ==
    ASSUME MarketTyped, NEW c \in Clicks, M!Reconcile(c)
    PROVE  /\ MarketTyped' /\ UNCHANGED <<transfers, captured, log, booked>> /\ Others
           /\ clicks[c] \in Clickers /\ clicks[c].pc = "unsure" /\ clicks'[c] \in Clickers
           /\ clicks'[c].pc \in {"found", "failing"} /\ clicks'[c].row = clicks[c].row
           /\ clicks'[c].pc = "found" => clicks'[c].txid \in DOMAIN log
           /\ \A d \in Clicks : d # c => clicks'[d] = clicks[d]
           /\ budget'["overlap"] = budget["overlap"]
<1>1. PICK found \in {M!None, M!InLog("transfer")} :
         /\ M!Scanned("transfer", found)
         /\ clicks' = [clicks EXCEPT ![c].txid = found,
                ![c].pc = IF found # M!None /\ ~M!ClaimedByOther(found, clicks[c].row)
                          THEN "found" ELSE "failing"]
  BY DEF M!Reconcile
<1>2. /\ M!At(c, "unsure") /\ UNCHANGED <<transfers, captured, log, booked>> /\ Others
      /\ {"unsure", "found", "failing"} \subseteq ClickSteps
  BY DEF M!Reconcile, M!rows, M!world, Others, ClickSteps
<1>3. clicks[c] \in Clickers /\ clicks[c].pc = "unsure" /\ clicks[c].row \in Transfers /\ clicks[c].txid \in Nat
  BY <1>2, ClickStands DEF MarketTyped
<1>4. found \in Nat /\ (found # M!None => found \in DOMAIN log)
  <2>1. found = 0 \/ found \in DOMAIN log
    BY <1>1, InLogFinds, MarketFacts DEF MarketTyped
  <2> QED
    BY <2>1, MarketFacts DEF MarketTyped, LogTyped
<1> DEFINE pc == IF found # M!None /\ ~M!ClaimedByOther(found, clicks[c].row) THEN "found" ELSE "failing"
<1>5. pc \in {"found", "failing"} /\ (pc = "found" => found # M!None)
      /\ clicks' = [clicks EXCEPT ![c].txid = found, ![c].pc = pc]
  BY <1>1
<1> HIDE DEF pc
<1>6. Turned(c, pc, found)
  <2>1. [clicks[c] EXCEPT !.txid = found] = [pc |-> clicks[c].pc, row |-> clicks[c].row, txid |-> found]
    BY <1>3 DEF Clickers
  <2>2. [[pc |-> clicks[c].pc, row |-> clicks[c].row, txid |-> found] EXCEPT !.pc = pc]
          = [pc |-> pc, row |-> clicks[c].row, txid |-> found]
    OBVIOUS
  <2>3. clicks' = [clicks EXCEPT ![c] = [[clicks[c] EXCEPT !.txid = found] EXCEPT !.pc = pc]]
    BY <1>5 DEF MarketTyped, ClicksTyped
  <2> QED
    BY <2>1, <2>2, <2>3 DEF Turned
<1>7. /\ ClicksTyped' /\ clicks'[c] \in Clickers /\ clicks'[c].pc = pc /\ clicks'[c].row = clicks[c].row
      /\ clicks'[c].txid = found /\ \A d \in Clicks : d # c => clicks'[d] = clicks[d]
  BY <1>2, <1>3, <1>4, <1>5, <1>6, TurnedTo DEF MarketTyped
<1>8. RowsTyped' /\ LogTyped'
  BY <1>2 DEF MarketTyped, RowsTyped, LogTyped
<1>9. budget' \in Counts /\ budget'["overlap"] = budget["overlap"]
  BY <1>1, Read DEF MarketTyped
<1> QED
  BY <1>2, <1>3, <1>4, <1>5, <1>7, <1>8, <1>9, OthersTyped DEF MarketTyped

-----------------------------------------------------------------------------
(* The market: what the others do.                                          *)

LEMMA InitiateDoes ==
    ASSUME MarketTyped, NEW t \in Transfers, M!Initiate(t)
    PROVE  /\ MarketTyped' /\ UNCHANGED <<captured, log, booked, clicks, budget>> /\ Others
           /\ transfers[t].state = "none" /\ transfers'[t].state = "awaiting_signature"
           /\ transfers'[t].txid = transfers[t].txid
           /\ \A o \in Transfers : o # t => transfers'[o] = transfers[o]
<1> DEFINE e == [transfers[t] EXCEPT !.state = "awaiting_signature"]
<1>1. e \in BrowserRows /\ e.state = "awaiting_signature" /\ e.txid = transfers[t].txid
  BY DEF MarketTyped, RowsTyped, BrowserRows, M!Browser
<1>2. /\ transfers' = [transfers EXCEPT ![t] = e] /\ transfers[t].state = "none"
      /\ UNCHANGED <<captured, log, booked, clicks, budget>> /\ Others
  BY DEF M!Initiate, Others
<1> HIDE DEF e
<1>3. /\ transfers' \in [Transfers -> BrowserRows] /\ transfers'[t] = e
      /\ \A o \in Transfers : o # t => transfers'[o] = transfers[o]
  BY <1>1, <1>2 DEF MarketTyped, RowsTyped
<1>4. RowsTyped' /\ LogTyped' /\ ClicksTyped'
  BY <1>2, <1>3 DEF MarketTyped, RowsTyped, LogTyped, ClicksTyped
<1> QED
  BY <1>1, <1>2, <1>3, <1>4, OthersTyped DEF MarketTyped

LEMMA WalletMovesDoes ==
    ASSUME MarketTyped, M!WalletMoves
    PROVE  /\ MarketTyped' /\ UNCHANGED <<transfers, captured, booked, clicks>> /\ Others
           /\ log' = M!Moved("transfer", "wallet")
           /\ \A j \in {"overlap", "redeem", "unread", "crash"} : budget'[j] = budget[j]
<1>1. /\ UNCHANGED <<transfers, captured, booked, clicks>> /\ Others /\ log' = M!Moved("transfer", "wallet")
  BY DEF M!WalletMoves, M!rows, Others
<1>2. budget' \in Counts /\ \A j \in {"overlap", "redeem", "unread", "crash"} : budget'[j] = budget[j]
  BY Paid DEF M!WalletMoves, MarketTyped
<1>3. LogTyped'
  BY <1>1, LineAdded DEF MarketTyped
<1>4. RowsTyped' /\ ClicksTyped'
  BY <1>1 DEF MarketTyped, RowsTyped, ClicksTyped
<1> QED
  BY <1>1, <1>2, <1>3, <1>4, OthersTyped DEF MarketTyped

PollOnly == UNCHANGED <<transfers, log, clicks, budget, drops, dr>>

LEMMA PollTypes ==
    ASSUME MarketTyped, PollOnly, PollTyped', captured' \subseteq Nat, booked' \in Seq(Nat)
    PROVE  MarketTyped'
  BY DEF MarketTyped, PollOnly, RowsTyped, LogTyped, ClicksTyped, DrTyped

LEMMA PollKeepsOnly == M!PollKeeps => PollOnly
  BY DEF M!PollKeeps, PollOnly, M!world

LEMMA PollBeginDoes ==
    ASSUME MarketTyped, M!PollBegin
    PROVE  /\ MarketTyped' /\ PollOnly /\ UNCHANGED <<captured, booked>>
           /\ poll' \in Pollers /\ poll'.pc = "line" /\ poll'.upto = Len(log)
<1> DEFINE p == [pc |-> "line", at |-> cursor + 1, upto |-> Len(log)]
<1>1. p \in Pollers /\ p.pc = "line" /\ p.upto = Len(log)
  BY DEF MarketTyped, PollTyped, LogTyped, Pollers
<1>2. poll' = p /\ UNCHANGED <<captured, booked, cursor>> /\ PollOnly
  BY PollKeepsOnly DEF M!PollBegin
<1> HIDE DEF p
<1>3. PollTyped' /\ captured' \subseteq Nat /\ booked' \in Seq(Nat)
  BY <1>1, <1>2 DEF MarketTyped, PollTyped, RowsTyped
<1> QED
  BY <1>1, <1>2, <1>3, PollTypes

\* The poller at a line: passed over, or to be captured.
LEMMA PollLineDoes ==
    ASSUME MarketTyped, M!PollLine
    PROVE  /\ MarketTyped' /\ PollOnly /\ UNCHANGED <<captured, booked>>
           /\ poll \in Pollers /\ poll.at <= poll.upto /\ poll' \in Pollers /\ poll'.upto = poll.upto
           /\ \/ poll'.pc = "line"
              \/ /\ poll'.pc = "capture" /\ poll'.at = poll.at /\ ~M!Owned
<1>1. /\ poll.pc = "line" /\ poll.at <= poll.upto /\ PollOnly /\ UNCHANGED <<captured, booked, cursor>>
      /\ \/ poll' = [poll EXCEPT !.at = @ + 1]
         \/ poll' = [poll EXCEPT !.pc = "capture"] /\ ~M!Owned
  BY PollKeepsOnly DEF M!PollLine
<1>2. poll \in Pollers
  BY <1>1, MarketFacts DEF MarketTyped, PollTyped, M!Nobody
<1>3. /\ [poll EXCEPT !.at = @ + 1] \in Pollers /\ [poll EXCEPT !.at = @ + 1].pc = poll.pc
      /\ [poll EXCEPT !.at = @ + 1].upto = poll.upto
      /\ [poll EXCEPT !.pc = "capture"] \in Pollers /\ [poll EXCEPT !.pc = "capture"].pc = "capture"
      /\ [poll EXCEPT !.pc = "capture"].at = poll.at /\ [poll EXCEPT !.pc = "capture"].upto = poll.upto
  BY <1>2 DEF Pollers
<1>4. PollTyped' /\ captured' \subseteq Nat /\ booked' \in Seq(Nat)
  BY <1>1, <1>3 DEF MarketTyped, PollTyped, RowsTyped
<1> QED
  BY <1>1, <1>2, <1>3, <1>4, PollTypes

\* The poller goes on to the next line.
LEMMA NextLine ==
    ASSUME poll \in Pollers
    PROVE  LET p == [poll EXCEPT !.pc = "line", !.at = @ + 1]
           IN  p \in Pollers /\ p.pc = "line" /\ p.upto = poll.upto
<1> DEFINE q == [poll EXCEPT !.pc = "line"]
           p == [poll EXCEPT !.pc = "line", !.at = @ + 1]
<1>1. q \in Pollers /\ q.pc = "line" /\ q.upto = poll.upto /\ q.at = poll.at
  BY DEF Pollers
<1>2. p = [q EXCEPT !.at = poll.at + 1]
  OBVIOUS
<1> HIDE DEF q
<1>3. [q EXCEPT !.at = poll.at + 1] \in Pollers /\ [q EXCEPT !.at = poll.at + 1].pc = q.pc
      /\ [q EXCEPT !.at = poll.at + 1].upto = q.upto
  BY <1>1 DEF Pollers
<1> QED
  BY <1>1, <1>2, <1>3

LEMMA PollCaptureDoes ==
    ASSUME MarketTyped, M!PollCapture
    PROVE  /\ MarketTyped' /\ PollOnly /\ UNCHANGED booked /\ poll \in Pollers /\ poll.pc = "capture"
           /\ poll' \in Pollers /\ poll'.upto = poll.upto
           /\ \/ poll'.pc = "line" /\ UNCHANGED captured
              \/ /\ poll'.pc = "book" /\ poll'.at = poll.at /\ captured' = captured \cup {poll.at}
                 /\ ~M!Claimed(poll.at)
<1>1. /\ poll.pc = "capture" /\ PollOnly /\ UNCHANGED <<booked, cursor>>
      /\ \/ poll' = [poll EXCEPT !.pc = "line", !.at = @ + 1] /\ UNCHANGED captured
         \/ /\ poll' = [poll EXCEPT !.pc = "book"] /\ captured' = captured \cup {poll.at}
            /\ ~M!Claimed(poll.at)
  BY PollKeepsOnly DEF M!PollCapture
<1>2. poll \in Pollers
  BY <1>1, MarketFacts DEF MarketTyped, PollTyped, M!Nobody
<1>3. /\ [poll EXCEPT !.pc = "line", !.at = @ + 1] \in Pollers
      /\ [poll EXCEPT !.pc = "line", !.at = @ + 1].pc = "line"
      /\ [poll EXCEPT !.pc = "line", !.at = @ + 1].upto = poll.upto
      /\ [poll EXCEPT !.pc = "book"] \in Pollers /\ [poll EXCEPT !.pc = "book"].pc = "book"
      /\ [poll EXCEPT !.pc = "book"].at = poll.at /\ [poll EXCEPT !.pc = "book"].upto = poll.upto
  BY <1>2, NextLine DEF Pollers
<1>4. PollTyped' /\ captured' \subseteq Nat /\ booked' \in Seq(Nat)
  BY <1>1, <1>2, <1>3, MarketFacts DEF MarketTyped, PollTyped, RowsTyped
<1> QED
  BY <1>1, <1>2, <1>3, <1>4, PollTypes

LEMMA PollBookDoes ==
    ASSUME MarketTyped, M!PollBook
    PROVE  /\ MarketTyped' /\ PollOnly /\ UNCHANGED captured /\ poll \in Pollers /\ poll.pc = "book"
           /\ poll' \in Pollers /\ poll'.pc = "line" /\ poll'.upto = poll.upto
           /\ booked' = Append(booked, poll.at) /\ poll.at \in Nat
<1>1. /\ poll.pc = "book" /\ PollOnly /\ UNCHANGED <<captured, cursor>>
      /\ poll' = [poll EXCEPT !.pc = "line", !.at = @ + 1] /\ booked' = Append(booked, poll.at)
  BY PollKeepsOnly DEF M!PollBook
<1>2. poll \in Pollers /\ poll.at \in Nat
  BY <1>1, MarketFacts DEF MarketTyped, PollTyped, M!Nobody
<1>3. /\ [poll EXCEPT !.pc = "line", !.at = @ + 1] \in Pollers
      /\ [poll EXCEPT !.pc = "line", !.at = @ + 1].pc = "line"
      /\ [poll EXCEPT !.pc = "line", !.at = @ + 1].upto = poll.upto
  BY <1>2, NextLine
<1>4. PollTyped' /\ captured' \subseteq Nat /\ booked' \in Seq(Nat)
  BY <1>1, <1>2, <1>3 DEF MarketTyped, PollTyped, RowsTyped
<1> QED
  BY <1>1, <1>2, <1>3, <1>4, PollTypes

LEMMA PollEndDoes ==
    ASSUME MarketTyped, M!PollEnd
    PROVE  MarketTyped' /\ PollOnly /\ UNCHANGED <<captured, booked>> /\ poll' = M!Nobody
<1>1. /\ poll.pc = "line" /\ PollOnly /\ UNCHANGED <<captured, booked>> /\ cursor' = poll.upto /\ poll' = M!Nobody
  BY PollKeepsOnly DEF M!PollEnd
<1>2. poll \in Pollers
  BY <1>1, MarketFacts DEF MarketTyped, PollTyped, M!Nobody
<1>3. PollTyped' /\ captured' \subseteq Nat /\ booked' \in Seq(Nat)
  BY <1>1, <1>2, MarketFacts DEF MarketTyped, PollTyped, RowsTyped
<1> QED
  BY <1>1, <1>3, PollTypes

LEMMA CrashDoes ==
    ASSUME MarketTyped, M!Crash
    PROVE  /\ MarketTyped' /\ UNCHANGED <<transfers, captured, log, booked, drops, cursor>>
           /\ \A c \in Clicks : clicks'[c] = M!Nobody
           /\ poll' = M!Nobody /\ dr' = M!Nobody
           /\ budget["crash"] > 0 /\ \A j \in {"overlap", "redeem", "unread"} : budget'[j] = budget[j]
<1>1. /\ UNCHANGED <<transfers, captured, log, booked, drops, cursor>>
      /\ clicks' = [c \in Clicks |-> M!Nobody] /\ poll' = M!Nobody /\ dr' = M!Nobody
  BY DEF M!Crash, M!rows, M!world
<1>2. /\ budget' \in Counts /\ budget["crash"] > 0
      /\ \A j \in {"overlap", "redeem", "unread"} : budget'[j] = budget[j]
  BY Paid DEF M!Crash, MarketTyped
<1> QED
  BY <1>1, <1>2 DEF MarketTyped, ClicksTyped, RowsTyped, LogTyped, PollTyped, DrTyped

-----------------------------------------------------------------------------
(* The receipt programme.                                                   *)

DrOnly == UNCHANGED <<transfers, captured, booked, cursor, clicks, poll>>

LEMMA DrTypes ==
    ASSUME MarketTyped, DrOnly, DrTyped', LogTyped', budget' \in Counts
    PROVE  MarketTyped'
  BY DEF MarketTyped, DrOnly, RowsTyped, ClicksTyped, PollTyped

LEMMA DrKeepsOnly == M!DrKeeps => DrOnly
  BY DEF M!DrKeeps, DrOnly

LEMMA HolderStands ==
    ASSUME MarketTyped, dr.pc # "idle"
    PROVE  dr \in DrHolders /\ dr.pc \in DrSteps /\ dr.req \in M!Requests /\ dr.txid \in Nat
  BY MarketFacts DEF MarketTyped, DrTyped, M!Nobody

LEMMA HolderGoes ==
    ASSUME dr \in DrHolders, NEW pc \in DrSteps
    PROVE  LET h == [dr EXCEPT !.pc = pc]
           IN  h \in DrHolders /\ h.pc = pc /\ h.req = dr.req /\ h.txid = dr.txid
  BY DEF DrHolders

LEMMA HolderTold ==
    ASSUME dr \in DrHolders, NEW pc \in DrSteps, NEW n \in Nat
    PROVE  /\ LET h == [dr EXCEPT !.pc = pc, !.txid = n]
              IN  h \in DrHolders /\ h.pc = pc /\ h.req = dr.req /\ h.txid = n
           /\ LET h == [dr EXCEPT !.txid = n, !.pc = pc]
              IN  h \in DrHolders /\ h.pc = pc /\ h.req = dr.req /\ h.txid = n
<1> DEFINE g == [dr EXCEPT !.pc = pc]
<1>1. g \in DrHolders /\ g.pc = pc /\ g.req = dr.req
  BY HolderGoes
<1>2. /\ [dr EXCEPT !.pc = pc, !.txid = n] = [g EXCEPT !.txid = n]
      /\ [dr EXCEPT !.txid = n, !.pc = pc] = [g EXCEPT !.txid = n]
  <2>1. [dr EXCEPT !.pc = pc, !.txid = n] = [g EXCEPT !.txid = n]
    OBVIOUS
  <2>2. [dr EXCEPT !.txid = n, !.pc = pc] = [g EXCEPT !.txid = n]
    BY DEF DrHolders
  <2> QED
    BY <2>1, <2>2
<1> HIDE DEF g
<1>3. [g EXCEPT !.txid = n] \in DrHolders /\ [g EXCEPT !.txid = n].pc = g.pc
      /\ [g EXCEPT !.txid = n].req = g.req /\ [g EXCEPT !.txid = n].txid = n
  BY <1>1 DEF DrHolders
<1> QED
  BY <1>1, <1>2, <1>3

LEMMA OpStamped ==
    ASSUME DrTyped, NEW r \in M!Requests, NEW st \in {"pending", "burning", "broadcast", "failed"}, M!Op(r, st)
    PROVE  /\ drops' \in [M!Requests -> DrOps] /\ drops'[r].state = st
           /\ \A q \in M!Requests : q # r => drops'[q] = drops[q]
<1> DEFINE e == [drops[r] EXCEPT !.state = st]
<1>1. e \in DrOps /\ e.state = st
  BY DEF DrTyped, DrOps
<1>2. drops' = [drops EXCEPT ![r] = e]
  BY DEF M!Op
<1> HIDE DEF e
<1> QED
  BY <1>1, <1>2 DEF DrTyped

\* The answer to a burn names its line.
LEMMA BurnTold ==
    ASSUME MarketTyped, dr \in DrHolders, log' = M!Moved("burn", dr.req),
           dr' = [dr EXCEPT !.pc = "burned", !.txid = Len(log')]
    PROVE  dr' \in DrHolders /\ dr'.pc = "burned" /\ dr'.req = dr.req
<1>1. Len(log') \in Nat /\ dr.req \in M!Requests
  BY MarketFacts, LineAdded DEF MarketTyped
<1> DEFINE m == Len(log')
<1>2. dr' = [dr EXCEPT !.pc = "burned", !.txid = m] /\ m \in Nat
  BY <1>1
<1> HIDE DEF m
<1> DEFINE g == [dr EXCEPT !.pc = "burned"]
<1>3. g \in DrHolders /\ g.pc = "burned" /\ g.req = dr.req
  BY HolderGoes DEF DrSteps
<1>4. dr' = [g EXCEPT !.txid = m]
  BY <1>2
<1> HIDE DEF g
<1>5. [g EXCEPT !.txid = m] \in DrHolders /\ [g EXCEPT !.txid = m].pc = g.pc
      /\ [g EXCEPT !.txid = m].req = g.req
  BY <1>2, <1>3 DEF DrHolders
<1> QED
  BY <1>3, <1>4, <1>5

LEMMA DropsTyped ==
    ASSUME DrTyped, NEW r \in M!Requests,
           \/ UNCHANGED drops
           \/ \E st \in {"pending", "burning", "broadcast", "failed"} : M!Op(r, st)
           \/ \E n \in Nat : M!OpDone(r, n)
    PROVE  drops' \in [M!Requests -> DrOps]
<1>1. ASSUME NEW n \in Nat, M!OpDone(r, n) PROVE drops' \in [M!Requests -> DrOps]
  BY <1>1 DEF DrTyped, M!OpDone, DrOps
<1> QED
  BY <1>1, OpStamped DEF DrTyped

LEMMA Shrinks ==
    ASSUME MarketTyped, M!Next
    PROVE  /\ budget'["overlap"] = budget["overlap"]
           /\ budget' \in Counts /\ \A j \in {"overlap", "redeem", "unread", "crash"} :
                                    budget'[j] \in Nat /\ budget[j] \in Nat /\ budget'[j] <= budget[j]
<1> DEFINE Less == /\ budget'["overlap"] = budget["overlap"]
                   /\ budget' \in Counts /\ \A j \in {"overlap", "redeem", "unread", "crash"} :
                                            budget'[j] \in Nat /\ budget[j] \in Nat /\ budget'[j] <= budget[j]
<1>1. budget \in Counts
  BY DEF MarketTyped
<1>2. CASE UNCHANGED budget
  BY <1>1, <1>2 DEF Counts
<1>3. ASSUME NEW k \in {"click", "wallet", "mint", "redeem", "unread", "lost", "crash"}, M!Spent(k) PROVE Less
  BY <1>1, <1>3 DEF Counts, M!Spent
<1>4. \/ UNCHANGED budget
      \/ \E k \in {"click", "wallet", "mint", "redeem", "unread", "lost", "crash"} : M!Spent(k)
  BY DEF M!Next, M!Complete, M!Poll, M!Receipts, M!Initiate, M!Read, M!Intend, M!CallMoves, M!CallRefused,
         M!CallFails, M!RecordMoved, M!Book, M!RecordRefused, M!Reconcile, M!RecordFound, M!RecordFailed,
         M!WalletMoves, M!PollKeeps, M!PollBegin, M!PollLine, M!PollCapture, M!PollBook, M!PollEnd,
         M!Mint, M!Reissue, M!MintRecord, M!Redeem, M!RedeemLook, M!BuildFails, M!BurnIntend, M!Burn,
         M!BurnRecord, M!DrFails, M!Crash, M!Scanned
<1> QED
  BY <1>2, <1>3, <1>4

\* The receipt programme touches its own rows and the log of burns.
LEMMA ReceiptsDo ==
    ASSUME MarketTyped, M!Next, M!Receipts
    PROVE  MarketTyped' /\ DrOnly /\ (UNCHANGED log \/ \E of \in M!Requests : log' = M!Moved("burn", of))
<1> DEFINE Does == /\ DrTyped' /\ DrOnly
                   /\ UNCHANGED log \/ \E of \in M!Requests : log' = M!Moved("burn", of)
<1>1. ASSUME NEW r \in M!Requests, NEW pc \in DrSteps, dr' = [pc |-> pc, req |-> r, txid |-> M!None],
             UNCHANGED drops \/ M!Op(r, "pending")
      PROVE  DrTyped'
  <2>1. [pc |-> pc, req |-> r, txid |-> M!None] \in DrHolders
    BY MarketFacts DEF DrHolders
  <2>2. drops' \in [M!Requests -> DrOps]
    BY <1>1, DropsTyped DEF MarketTyped
  <2> QED
    BY <1>1, <2>1, <2>2 DEF DrTyped
<1>2. ASSUME NEW r \in Mints, M!Mint(r) PROVE Does
  <2>1. r \in M!Requests /\ "reissue" \in DrSteps
    BY MarketFacts DEF DrSteps
  <2>2. /\ dr' = [pc |-> "reissue", req |-> r, txid |-> M!None] /\ UNCHANGED log /\ DrOnly
        /\ UNCHANGED drops \/ M!Op(r, "pending")
    BY <1>2, DrKeepsOnly DEF M!Mint, M!world, M!Op
  <2> QED
    BY <1>1, <2>1, <2>2
<1>3. ASSUME NEW r \in Redemptions, M!Redeem(r) PROVE Does
  <2>1. r \in M!Requests /\ {"build", "look"} \subseteq DrSteps
    BY MarketFacts DEF DrSteps
  <2>2. PICK pc \in {"build", "look"} : dr' = [pc |-> pc, req |-> r, txid |-> M!None]
    BY <1>3 DEF M!Redeem
  <2>3. UNCHANGED log /\ DrOnly /\ (UNCHANGED drops \/ M!Op(r, "pending"))
    BY <1>3, DrKeepsOnly DEF M!Redeem, M!world, M!Op
  <2> QED
    BY <1>1, <2>1, <2>2, <2>3
<1>4. ASSUME M!Reissue \/ M!BuildFails PROVE Does
  <2>1. PICK pc \in {"minted", "failing"} :
          /\ dr' = [dr EXCEPT !.pc = pc] /\ dr.pc # "idle" /\ UNCHANGED <<log, drops>> /\ DrOnly
    BY <1>4, DrKeepsOnly DEF M!Reissue, M!BuildFails, M!DrGoes, M!world
  <2>2. dr' \in DrHolders
    BY <2>1, HolderStands, HolderGoes DEF DrSteps
  <2> QED
    BY <2>1, <2>2 DEF MarketTyped, DrTyped
<1>5. ASSUME M!MintRecord \/ M!BurnRecord \/ M!DrFails PROVE Does
  <2>1. /\ dr.pc # "idle" /\ dr' = M!Nobody /\ UNCHANGED log /\ DrOnly
        /\ \/ M!Op(dr.req, "broadcast") \/ M!Op(dr.req, "failed")
           \/ M!OpDone(dr.req, dr.txid)
    BY <1>5, DrKeepsOnly DEF M!MintRecord, M!BurnRecord, M!DrFails, M!world
  <2>2. dr.req \in M!Requests /\ dr.txid \in Nat
    BY <2>1, HolderStands
  <2>3. drops' \in [M!Requests -> DrOps]
    BY <2>1, <2>2, DropsTyped DEF MarketTyped
  <2> QED
    BY <2>1, <2>3 DEF DrTyped
<1>6. ASSUME M!BurnIntend PROVE Does
  <2>1. /\ dr.pc # "idle" /\ M!Op(dr.req, "burning") /\ dr' = [dr EXCEPT !.pc = "burn"]
        /\ UNCHANGED log /\ DrOnly /\ "burn" \in DrSteps
    BY <1>6, DrKeepsOnly DEF M!BurnIntend, M!DrGoes, M!world, M!Burning, DrSteps
  <2>2. dr' \in DrHolders /\ dr.req \in M!Requests
    BY <2>1, HolderStands, HolderGoes
  <2>3. drops' \in [M!Requests -> DrOps]
    BY <2>1, <2>2, DropsTyped DEF MarketTyped
  <2> QED
    BY <2>1, <2>2, <2>3 DEF DrTyped
<1>7. ASSUME M!Burn PROVE Does
  <2>1. dr.pc # "idle" /\ UNCHANGED drops /\ DrOnly /\ {"burned", "unsure"} \subseteq DrSteps
    BY <1>7, DrKeepsOnly DEF M!Burn, DrSteps
  <2>2. dr \in DrHolders /\ dr.req \in M!Requests
    BY <2>1, HolderStands
  <2>3. CASE M!DrGoes("unsure")
    <3>1. dr' \in DrHolders
      BY <2>1, <2>2, <2>3, HolderGoes DEF M!DrGoes
    <3> QED
      BY <1>7, <2>1, <2>2, <3>1 DEF M!Burn, DrTyped, MarketTyped
  <2>4. CASE log' = M!Moved("burn", dr.req) /\ dr' = [dr EXCEPT !.pc = "burned", !.txid = Len(log')]
    <3>1. dr' \in DrHolders
      BY <2>2, <2>4, BurnTold
    <3> QED
      BY <2>1, <2>2, <2>4, <3>1 DEF DrTyped, MarketTyped
  <2> QED
    BY <1>7, <2>3, <2>4 DEF M!Burn
<1>8. ASSUME NEW from \in {"look", "unsure"}, NEW missing \in {"build", "failing"}, M!RedeemLook(from, missing)
      PROVE  Does
  <2>1. PICK found \in {M!None, M!InLog("burn")}, pc \in {"burned", "build", "failing"} :
          dr' = [dr EXCEPT !.txid = found, !.pc = pc]
    BY <1>8 DEF M!RedeemLook
  <2>2. /\ dr.pc # "idle" /\ UNCHANGED <<log, drops>> /\ DrOnly /\ pc \in DrSteps
    BY <1>8, DrKeepsOnly DEF M!RedeemLook, M!world, DrSteps
  <2>3. found \in Nat
    <3>1. found = 0 \/ found \in DOMAIN log
      BY InLogFinds, MarketFacts DEF MarketTyped
    <3> QED
      BY <3>1 DEF MarketTyped, LogTyped
  <2>4. dr' \in DrHolders
    BY <2>1, <2>2, <2>3, HolderStands, HolderTold
  <2> QED
    BY <2>2, <2>4 DEF DrTyped, MarketTyped
<1>9. Does
  BY <1>2, <1>3, <1>4, <1>5, <1>6, <1>7, <1>8 DEF M!Receipts
<1>10. LogTyped'
  <2>1. CASE UNCHANGED log
    BY <2>1 DEF MarketTyped, LogTyped
  <2>2. ASSUME NEW of \in M!Requests, log' = M!Moved("burn", of) PROVE LogTyped'
    BY <2>2, LineAdded DEF MarketTyped
  <2> QED
    BY <1>9, <2>1, <2>2
<1> QED
  BY <1>9, <1>10, Shrinks, DrTypes

\* Its states as the steps need them: what is on the log for a request, and what is known of it.
BurnOf(i, r) == log[i].action = "burn" /\ log[i].of = r
NoBurn(r)    == \A i \in DOMAIN log : ~BurnOf(i, r)
Told(r)      == drops[r].state = "broadcast" \/ (dr.pc \in {"burned", "unsure"} /\ dr.req = r)

Holding ==
    /\ dr.pc \in {"build", "look", "burn", "burned", "unsure"} => dr.req \in Redemptions
    /\ dr.pc # "idle" => drops[dr.req].state # "broadcast"
    /\ dr.pc \in {"build", "burn"} => NoBurn(dr.req)
    /\ dr.pc = "burn" => drops[dr.req].state = "burning"

Before == \A r \in Redemptions : drops[r].state \in {"none", "pending"} => NoBurn(r)

Legible ==
    \/ budget["unread"] = 0
    \/ /\ budget["unread"] = 1 /\ budget["crash"] = 0
       /\ \A r \in Redemptions : NoBurn(r) \/ Told(r)
    \/ /\ budget["redeem"] = 0 /\ dr.pc \in {"idle", "reissue", "minted", "failing"}
       /\ \A r \in Redemptions : NoBurn(r)

BurnInv == BurnedOnce /\ Holding /\ Before /\ Legible

\* Nothing but a redemption adds a burn.
LEMMA NoNewBurn ==
    ASSUME LogTyped,
           UNCHANGED log \/ \E of \in Transfers \cup M!Requests \cup {"wallet"} : log' = M!Moved("transfer", of)
    PROVE  /\ \A r \in Redemptions : NoBurn(r) => NoBurn(r)'
           /\ BurnedOnce => BurnedOnce'
<1>1. CASE UNCHANGED log
  BY <1>1 DEF NoBurn, BurnOf, BurnedOnce, M!BurnedOnce
<1>2. ASSUME NEW of \in Transfers \cup M!Requests \cup {"wallet"}, log' = M!Moved("transfer", of)
      PROVE  /\ \A r \in Redemptions : NoBurn(r) => NoBurn(r)'
             /\ BurnedOnce => BurnedOnce'
  <2> DEFINE n == Len(log)
  <2>0. /\ n \in Nat /\ DOMAIN log = 1..n /\ DOMAIN log' = 1..(n + 1) /\ log'[n + 1].action = "transfer"
        /\ \A i \in DOMAIN log : log'[i] = log[i]
    BY <1>2, LineAdded
  <2> HIDE DEF n
  <2>1. /\ DOMAIN log' = DOMAIN log \cup {n + 1} /\ log'[n + 1].action = "transfer"
        /\ \A i \in DOMAIN log : log'[i] = log[i]
    BY <2>0
  <2>2. \A i \in DOMAIN log' : log'[i].action = "burn" => i \in DOMAIN log /\ log'[i] = log[i]
    BY <2>1
  <2> QED
    BY <2>1, <2>2 DEF NoBurn, BurnOf, BurnedOnce, M!BurnedOnce
<1> QED
  BY <1>1, <1>2

\* What is left to show of a step.
LEMMA BurnInvKept ==
    ASSUME MarketTyped, BurnInv, M!Next,
           UNCHANGED log \/ \E of \in Transfers \cup M!Requests \cup {"wallet"} : log' = M!Moved("transfer", of),
           Holding', Before',
           budget["unread"] = 1 /\ budget["crash"] = 0 /\ (\A r \in Redemptions : NoBurn(r) \/ Told(r)) =>
             budget'["unread"] = 0 \/ \A r \in Redemptions : NoBurn(r)' \/ Told(r)',
           budget["redeem"] = 0 /\ dr.pc \in {"idle", "reissue", "minted", "failing"} =>
             dr'.pc \in {"idle", "reissue", "minted", "failing"}
    PROVE  BurnInv'
<1>1. /\ \A r \in Redemptions : NoBurn(r) => NoBurn(r)'
      /\ BurnedOnce => BurnedOnce'
  BY NoNewBurn DEF MarketTyped
<1>2. \A j \in {"redeem", "unread", "crash"} : budget'[j] \in Nat /\ budget[j] \in Nat /\ budget'[j] <= budget[j]
  BY Shrinks
<1>3. Legible'
  <2>1. CASE budget["unread"] = 0
    BY <1>2, <2>1 DEF Legible
  <2>2. CASE budget["unread"] = 1 /\ budget["crash"] = 0 /\ \A r \in Redemptions : NoBurn(r) \/ Told(r)
    <3>1. budget'["unread"] \in {0, 1} /\ budget'["crash"] = 0
      BY <1>2, <2>2
    <3> QED
      BY <2>2, <3>1 DEF Legible
  <2>3. CASE /\ budget["redeem"] = 0 /\ dr.pc \in {"idle", "reissue", "minted", "failing"}
             /\ \A r \in Redemptions : NoBurn(r)
    BY <1>1, <1>2, <2>3 DEF Legible
  <2> QED
    BY <2>1, <2>2, <2>3 DEF BurnInv, Legible
<1> QED
  BY <1>1, <1>3 DEF BurnInv

LEMMA BurnElsewhere ==
    ASSUME MarketTyped, BurnInv, M!Next,
           UNCHANGED log \/ \E of \in Transfers \cup M!Requests \cup {"wallet"} : log' = M!Moved("transfer", of),
           UNCHANGED <<drops, dr>>
    PROVE  BurnInv'
<1>1. \A r \in Redemptions : (NoBurn(r) => NoBurn(r)') /\ (Told(r) => Told(r)')
  BY NoNewBurn DEF MarketTyped, Told
<1>2. Before'
  BY <1>1 DEF BurnInv, Before
<1>3. dr.pc \in {"build", "burn"} => NoBurn(dr.req)'
  <2>1. dr.pc \in {"build", "burn"} => dr.req \in Redemptions /\ NoBurn(dr.req)
    BY DEF BurnInv, Holding
  <2> QED
    BY <1>1, <2>1
<1>4. Holding'
  BY <1>3 DEF BurnInv, Holding, NoBurn, BurnOf
<1> QED
  BY <1>1, <1>2, <1>4, BurnInvKept

LEMMA MintBegins ==
    ASSUME MarketTyped, BurnInv, M!Next, NEW r \in Mints, M!Mint(r)
    PROVE  BurnInv'
<1> DEFINE h == [pc |-> "reissue", req |-> r, txid |-> M!None]
<1>1. h \in DrHolders /\ h.pc = "reissue" /\ h.req = r /\ r \in M!Requests /\ r \notin Redemptions
  BY MarketFacts DEF DrHolders, DrSteps
<1>2. /\ dr.pc = "idle" /\ dr' = h /\ UNCHANGED log /\ DrOnly
      /\ drops[r].state \in {"none", "pending", "failed"}
      /\ \/ UNCHANGED drops
         \/ drops[r].state = "none" /\ M!Op(r, "pending")
  BY DrKeepsOnly DEF M!Mint, M!world, M!Op
<1> HIDE DEF h
<1>3. /\ drops' \in [M!Requests -> DrOps] /\ drops'[r].state # "broadcast"
      /\ \A q \in M!Requests : q # r => drops'[q] = drops[q]
  BY <1>1, <1>2, OpStamped DEF MarketTyped, DrTyped
<1>4. \A q \in Redemptions : q \in M!Requests /\ drops'[q] = drops[q]
  BY <1>1, <1>3, MarketFacts
<1>6. Holding'
  BY <1>1, <1>2, <1>3 DEF Holding
<1>7. \A q \in Redemptions : (NoBurn(q) => NoBurn(q)') /\ (Told(q) => Told(q)')
  BY <1>2, <1>4, NoNewBurn DEF MarketTyped, Told
<1>8. Before'
  BY <1>4, <1>7 DEF BurnInv, Before
<1> QED
  BY <1>1, <1>2, <1>6, <1>7, <1>8, BurnInvKept

LEMMA ReissueGoes ==
    ASSUME MarketTyped, BurnInv, M!Next, M!Reissue \/ M!BuildFails
    PROVE  BurnInv'
<1>1. PICK pc \in {"minted", "failing"} :
        /\ dr' = [dr EXCEPT !.pc = pc] /\ dr.pc \in {"reissue", "build"} /\ UNCHANGED <<log, drops>> /\ DrOnly
  BY DrKeepsOnly DEF M!Reissue, M!BuildFails, M!DrGoes, M!world
<1>2. dr \in DrHolders /\ pc \in DrSteps
  BY <1>1, HolderStands DEF DrSteps
<1>3. dr' \in DrHolders /\ dr'.pc = pc /\ dr'.req = dr.req
  BY <1>1, <1>2, HolderGoes
<1>5. Holding'
  BY <1>1, <1>3 DEF BurnInv, Holding
<1>6. \A q \in Redemptions : (NoBurn(q) => NoBurn(q)') /\ (Told(q) => Told(q)')
  BY <1>1, NoNewBurn DEF MarketTyped, Told
<1>7. Before'
  BY <1>1, <1>6 DEF BurnInv, Before
<1> QED
  BY <1>1, <1>3, <1>5, <1>6, <1>7, BurnInvKept

\* An operation ends: recorded as broadcast, or as failed.
LEMMA DrEnds ==
    ASSUME MarketTyped, BurnInv, M!Next, M!MintRecord \/ M!BurnRecord \/ M!DrFails
    PROVE  BurnInv'
<1>1. /\ dr.pc \in {"minted", "burned", "failing"} /\ dr' = M!Nobody /\ UNCHANGED log /\ DrOnly
  BY DrKeepsOnly DEF M!MintRecord, M!BurnRecord, M!DrFails, M!world
<1>2. dr \in DrHolders /\ dr.req \in M!Requests /\ dr.txid \in Nat
  BY <1>1, HolderStands
<1>3. /\ drops' \in [M!Requests -> DrOps]
      /\ drops'[dr.req].state \in {"broadcast", "failed"}
      /\ dr.pc \in {"minted", "burned"} => drops'[dr.req].state = "broadcast"
      /\ \A q \in M!Requests : q # dr.req => drops'[q] = drops[q]
  <2>1. CASE M!MintRecord
    BY <1>2, <2>1, OpStamped DEF M!MintRecord, MarketTyped
  <2>2. CASE M!DrFails
    BY <1>2, <2>2, OpStamped DEF M!DrFails, MarketTyped
  <2>3. CASE M!BurnRecord
    <3> DEFINE e == [state |-> "broadcast", txid |-> dr.txid]
    <3>1. e \in DrOps /\ e.state = "broadcast"
      BY <1>2 DEF DrOps
    <3>2. drops' = [drops EXCEPT ![dr.req] = e]
      BY <2>3 DEF M!BurnRecord, M!OpDone
    <3> HIDE DEF e
    <3> QED
      BY <1>2, <3>1, <3>2 DEF MarketTyped, DrTyped
  <2> QED
    BY <2>1, <2>2, <2>3
<1>5. dr'.pc = "idle"
  BY <1>1, MarketFacts
<1>6. Holding'
  BY <1>5 DEF Holding
<1>7. \A q \in Redemptions : NoBurn(q) => NoBurn(q)'
  BY <1>1, NoNewBurn DEF MarketTyped
<1>8. Before'
  BY <1>3, <1>7, MarketFacts DEF BurnInv, Before
<1>9. \A q \in Redemptions : Told(q) => Told(q)'
  <2> SUFFICES ASSUME NEW q \in Redemptions, Told(q) PROVE Told(q)'
    OBVIOUS
  <2>1. CASE q = dr.req
    <3>1. dr.pc # "failing"
      BY <1>1, <2>1 DEF Told, BurnInv, Holding
    <3> QED
      BY <1>1, <1>3, <2>1, <3>1 DEF Told
  <2>2. CASE q # dr.req
    BY <1>3, <2>2, MarketFacts DEF Told
  <2> QED
    BY <2>1, <2>2
<1> QED
  BY <1>1, <1>5, <1>6, <1>7, <1>8, <1>9, BurnInvKept

\* A redemption begins: at the build, or by looking at the log when it was tried before.
LEMMA RedeemBegins ==
    ASSUME MarketTyped, BurnInv, M!Next, NEW r \in Redemptions, M!Redeem(r)
    PROVE  BurnInv'
<1> DEFINE pc == IF drops[r].state \in {"none", "pending"} THEN "build" ELSE "look"
           h == [pc |-> pc, req |-> r, txid |-> M!None]
<1>1. /\ h \in DrHolders /\ h.pc = pc /\ h.req = r /\ r \in M!Requests
      /\ pc \in {"build", "look"} /\ (pc = "build" => drops[r].state \in {"none", "pending"})
  BY MarketFacts DEF DrHolders, DrSteps
<1>2. /\ dr.pc = "idle" /\ dr' = h /\ UNCHANGED log /\ DrOnly /\ drops[r].state # "broadcast"
      /\ M!Spent("redeem")
      /\ \/ UNCHANGED drops
         \/ drops[r].state = "none" /\ M!Op(r, "pending")
  BY DrKeepsOnly DEF M!Redeem, M!world, M!Op
<1> HIDE DEF h, pc
<1>3. /\ drops' \in [M!Requests -> DrOps] /\ drops'[r].state # "broadcast"
      /\ drops'[r].state \in {"none", "pending"} => drops[r].state \in {"none", "pending"}
      /\ \A q \in M!Requests : q # r => drops'[q] = drops[q]
  BY <1>1, <1>2, OpStamped DEF MarketTyped, DrTyped
<1>5. \A q \in Redemptions : NoBurn(q) => NoBurn(q)'
  BY <1>2, NoNewBurn DEF MarketTyped
<1>6. Holding'
  <2>1. dr'.pc = "build" => NoBurn(r)'
    BY <1>1, <1>2, <1>5 DEF BurnInv, Before
  <2>2. dr'.req = r /\ dr'.pc \in {"build", "look"}
    BY <1>1, <1>2
  <2> QED
    BY <1>3, <2>1, <2>2 DEF Holding, NoBurn, BurnOf
<1>7. Before'
  BY <1>3, <1>5, MarketFacts DEF BurnInv, Before
<1>8. \A q \in Redemptions : Told(q) => Told(q)'
  BY <1>1, <1>2, <1>3, MarketFacts DEF Told
<1>9. budget["redeem"] > 0
  BY <1>2, Paid DEF MarketTyped
<1>10. budget["redeem"] # 0
  BY <1>9
<1> QED
  BY <1>2, <1>5, <1>6, <1>7, <1>8, <1>10, BurnInvKept

\* The intent is written, and then the policy server is asked to burn.
LEMMA BurnIntended ==
    ASSUME MarketTyped, BurnInv, M!Next, M!BurnIntend
    PROVE  BurnInv'
<1>1. /\ dr.pc = "build" /\ M!Op(dr.req, "burning") /\ dr' = [dr EXCEPT !.pc = "burn"]
      /\ UNCHANGED log /\ DrOnly
  BY DrKeepsOnly DEF M!BurnIntend, M!DrGoes, M!world, M!Burning
<1>2. dr \in DrHolders /\ dr.req \in M!Requests /\ "burn" \in DrSteps
  BY <1>1, HolderStands DEF DrSteps
<1>3. dr' \in DrHolders /\ dr'.pc = "burn" /\ dr'.req = dr.req
  BY <1>1, <1>2, HolderGoes
<1>4. /\ drops' \in [M!Requests -> DrOps] /\ drops'[dr.req].state = "burning"
      /\ \A q \in M!Requests : q # dr.req => drops'[q] = drops[q]
  BY <1>1, <1>2, OpStamped DEF MarketTyped
<1>6. \A q \in Redemptions : NoBurn(q) => NoBurn(q)'
  BY <1>1, NoNewBurn DEF MarketTyped
<1>7. NoBurn(dr.req)' /\ dr.req \in Redemptions
  BY <1>1, <1>3, <1>6 DEF BurnInv, Holding, NoBurn, BurnOf
<1>8. Holding'
  BY <1>3, <1>4, <1>7 DEF Holding
<1>9. Before'
  BY <1>4, <1>6, MarketFacts DEF BurnInv, Before
<1>10. \A q \in Redemptions : Told(q) => Told(q)'
  <2> SUFFICES ASSUME NEW q \in Redemptions, Told(q) PROVE Told(q)'
    OBVIOUS
  <2>1. q # dr.req
    BY <1>1 DEF Told, BurnInv, Holding
  <2> QED
    BY <1>1, <1>4, <2>1, MarketFacts DEF Told
<1> QED
  BY <1>1, <1>6, <1>8, <1>9, <1>10, BurnInvKept

\* The log is read for a burn of the request: with what it says, or in vain.
LEMMA Looked ==
    ASSUME MarketTyped, BurnInv, M!Next, NEW from \in {"look", "unsure"}, NEW missing \in {"build", "failing"},
           from = "unsure" => missing = "failing", M!RedeemLook(from, missing)
    PROVE  BurnInv'
<1>1. PICK found \in {M!None, M!InLog("burn")} :
        /\ M!Scanned("burn", found)
        /\ dr' = [dr EXCEPT !.txid = found, !.pc = IF found # M!None THEN "burned" ELSE missing]
  BY DEF M!RedeemLook
<1>2. dr.pc = from /\ UNCHANGED <<log, drops>> /\ DrOnly
  BY DrKeepsOnly DEF M!RedeemLook, M!world
<1>3. dr \in DrHolders /\ dr.req \in M!Requests /\ dr.req \in Redemptions /\ drops[dr.req].state # "broadcast"
  BY <1>2, HolderStands DEF BurnInv, Holding
<1>4. /\ found \in Nat /\ (found = 0 \/ found = M!InLog("burn"))
      /\ M!InLog("burn") = 0 => \A q \in Redemptions : NoBurn(q)
  <2>1. \/ M!InLog("burn") \in DOMAIN log
        \/ M!InLog("burn") = 0 /\ \A i \in DOMAIN log : log[i].action # "burn"
    BY InLogFinds DEF MarketTyped
  <2>2. \A i \in DOMAIN log : i \in Nat /\ i # 0
    BY DEF MarketTyped, LogTyped
  <2> QED
    BY <1>1, <2>1, <2>2, MarketFacts DEF NoBurn, BurnOf
<1> DEFINE pc == IF found # M!None THEN "burned" ELSE missing
<1>5. pc \in DrSteps /\ (found # 0 => pc = "burned") /\ (found = 0 => pc = missing)
  BY MarketFacts DEF DrSteps
<1>6. dr' = [dr EXCEPT !.txid = found, !.pc = pc]
  BY <1>1
<1> HIDE DEF pc
<1>7. dr' \in DrHolders /\ dr'.pc = pc /\ dr'.req = dr.req
  BY <1>3, <1>4, <1>5, <1>6, HolderTold
<1>9. /\ \/ found = M!InLog("burn") /\ UNCHANGED budget
         \/ found = 0 /\ budget["unread"] > 0 /\ budget'["unread"] = budget["unread"] - 1
      /\ budget["unread"] \in Nat
  BY <1>1, Read, Paid DEF MarketTyped
<1>10. /\ \A q \in Redemptions : NoBurn(q) => NoBurn(q)'
       /\ \A q \in Redemptions : q # dr.req /\ Told(q) => Told(q)'
       /\ found # 0 => Told(dr.req)'
  BY <1>2, <1>5, <1>7, NoNewBurn DEF MarketTyped, Told
<1>11. dr'.pc = "build" => NoBurn(dr.req)
  <2> SUFFICES ASSUME dr'.pc = "build" PROVE NoBurn(dr.req)
    OBVIOUS
  <2>1. found = 0 /\ missing = "build" /\ from = "look"
    BY <1>5, <1>7
  <2>2. CASE UNCHANGED budget /\ found = M!InLog("burn")
    BY <1>3, <1>4, <2>1, <2>2
  <2>3. CASE budget["unread"] > 0
    <3>1. \A q \in Redemptions : NoBurn(q) \/ Told(q)
      <4>1. budget["unread"] # 0
        BY <1>9, <2>3
      <4> QED
        BY <1>2, <2>1, <4>1 DEF BurnInv, Legible
    <3> QED
      BY <1>2, <1>3, <2>1, <3>1 DEF Told
  <2> QED
    BY <1>9, <2>2, <2>3
<1>12. Holding'
  <2>1. dr'.pc = "build" => NoBurn(dr.req)'
    BY <1>2, <1>7, <1>11 DEF NoBurn, BurnOf
  <2>2. dr'.pc \in {"burned", "build", "failing"}
    BY <1>5, <1>7
  <2> QED
    BY <1>2, <1>3, <1>7, <2>1, <2>2 DEF Holding
<1>13. Before'
  BY <1>2, <1>10 DEF BurnInv, Before
<1>14. budget["unread"] = 1 /\ (\A r \in Redemptions : NoBurn(r) \/ Told(r)) =>
         budget'["unread"] = 0 \/ \A r \in Redemptions : NoBurn(r)' \/ Told(r)'
  <2> SUFFICES ASSUME budget["unread"] = 1, \A r \in Redemptions : NoBurn(r) \/ Told(r)
               PROVE  budget'["unread"] = 0 \/ \A r \in Redemptions : NoBurn(r)' \/ Told(r)'
    OBVIOUS
  <2>1. CASE found = M!InLog("burn") /\ UNCHANGED budget
    <3>1. CASE found = 0
      BY <1>4, <1>10, <2>1, <3>1
    <3>2. CASE found # 0
      <4>1. Told(dr.req)'
        BY <1>10, <3>2
      <4>2. \A r \in Redemptions : r = dr.req => Told(r)'
        BY <1>2, <1>5, <1>7, <3>2 DEF Told
      <4> QED
        BY <1>10, <4>2
    <3> QED
      BY <3>1, <3>2
  <2>2. CASE budget'["unread"] = budget["unread"] - 1
    BY <2>2
  <2> QED
    BY <1>9, <2>1, <2>2
<1> QED
  BY <1>2, <1>12, <1>13, <1>14, BurnInvKept

\* The policy server burns what the request asked for, or nothing.
LEMMA Burned ==
    ASSUME MarketTyped, BurnInv, M!Next, M!Burn
    PROVE  BurnInv'
<1>1. /\ dr.pc = "burn" /\ UNCHANGED drops /\ DrOnly
  BY DrKeepsOnly DEF M!Burn
<1>2. /\ dr \in DrHolders /\ dr.req \in M!Requests /\ dr.req \in Redemptions /\ dr.txid \in Nat
      /\ NoBurn(dr.req) /\ drops[dr.req].state = "burning" /\ {"burned", "unsure"} \subseteq DrSteps
  BY <1>1, HolderStands DEF BurnInv, Holding, DrSteps
<1>3. CASE UNCHANGED log /\ M!DrGoes("unsure")
  <2>1. dr' \in DrHolders /\ dr'.pc = "unsure" /\ dr'.req = dr.req
    BY <1>2, <1>3, HolderGoes DEF M!DrGoes
  <2>3. Holding'
    BY <1>1, <1>2, <2>1 DEF Holding
  <2>4. \A q \in Redemptions : (NoBurn(q) => NoBurn(q)') /\ (Told(q) => Told(q)')
    BY <1>1, <1>3, <2>1, NoNewBurn DEF MarketTyped, Told
  <2>5. Before'
    BY <1>1, <2>4 DEF BurnInv, Before
  <2> QED
    BY <1>1, <1>3, <2>3, <2>4, <2>5, BurnInvKept
<1>4. CASE log' = M!Moved("burn", dr.req)
  <2> DEFINE n == Len(log)
  <2>1. /\ LogTyped' /\ n \in Nat /\ Len(log') = n + 1 /\ DOMAIN log = 1..n /\ DOMAIN log' = 1..(n + 1)
        /\ log'[n + 1].action = "burn" /\ log'[n + 1].of = dr.req
        /\ \A i \in DOMAIN log : log'[i] = log[i]
    BY <1>2, <1>4, LineAdded DEF MarketTyped
  <2>2. /\ dr' \in DrHolders /\ dr'.pc \in {"burned", "unsure"} /\ dr'.req = dr.req
    <3>1. CASE dr' = [dr EXCEPT !.pc = "burned", !.txid = Len(log')]
      BY <1>2, <1>4, <3>1, BurnTold
    <3>2. CASE M!DrGoes("unsure")
      BY <1>2, <3>2, HolderGoes DEF M!DrGoes
    <3>3. M!DrGoes("unsure") \/ dr' = [dr EXCEPT !.pc = "burned", !.txid = Len(log')]
      BY DEF M!Burn
    <3> QED
      BY <3>1, <3>2, <3>3
  <2> HIDE DEF n
  <2>4. \A i \in DOMAIN log' : \/ i \in DOMAIN log /\ log'[i] = log[i]
                               \/ i = n + 1 /\ log'[i].of = dr.req
    BY <2>1
  <2>5. \A q \in Redemptions : q # dr.req /\ NoBurn(q) => NoBurn(q)'
    BY <2>4 DEF NoBurn, BurnOf
  <2>6. BurnedOnce'
    BY <1>2, <2>4 DEF BurnInv, BurnedOnce, M!BurnedOnce, NoBurn, BurnOf
  <2>7. Holding'
    BY <1>1, <1>2, <2>2 DEF Holding
  <2>8. Before'
    BY <1>1, <1>2, <2>5 DEF BurnInv, Before
  <2>9. \A q \in Redemptions : (NoBurn(q) \/ Told(q)) => (NoBurn(q)' \/ Told(q)')
    <3> SUFFICES ASSUME NEW q \in Redemptions, NoBurn(q) \/ Told(q) PROVE NoBurn(q)' \/ Told(q)'
      OBVIOUS
    <3>1. CASE q = dr.req
      BY <2>2, <3>1 DEF Told
    <3>2. CASE q # dr.req
      BY <1>1, <2>5, <3>2 DEF Told
    <3> QED
      BY <3>1, <3>2
  <2>10. Legible'
    <3>1. \A j \in {"redeem", "unread", "crash"} : budget'[j] \in Nat /\ budget[j] \in Nat /\ budget'[j] <= budget[j]
      BY Shrinks
    <3>2. CASE budget["unread"] = 0
      BY <3>1, <3>2 DEF Legible
    <3>3. CASE budget["unread"] = 1 /\ budget["crash"] = 0 /\ \A q \in Redemptions : NoBurn(q) \/ Told(q)
      <4>1. budget'["unread"] \in {0, 1} /\ budget'["crash"] = 0
        BY <3>1, <3>3
      <4> QED
        BY <2>9, <3>3, <4>1 DEF Legible
    <3> QED
      BY <1>1, <3>2, <3>3 DEF BurnInv, Legible
  <2> QED
    BY <1>1, <1>2, <1>4, <2>6, <2>7, <2>8, <2>10 DEF BurnInv
<1> QED
  BY <1>3, <1>4 DEF M!Burn

LEMMA BurnCrashed ==
    ASSUME MarketTyped, BurnInv, M!Next, M!Crash
    PROVE  BurnInv'
<1>1. /\ UNCHANGED <<log, drops>> /\ dr'.pc = "idle" /\ budget["crash"] > 0
  BY CrashDoes, MarketFacts
<1>2. Holding'
  BY <1>1 DEF Holding
<1>3. Before'
  BY <1>1 DEF BurnInv, Before, NoBurn, BurnOf
<1>4. budget["crash"] # 0
  BY <1>1
<1> QED
  BY <1>1, <1>2, <1>3, <1>4, BurnInvKept

-----------------------------------------------------------------------------
(* The ledger of transfers, one request at a time.                          *)

Booked         == {booked[i] : i \in DOMAIN booked}
SettledWith(n) == \E t \in Transfers : transfers[t].state = "settled" /\ transfers[t].txid = n

\* Txids are lines of the log; only a settled row has one; a captured row and one of the browser never
\* share it; what is booked has a row.
Lines  == /\ captured \subseteq DOMAIN log
          /\ \A t \in Transfers : transfers[t].txid = 0 \/ transfers[t].txid \in DOMAIN log
Apart  == \A t \in Transfers : /\ transfers[t].state # "settled" => transfers[t].txid = 0
                               /\ transfers[t].txid \notin captured
Backed == \A n \in Booked : n \in captured \/ SettledWith(n)

\* A request between its steps, and the poller between its own.
Single    == \A c, d \in Clicks : clicks[c].pc # "idle" /\ clicks[d].pc # "idle" => c = d
Fresh(n)  == n \in DOMAIN log /\ n \notin Booked \cup captured
Placed(c) ==
    /\ clicks[c].pc = "intend" => transfers[clicks[c].row].state \notin {"none", "settled"}
    /\ clicks[c].pc \in {"call", "moved", "unsure", "found", "failing", "refused"} =>
         transfers[clicks[c].row].state = "completing"
    /\ clicks[c].pc = "moved" => /\ Fresh(clicks[c].txid)
                                 /\ \A t \in Transfers : transfers[t].txid # clicks[c].txid
                                 /\ poll.pc \in {"capture", "book"} => poll.at # clicks[c].txid
    /\ clicks[c].pc = "book" => /\ Fresh(clicks[c].txid)
                                /\ transfers[clicks[c].row].state = "settled"
                                /\ transfers[clicks[c].row].txid = clicks[c].txid
    /\ clicks[c].pc = "found" => clicks[c].txid \in DOMAIN log
Polling ==
    /\ poll.pc # "idle" => poll.upto <= Len(log)
    /\ poll.pc \in {"capture", "book"} => poll.at \in DOMAIN log
    /\ poll.pc = "book" => poll.at \in captured /\ poll.at \notin Booked

BookInv == BookedOnce /\ Lines /\ Apart /\ Backed /\ Single /\ Polling /\ \A c \in Clicks : Placed(c)

Grown == /\ Len(log) \in Nat /\ Len(log') \in Nat /\ Len(log) <= Len(log') /\ DOMAIN log \subseteq DOMAIN log'
         /\ DOMAIN log = 1..Len(log) /\ DOMAIN log' = 1..Len(log')

LEMMA LogGrows ==
    ASSUME MarketTyped,
           \/ UNCHANGED log
           \/ \E act \in {"transfer", "burn"}, of \in Transfers \cup M!Requests \cup {"wallet"} :
                log' = M!Moved(act, of)
    PROVE  Grown
<1>1. CASE UNCHANGED log
  BY <1>1 DEF MarketTyped, LogTyped, Grown
<1>2. ASSUME NEW act \in {"transfer", "burn"}, NEW of \in Transfers \cup M!Requests \cup {"wallet"},
             log' = M!Moved(act, of)
      PROVE  Grown
  BY <1>2, LineAdded DEF MarketTyped, Grown
<1> QED
  BY <1>1, <1>2

LEMMA BookStutters ==
    ASSUME MarketTyped, BookInv, UNCHANGED <<transfers, captured, booked, clicks, poll>>, Grown
    PROVE  BookInv'
<1>1. BookedOnce' /\ Apart' /\ Backed' /\ Single'
  BY DEF BookInv, BookedOnce, M!BookedOnce, M!IsInjective, Apart, Backed, Booked, SettledWith, Single
<1>2. Lines'
  BY DEF BookInv, Lines, Grown
<1>3. Polling'
  <2>1. poll.pc # "idle" => poll.upto \in Nat
    BY MarketFacts DEF MarketTyped, PollTyped, M!Nobody
  <2>2. poll.pc # "idle" => poll.upto <= Len(log')
    BY <2>1 DEF BookInv, Polling, Grown
  <2> QED
    BY <2>2 DEF BookInv, Polling, Grown, Booked
<1>4. ASSUME NEW c \in Clicks PROVE Placed(c)'
  BY DEF BookInv, Placed, Fresh, Booked, Grown
<1> QED
  BY <1>1, <1>2, <1>3, <1>4 DEF BookInv

\* The one request in flight takes a step: the others have none to take.
LEMMA Alone ==
    ASSUME MarketTyped, BookInv, NEW c \in Clicks, clicks[c].pc # "idle",
           \A d \in Clicks : d # c => clicks'[d] = clicks[d]
    PROVE  Single' /\ \A d \in Clicks : d # c => clicks'[d].pc = "idle"
  BY DEF BookInv, Single

\* What is left to show of a step of the one request that books nothing.
LEMMA ClickKept ==
    ASSUME MarketTyped, MarketTyped', BookInv, NEW c \in Clicks, clicks[c].pc # "idle", Grown,
           UNCHANGED <<captured, booked, poll>>,
           \A d \in Clicks : d # c => clicks'[d] = clicks[d],
           Apart', Backed', Placed(c)',
           \A t \in Transfers : transfers'[t].txid = 0 \/ transfers'[t].txid \in DOMAIN log'
    PROVE  BookInv'
<1>1. Single' /\ \A d \in Clicks : d # c => clicks'[d].pc = "idle"
  BY Alone
<1>2. \A d \in Clicks : Placed(d)'
  BY <1>1 DEF Placed
<1>3. Lines' /\ BookedOnce'
  BY DEF BookInv, Lines, Grown, BookedOnce, M!BookedOnce
<1>4. Polling'
  <2>1. poll.pc # "idle" => poll.upto \in Nat
    BY MarketFacts DEF MarketTyped, PollTyped, M!Nobody
  <2>2. poll.pc # "idle" => poll.upto <= Len(log')
    BY <2>1 DEF BookInv, Polling, Grown
  <2> QED
    BY <2>2 DEF BookInv, Polling, Grown, Booked
<1> QED
  BY <1>1, <1>2, <1>3, <1>4 DEF BookInv

LEMMA ReadBooks ==
    ASSUME MarketTyped, BookInv, budget["overlap"] = 0, NEW c \in Clicks, NEW t \in Transfers, M!Read(c, t)
    PROVE  BookInv'
<1>1. /\ UNCHANGED <<transfers, captured, log, booked, poll>>
      /\ clicks'[c].pc = "intend" /\ clicks'[c].row = t /\ transfers[t].state \notin {"none", "settled"}
      /\ \A d \in Clicks : d # c => clicks'[d] = clicks[d] /\ clicks[d].pc = "idle"
  BY ReadDoes DEF Others
<1>2. Single'
  BY <1>1 DEF Single
<1>3. \A d \in Clicks : Placed(d)'
  BY <1>1 DEF Placed
<1>4. BookedOnce' /\ Lines' /\ Apart' /\ Backed' /\ Polling'
  BY <1>1 DEF BookInv, BookedOnce, M!BookedOnce, Lines, Apart, Backed, Booked, SettledWith, Polling
<1> QED
  BY <1>2, <1>3, <1>4 DEF BookInv

LEMMA IntendBooks ==
    ASSUME MarketTyped, BookInv, NEW c \in Clicks, M!Intend(c)
    PROVE  BookInv'
<1> DEFINE row == clicks[c].row
<1>1. /\ MarketTyped' /\ UNCHANGED <<captured, log, booked, poll>> /\ clicks[c].pc = "intend"
      /\ clicks'[c].pc = "call" /\ clicks'[c].row = row /\ row \in Transfers
      /\ \A d \in Clicks : d # c => clicks'[d] = clicks[d]
      /\ transfers'[row].state = "completing" /\ transfers'[row].txid = transfers[row].txid
      /\ \A o \in Transfers : o # row => transfers'[o] = transfers[o]
  BY IntendDoes, MarketFacts DEF Others
<1>2. transfers[row].state # "settled" /\ transfers[row].txid = 0
  BY <1>1 DEF BookInv, Placed, Apart
<1>3. Grown
  BY <1>1, LogGrows
<1>4. Placed(c)'
  BY <1>1 DEF Placed
<1> HIDE DEF row
<1>5. Apart'
  BY <1>1, <1>2 DEF BookInv, Apart
<1>6. Backed'
  BY <1>1, <1>2 DEF BookInv, Backed, Booked, SettledWith
<1>7. \A t \in Transfers : transfers'[t].txid = 0 \/ transfers'[t].txid \in DOMAIN log'
  BY <1>1 DEF BookInv, Lines
<1> QED
  BY <1>1, <1>3, <1>4, <1>5, <1>6, <1>7, ClickKept

LEMMA CallBooks ==
    ASSUME MarketTyped, BookInv, NEW c \in Clicks, M!CallMoves(c) \/ M!CallRefused(c) \/ M!CallFails(c)
    PROVE  BookInv'
<1>1. /\ MarketTyped' /\ UNCHANGED <<transfers, captured, booked, poll>> /\ clicks[c].pc = "call"
      /\ clicks'[c].row = clicks[c].row /\ \A d \in Clicks : d # c => clicks'[d] = clicks[d]
      /\ \/ UNCHANGED log /\ clicks'[c].pc \in {"refused", "unsure"}
         \/ /\ log' = M!Moved("transfer", clicks[c].row) /\ clicks[c].row \in Transfers
            /\ \/ clicks'[c].pc = "moved" /\ clicks'[c].txid = Len(log) + 1
               \/ clicks'[c].pc = "unsure"
  BY CallMovesDoes, CallEndsDoes DEF Others
<1>2. Grown
  BY <1>1, LogGrows
<1>3. transfers'[clicks'[c].row].state = "completing"
  BY <1>1 DEF BookInv, Placed
<1>4. clicks'[c].pc = "moved" => /\ clicks'[c].txid \in DOMAIN log' /\ clicks'[c].txid \notin DOMAIN log
                                 /\ clicks'[c].txid # 0
  <2> SUFFICES ASSUME clicks'[c].pc = "moved"
               PROVE  /\ clicks'[c].txid \in DOMAIN log' /\ clicks'[c].txid \notin DOMAIN log
                      /\ clicks'[c].txid # 0
    OBVIOUS
  <2>1. clicks'[c].txid = Len(log) + 1 /\ log' = M!Moved("transfer", clicks[c].row) /\ clicks[c].row \in Transfers
    BY <1>1
  <2>2. Len(log) \in Nat /\ DOMAIN log = 1..Len(log) /\ DOMAIN log' = 1..(Len(log) + 1)
    BY <2>1, LineAdded DEF MarketTyped
  <2> QED
    BY <2>1, <2>2
<1>5. \A n \in Booked : n = 0 \/ n \in DOMAIN log
  BY DEF BookInv, Backed, SettledWith, Lines
<1>6. Placed(c)'
  <2>1. clicks'[c].pc = "moved" =>
          /\ Fresh(clicks[c].txid)'
          /\ \A t \in Transfers : transfers'[t].txid # clicks'[c].txid
          /\ poll'.pc \in {"capture", "book"} => poll'.at # clicks'[c].txid
    BY <1>1, <1>4, <1>5 DEF Fresh, Booked, BookInv, Lines, Polling
  <2> QED
    BY <1>1, <1>3, <2>1 DEF Placed
<1>7. Apart' /\ Backed' /\ \A t \in Transfers : transfers'[t].txid = 0 \/ transfers'[t].txid \in DOMAIN log'
  BY <1>1, <1>2 DEF BookInv, Apart, Backed, Booked, SettledWith, Lines, Grown
<1> QED
  BY <1>1, <1>2, <1>6, <1>7, ClickKept

\* A row takes a txid no other row has.
LEMMA SettleBooks ==
    ASSUME MarketTyped, BookInv, NEW c \in Clicks, M!RecordMoved(c) \/ M!RecordFound(c)
    PROVE  BookInv'
<1> DEFINE row == clicks[c].row
           n == clicks[c].txid
<1>1. /\ MarketTyped' /\ UNCHANGED <<captured, log, booked, poll>>
      /\ clicks[c].pc \in {"moved", "found"} /\ row \in Transfers /\ n \in Nat
      /\ \/ clicks'[c] = M!Nobody
         \/ /\ clicks[c].pc = "moved" /\ clicks'[c].pc = "book" /\ clicks'[c].row = row
            /\ clicks'[c].txid = n
      /\ \A d \in Clicks : d # c => clicks'[d] = clicks[d]
      /\ SettledAs(row, n)
  BY RecordMovedDoes, RecordFoundDoes, MarketFacts DEF Others
<1>2. /\ transfers[row].state = "completing" /\ transfers[row].txid = 0 /\ n \in DOMAIN log
      /\ clicks[c].pc = "moved" => Fresh(n) /\ ~M!ClaimedByOther(n, row)
  <2>1. /\ transfers[row].state = "completing" /\ n \in DOMAIN log
        /\ clicks[c].pc = "moved" => Fresh(n) /\ \A t \in Transfers : transfers[t].txid # n
    BY <1>1 DEF BookInv, Placed, Fresh
  <2> QED
    BY <1>1, <2>1 DEF BookInv, Apart, Fresh, M!ClaimedByOther
<1>3. Grown
  BY <1>1, LogGrows
<1>4. Placed(c)'
  <2>1. CASE clicks'[c] = M!Nobody
    BY <2>1, MarketFacts DEF Placed
  <2>2. CASE clicks[c].pc = "moved" /\ clicks'[c].pc = "book" /\ clicks'[c].row = row /\ clicks'[c].txid = n
    BY <1>1, <1>2, <2>2 DEF Placed, Fresh, Booked, SettledAs
  <2> QED
    BY <1>1, <2>1, <2>2
<1> HIDE DEF row, n
<1>5. CASE UNCHANGED transfers
  <2>1. Apart' /\ Backed' /\ \A t \in Transfers : transfers'[t].txid = 0 \/ transfers'[t].txid \in DOMAIN log'
    BY <1>1, <1>5 DEF BookInv, Apart, Backed, Booked, SettledWith, Lines
  <2> QED
    BY <1>1, <1>3, <1>4, <2>1, ClickKept
<1>6. CASE /\ ~M!ClaimedByOther(n, row) /\ transfers'[row].state = "settled" /\ transfers'[row].txid = n
           /\ \A o \in Transfers : o # row => transfers'[o] = transfers[o]
  <2>1. Apart'
    BY <1>1, <1>6 DEF BookInv, Apart, M!ClaimedByOther
  <2>2. Backed'
    BY <1>1, <1>2, <1>6 DEF BookInv, Backed, Booked, SettledWith
  <2>3. \A t \in Transfers : transfers'[t].txid = 0 \/ transfers'[t].txid \in DOMAIN log'
    BY <1>1, <1>2, <1>6 DEF BookInv, Lines
  <2> QED
    BY <1>1, <1>3, <1>4, <2>1, <2>2, <2>3, ClickKept
<1> QED
  BY <1>1, <1>5, <1>6 DEF SettledAs

LEMMA EndsBooks ==
    ASSUME MarketTyped, BookInv, NEW c \in Clicks, M!RecordRefused(c) \/ M!RecordFailed(c)
    PROVE  BookInv'
<1> DEFINE row == clicks[c].row
<1>1. /\ MarketTyped' /\ UNCHANGED <<captured, log, booked, poll>>
      /\ clicks[c].pc \in {"refused", "failing"} /\ row \in Transfers /\ clicks'[c] = M!Nobody
      /\ \A d \in Clicks : d # c => clicks'[d] = clicks[d]
      /\ transfers'[row].state \in {"refused", "failed"} /\ transfers'[row].txid = transfers[row].txid
      /\ \A o \in Transfers : o # row => transfers'[o] = transfers[o]
  BY RecordEndsDoes, MarketFacts DEF Others
<1>2. transfers[row].state = "completing" /\ transfers[row].txid = 0
  BY <1>1 DEF BookInv, Placed, Apart
<1>3. Grown
  BY <1>1, LogGrows
<1>4. Placed(c)'
  BY <1>1, MarketFacts DEF Placed
<1> HIDE DEF row
<1>5. Apart'
  BY <1>1, <1>2 DEF BookInv, Apart
<1>6. Backed'
  BY <1>1, <1>2 DEF BookInv, Backed, Booked, SettledWith
<1>7. \A t \in Transfers : transfers'[t].txid = 0 \/ transfers'[t].txid \in DOMAIN log'
  BY <1>1 DEF BookInv, Lines
<1> QED
  BY <1>1, <1>3, <1>4, <1>5, <1>6, <1>7, ClickKept

LEMMA ReconcileBooks ==
    ASSUME MarketTyped, BookInv, NEW c \in Clicks, M!Reconcile(c)
    PROVE  BookInv'
<1>1. /\ MarketTyped' /\ UNCHANGED <<transfers, captured, log, booked, poll>> /\ clicks[c].pc = "unsure"
      /\ clicks'[c].pc \in {"found", "failing"} /\ clicks'[c].row = clicks[c].row
      /\ clicks'[c].pc = "found" => clicks'[c].txid \in DOMAIN log
      /\ \A d \in Clicks : d # c => clicks'[d] = clicks[d]
  BY ReconcileDoes DEF Others
<1>2. Grown
  BY <1>1, LogGrows
<1>3. Placed(c)'
  BY <1>1 DEF BookInv, Placed
<1>4. Apart' /\ Backed' /\ \A t \in Transfers : transfers'[t].txid = 0 \/ transfers'[t].txid \in DOMAIN log'
  BY <1>1 DEF BookInv, Apart, Backed, Booked, SettledWith, Lines
<1> QED
  BY <1>1, <1>2, <1>3, <1>4, ClickKept

\* A txid not on the ledger is added to it.
LEMMA BookedAdds ==
    ASSUME RowsTyped, BookedOnce, NEW n \in Nat, n \notin Booked, booked' = Append(booked, n)
    PROVE  BookedOnce' /\ Booked' = Booked \cup {n}
<1> DEFINE m == Len(booked)
<1>1. m \in Nat /\ DOMAIN booked = 1..m
  BY DEF RowsTyped
<1>2. /\ DOMAIN booked' = 1..(m + 1) /\ booked'[m + 1] = n
      /\ \A i \in 1..m : booked'[i] = booked[i]
  BY <1>1 DEF RowsTyped
<1> HIDE DEF m
<1>3. \A i \in DOMAIN booked' : \/ i \in DOMAIN booked /\ booked'[i] = booked[i]
                                \/ i = m + 1 /\ booked'[i] = n
  <2>1. \A i \in 1..(m + 1) : i \in 1..m \/ i = m + 1
    BY <1>1
  <2> QED
    BY <1>1, <1>2, <2>1
<1>4. /\ m + 1 \in DOMAIN booked' /\ m + 1 \notin DOMAIN booked
      /\ \A i \in DOMAIN booked : i \in DOMAIN booked' /\ booked'[i] = booked[i]
  BY <1>1, <1>2
<1>5. BookedOnce'
  BY <1>2, <1>3, <1>4 DEF BookedOnce, M!BookedOnce, M!IsInjective, Booked
<1>6. Booked' = Booked \cup {n}
  BY <1>2, <1>3, <1>4 DEF Booked
<1> QED
  BY <1>5, <1>6

LEMMA BookBooks ==
    ASSUME MarketTyped, BookInv, NEW c \in Clicks, M!Book(c)
    PROVE  BookInv'
<1> DEFINE n == clicks[c].txid
<1>1. /\ MarketTyped' /\ UNCHANGED <<transfers, captured, log, poll>> /\ clicks[c].pc = "book"
      /\ clicks'[c] = M!Nobody /\ \A d \in Clicks : d # c => clicks'[d] = clicks[d]
      /\ booked' = Append(booked, n) /\ n \in Nat /\ clicks[c].row \in Transfers
  BY BookDoes, MarketFacts DEF Others
<1>2. /\ n \notin Booked /\ n \notin captured /\ SettledWith(n)
  BY <1>1 DEF BookInv, Placed, Fresh, SettledWith
<1> HIDE DEF n
<1>3. BookedOnce' /\ Booked' = Booked \cup {n}
  BY <1>1, <1>2, BookedAdds DEF MarketTyped, BookInv
<1>4. Single' /\ \A d \in Clicks : clicks'[d].pc = "idle"
  BY <1>1, Alone, MarketFacts
<1>5. \A d \in Clicks : Placed(d)'
  BY <1>4 DEF Placed
<1>6. Lines' /\ Apart' /\ Backed'
  BY <1>1, <1>2, <1>3 DEF BookInv, Lines, Apart, Backed, SettledWith
<1>7. Polling'
  BY <1>1, <1>2, <1>3 DEF BookInv, Polling
<1> QED
  BY <1>3, <1>4, <1>5, <1>6, <1>7 DEF BookInv

LEMMA InitiateBooks ==
    ASSUME MarketTyped, BookInv, NEW t \in Transfers, M!Initiate(t)
    PROVE  BookInv'
<1>1. /\ UNCHANGED <<captured, log, booked, clicks, poll>>
      /\ transfers[t].state = "none" /\ transfers'[t].state = "awaiting_signature"
      /\ transfers'[t].txid = transfers[t].txid
      /\ \A o \in Transfers : o # t => transfers'[o] = transfers[o]
  BY InitiateDoes DEF Others
<1>2. BookedOnce' /\ Single' /\ Polling'
  BY <1>1 DEF BookInv, BookedOnce, M!BookedOnce, Single, Polling, Booked
<1>3. Lines' /\ Apart' /\ Backed'
  BY <1>1 DEF BookInv, Lines, Apart, Backed, Booked, SettledWith
<1>4. ASSUME NEW c \in Clicks PROVE Placed(c)'
  <2>1. clicks[c].pc # "idle" => clicks[c].row \in Transfers
    BY MarketFacts DEF MarketTyped, ClicksTyped, M!Nobody
  <2>2. clicks[c].pc # "idle" /\ clicks[c].row = t => clicks[c].pc \in ClickSteps
    BY MarketFacts DEF MarketTyped, ClicksTyped, M!Nobody
  <2>3. clicks[c].pc # "idle" => clicks[c].row # t
    BY <1>1, <2>2 DEF BookInv, Placed, ClickSteps
  <2>4. clicks[c].pc # "idle" => transfers'[clicks[c].row] = transfers[clicks[c].row]
    BY <1>1, <2>1, <2>3
  <2>5. Placed(c) /\ clicks' = clicks
    BY <1>1 DEF BookInv
  <2>6. \A o \in Transfers : transfers'[o].txid = transfers[o].txid
    BY <1>1
  <2> QED
    BY <1>1, <2>4, <2>5, <2>6 DEF Placed, Fresh, Booked
<1> QED
  BY <1>2, <1>3, <1>4 DEF BookInv

LEMMA OthersBook ==
    ASSUME MarketTyped, BookInv,
           \/ M!WalletMoves
           \/ DrOnly /\ (UNCHANGED log \/ \E of \in M!Requests : log' = M!Moved("burn", of))
    PROVE  BookInv'
<1>1. UNCHANGED <<transfers, captured, booked, clicks, poll>>
  BY WalletMovesDoes DEF Others, DrOnly
<1>2. Grown
  BY WalletMovesDoes, LogGrows
<1> QED
  BY <1>1, <1>2, BookStutters

LEMMA CrashBooks ==
    ASSUME MarketTyped, BookInv, M!Crash
    PROVE  BookInv'
<1>1. /\ UNCHANGED <<transfers, captured, log, booked>> /\ poll'.pc = "idle"
      /\ \A c \in Clicks : clicks'[c].pc = "idle"
  BY CrashDoes, MarketFacts
<1>2. BookedOnce' /\ Lines' /\ Apart' /\ Backed'
  BY <1>1 DEF BookInv, BookedOnce, M!BookedOnce, Lines, Apart, Backed, Booked, SettledWith
<1>3. Single' /\ Polling' /\ \A c \in Clicks : Placed(c)'
  BY <1>1 DEF Single, Polling, Placed
<1> QED
  BY <1>2, <1>3 DEF BookInv

\* The poller, at lines it only reads.
LEMMA PollReads ==
    ASSUME MarketTyped, BookInv, M!PollBegin \/ M!PollLine \/ M!PollEnd
    PROVE  BookInv'
<1>1. /\ PollOnly /\ UNCHANGED <<captured, booked>>
      /\ \/ poll'.pc = "idle"
         \/ poll'.pc = "line" /\ poll'.upto = Len(log)
         \/ poll \in Pollers /\ poll'.pc = "line" /\ poll'.upto = poll.upto
         \/ /\ poll \in Pollers /\ poll.at <= poll.upto /\ poll'.pc = "capture" /\ poll'.at = poll.at
            /\ poll'.upto = poll.upto /\ ~M!Owned
  BY PollBeginDoes, PollLineDoes, PollEndDoes, MarketFacts
<1>2. BookedOnce' /\ Lines' /\ Apart' /\ Backed' /\ Single'
  BY <1>1 DEF PollOnly, BookInv, BookedOnce, M!BookedOnce, Lines, Apart, Backed, Booked, SettledWith, Single
<1>3. poll \in Pollers => /\ poll.pc # "idle" /\ poll.upto \in Nat /\ poll.at \in Nat \ {0}
                          /\ poll.upto <= Len(log)
  BY MarketFacts DEF BookInv, Polling
<1>4. Len(log) \in Nat /\ DOMAIN log = 1..Len(log)
  BY DEF MarketTyped, LogTyped
<1>5. Polling'
  <2>1. CASE poll'.pc = "idle"
    BY <2>1 DEF Polling
  <2>2. CASE poll'.pc = "line"
    BY <1>1, <1>3, <1>4, <2>2 DEF Polling, PollOnly
  <2>3. CASE poll \in Pollers /\ poll.at <= poll.upto /\ poll'.pc = "capture" /\ poll'.at = poll.at /\ poll'.upto = poll.upto
    BY <1>1, <1>3, <1>4, <2>3 DEF Polling, PollOnly
  <2> QED
    BY <1>1, <2>1, <2>2, <2>3
<1>6. ASSUME NEW c \in Clicks PROVE Placed(c)'
  <2>1. clicks[c].pc = "moved" => M!Owned
    <3>1. clicks[c].pc = "moved" => clicks[c].row \in Transfers
      BY MarketFacts DEF MarketTyped, ClicksTyped, M!Nobody
    <3> QED
      BY <3>1 DEF BookInv, Placed, M!Owned
  <2>2. clicks[c].pc = "moved" => poll'.pc \in {"idle", "line"}
    BY <1>1, <2>1
  <2> QED
    BY <1>1, <2>2 DEF PollOnly, BookInv, Placed, Fresh, Booked
<1> QED
  BY <1>2, <1>5, <1>6 DEF BookInv

\* A captured row takes a txid no row has.
LEMMA PollCaptures ==
    ASSUME MarketTyped, BookInv, M!PollCapture
    PROVE  BookInv'
<1>1. /\ PollOnly /\ UNCHANGED booked /\ poll \in Pollers /\ poll.pc = "capture"
      /\ poll'.upto = poll.upto /\ poll'.pc \in {"line", "book"}
      /\ poll'.pc = "line" => UNCHANGED captured
      /\ poll'.pc = "book" => /\ poll'.at = poll.at /\ captured' = captured \cup {poll.at}
                              /\ ~M!Claimed(poll.at)
  BY PollCaptureDoes
<1>2. /\ poll.upto <= Len(log) /\ poll.at \in DOMAIN log
  BY <1>1 DEF BookInv, Polling
<1>3. BookedOnce' /\ Single' /\ Booked' = Booked
  BY <1>1 DEF PollOnly, BookInv, BookedOnce, M!BookedOnce, Single, Booked
<1>4. poll'.pc = "book" => poll.at \notin Booked /\ poll.at \notin captured
                           /\ \A t \in Transfers : transfers[t].txid # poll.at
  BY <1>1 DEF BookInv, Backed, SettledWith, M!Claimed
<1>5. captured' = captured \/ (poll'.pc = "book" /\ captured' = captured \cup {poll.at})
  BY <1>1
<1>6. Lines' /\ Apart'
  BY <1>1, <1>2, <1>4, <1>5 DEF PollOnly, BookInv, Lines, Apart
<1>7. Backed'
  BY <1>1, <1>3, <1>5 DEF PollOnly, BookInv, Backed, SettledWith
<1>8. Polling'
  BY <1>1, <1>2, <1>3, <1>4 DEF PollOnly, Polling
<1>9. ASSUME NEW c \in Clicks PROVE Placed(c)'
  <2>1. clicks[c].pc = "moved" /\ poll'.pc = "book" => clicks[c].txid # poll.at
    BY <1>1 DEF BookInv, Placed
  <2>2. clicks[c].pc = "book" /\ poll'.pc = "book" => clicks[c].txid # poll.at
    <3>1. clicks[c].pc = "book" => clicks[c].row \in Transfers
      BY MarketFacts DEF MarketTyped, ClicksTyped, M!Nobody
    <3> QED
      BY <1>4, <3>1 DEF BookInv, Placed
  <2>3. clicks[c].pc \in {"moved", "book"} => Fresh(clicks[c].txid)'
    BY <1>1, <1>3, <1>5, <2>1, <2>2 DEF PollOnly, BookInv, Placed, Fresh
  <2>4. clicks[c].pc = "moved" /\ poll'.pc \in {"capture", "book"} => poll'.at # clicks[c].txid
    BY <1>1, <2>1
  <2> QED
    BY <1>1, <2>3, <2>4 DEF PollOnly, BookInv, Placed
<1> QED
  BY <1>3, <1>6, <1>7, <1>8, <1>9 DEF BookInv

LEMMA PollBooks ==
    ASSUME MarketTyped, BookInv, M!PollBook
    PROVE  BookInv'
<1>1. /\ PollOnly /\ UNCHANGED captured /\ poll \in Pollers /\ poll.pc = "book"
      /\ poll'.pc = "line" /\ poll'.upto = poll.upto /\ booked' = Append(booked, poll.at) /\ poll.at \in Nat
  BY PollBookDoes
<1>2. poll.upto <= Len(log) /\ poll.at \in captured /\ poll.at \notin Booked
  BY <1>1 DEF BookInv, Polling
<1>3. BookedOnce' /\ Booked' = Booked \cup {poll.at}
  BY <1>1, <1>2, BookedAdds DEF MarketTyped, BookInv
<1>4. Lines' /\ Apart' /\ Single' /\ Polling'
  BY <1>1, <1>2 DEF PollOnly, BookInv, Lines, Apart, Single, Polling
<1>5. Backed'
  BY <1>1, <1>2, <1>3 DEF PollOnly, BookInv, Backed, SettledWith
<1>6. ASSUME NEW c \in Clicks PROVE Placed(c)'
  <2>1. clicks[c].pc \in {"moved", "book"} => Fresh(clicks[c].txid)'
    BY <1>1, <1>2, <1>3 DEF PollOnly, BookInv, Placed, Fresh
  <2> QED
    BY <1>1, <2>1 DEF PollOnly, BookInv, Placed
<1> QED
  BY <1>3, <1>4, <1>5, <1>6 DEF BookInv

-----------------------------------------------------------------------------
(* The market as a whole.                                                   *)

\* Another part's behaviour moves nothing.
Elsewhere == part # "market" /\ log = <<>> /\ booked = <<>>
Moving    == part = "market" /\ MarketTyped

LEMMA MarketSteps ==
    ASSUME MarketTyped, M!Next
    PROVE  MarketTyped'
<1>1. ASSUME NEW t \in Transfers, M!Initiate(t) PROVE MarketTyped'
  BY <1>1, InitiateDoes
<1>2. ASSUME NEW c \in Clicks, M!Complete(c) PROVE MarketTyped'
  <2>1. ASSUME NEW t \in Transfers, M!Read(c, t) PROVE MarketTyped'
    BY <2>1, ReadDoes
  <2> QED
    BY <1>2, <2>1, IntendDoes, CallMovesDoes, CallEndsDoes, RecordMovedDoes, BookDoes, RecordEndsDoes,
       ReconcileDoes, RecordFoundDoes DEF M!Complete
<1>3. CASE M!WalletMoves
  BY <1>3, WalletMovesDoes
<1>4. CASE M!Poll
  BY <1>4, PollBeginDoes, PollLineDoes, PollCaptureDoes, PollBookDoes, PollEndDoes DEF M!Poll
<1>5. CASE M!Receipts
  BY <1>5, ReceiptsDo
<1>6. CASE M!Crash
  BY <1>6, CrashDoes
<1> QED
  BY <1>1, <1>2, <1>3, <1>4, <1>5, <1>6 DEF M!Next

LEMMA BookSteps ==
    ASSUME MarketTyped, BookInv, budget["overlap"] = 0, M!Next
    PROVE  BookInv'
<1>1. ASSUME NEW t \in Transfers, M!Initiate(t) PROVE BookInv'
  BY <1>1, InitiateBooks
<1>2. ASSUME NEW c \in Clicks, M!Complete(c) PROVE BookInv'
  <2>1. ASSUME NEW t \in Transfers, M!Read(c, t) PROVE BookInv'
    BY <2>1, ReadBooks
  <2> QED
    BY <1>2, <2>1, IntendBooks, CallBooks, SettleBooks, BookBooks, EndsBooks, ReconcileBooks DEF M!Complete
<1>3. CASE M!WalletMoves
  BY <1>3, OthersBook
<1>4. CASE M!Poll
  BY <1>4, PollReads, PollCaptures, PollBooks DEF M!Poll
<1>5. CASE M!Receipts
  BY <1>5, ReceiptsDo, OthersBook
<1>6. CASE M!Crash
  BY <1>6, CrashBooks
<1> QED
  BY <1>1, <1>2, <1>3, <1>4, <1>5, <1>6 DEF M!Next

LEMMA BurnSteps ==
    ASSUME MarketTyped, BurnInv, M!Next
    PROVE  BurnInv'
<1>1. ASSUME UNCHANGED <<drops, dr>>,
             UNCHANGED log \/ \E of \in Transfers \cup M!Requests \cup {"wallet"} : log' = M!Moved("transfer", of)
      PROVE  BurnInv'
  BY <1>1, BurnElsewhere
<1>2. ASSUME NEW t \in Transfers, M!Initiate(t) PROVE BurnInv'
  BY <1>1, <1>2, InitiateDoes DEF Others
<1>3. ASSUME NEW c \in Clicks, M!Complete(c) PROVE BurnInv'
  <2>1. ASSUME NEW t \in Transfers, M!Read(c, t) PROVE BurnInv'
    BY <1>1, <2>1, ReadDoes DEF Others
  <2>2. CASE M!CallMoves(c)
    BY <1>1, <2>2, CallMovesDoes DEF Others
  <2>3. CASE M!Intend(c) \/ M!CallRefused(c) \/ M!CallFails(c)
    BY <1>1, <2>3, IntendDoes, CallEndsDoes DEF Others
  <2>4. CASE M!RecordMoved(c) \/ M!RecordFound(c) \/ M!RecordRefused(c) \/ M!RecordFailed(c)
    BY <1>1, <2>4, RecordMovedDoes, RecordFoundDoes, RecordEndsDoes DEF Others
  <2>5. CASE M!Book(c) \/ M!Reconcile(c)
    BY <1>1, <2>5, BookDoes, ReconcileDoes DEF Others
  <2> QED
    BY <1>3, <2>1, <2>2, <2>3, <2>4, <2>5 DEF M!Complete
<1>4. CASE M!WalletMoves
  BY <1>1, <1>4, WalletMovesDoes DEF Others
<1>5. CASE M!Poll
  <2>1. PollOnly
    BY <1>5, PollBeginDoes, PollLineDoes, PollCaptureDoes, PollBookDoes, PollEndDoes DEF M!Poll
  <2> QED
    BY <1>1, <2>1 DEF PollOnly
<1>6. CASE M!Receipts
  <2>1. ASSUME NEW r \in Mints, M!Mint(r) PROVE BurnInv'
    BY <2>1, MintBegins
  <2>2. ASSUME NEW r \in Redemptions, M!Redeem(r) PROVE BurnInv'
    BY <2>2, RedeemBegins
  <2>3. CASE M!RedeemLook("look", "build") \/ M!RedeemLook("unsure", "failing")
    BY <2>3, Looked
  <2> QED
    BY <1>6, <2>1, <2>2, <2>3, ReissueGoes, DrEnds, BurnIntended, Burned DEF M!Receipts
<1>7. CASE M!Crash
  BY <1>7, BurnCrashed
<1> QED
  BY <1>2, <1>3, <1>4, <1>5, <1>6, <1>7 DEF M!Next

\* What may come: nothing is redeemed, or the log can be read, always or, in a process that does not
\* restart, but once.
Readable == \/ budget["redeem"] = 0
            \/ budget["unread"] = 0
            \/ budget["unread"] = 1 /\ budget["crash"] = 0

\* No request to complete overlaps another.
OneClick == budget["overlap"] = 0

LEMMA MarketStarts ==
    ASSUME Init
    PROVE  /\ Elsewhere \/ (Moving /\ BookInv)
           /\ Readable => Elsewhere \/ (Moving /\ BurnInv)
<1>1. PICK b \in Budgets : part = b.part /\ budget = b.may
  BY DEF Init
<1>2. /\ transfers = [t \in Transfers |-> [state |-> "none", txid |-> M!None]]
      /\ captured = {} /\ log = <<>> /\ booked = <<>> /\ cursor = 0
      /\ clicks = [c \in Clicks |-> M!Nobody] /\ poll = M!Nobody /\ dr = M!Nobody
      /\ drops = [r \in M!Requests |-> [state |-> "none", txid |-> M!None]]
  BY DEF Init, M!Init
<1>3. CASE part # "market"
  BY <1>2, <1>3 DEF Elsewhere
<1>4. CASE part = "market"
  <2>1. MarketTyped
    <3>1. [state |-> "none", txid |-> M!None] \in BrowserRows /\ [state |-> "none", txid |-> M!None] \in DrOps
      BY MarketFacts DEF BrowserRows, DrOps
    <3>2. budget \in Counts
      BY <1>1, PlatformAssumption DEF Counts
    <3>3. log \in Seq(Moves) /\ booked \in Seq(Nat)
      BY <1>2
    <3>4. /\ transfers \in [Transfers -> BrowserRows] /\ drops \in [M!Requests -> DrOps]
          /\ clicks \in [Clicks -> {M!Nobody} \cup Clickers]
      BY <1>2, <3>1
    <3> QED
      BY <1>2, <3>2, <3>3, <3>4
         DEF MarketTyped, ClicksTyped, RowsTyped, LogTyped, PollTyped, DrTyped
  <2>2. DOMAIN log = {} /\ DOMAIN booked = {} /\ Len(log) = 0
    BY <1>2
  <2>3. /\ \A c \in Clicks : clicks[c].pc = "idle"
        /\ poll.pc = "idle" /\ dr.pc = "idle"
    BY <1>2, MarketFacts
  <2>4. /\ \A t \in Transfers : transfers[t].txid = 0 /\ transfers[t].state = "none"
        /\ \A r \in Redemptions : drops[r].state = "none" /\ drops[r].txid = 0
    BY <1>2, MarketFacts
  <2>5. BookInv
    <3>1. BookedOnce /\ Booked = {}
      BY <2>2 DEF BookedOnce, M!BookedOnce, M!IsInjective, Booked
    <3>2. Lines /\ Apart /\ Backed
      BY <1>2, <2>4, <3>1 DEF Lines, Apart, Backed
    <3>3. Single /\ Polling /\ \A c \in Clicks : Placed(c)
      BY <2>3 DEF Single, Polling, Placed
    <3> QED
      BY <3>1, <3>2, <3>3 DEF BookInv
  <2>6. ASSUME Readable PROVE BurnInv
    <3>1. \A r \in Redemptions : NoBurn(r)
      BY <2>2 DEF NoBurn
    <3>2. BurnedOnce
      BY <2>2 DEF BurnedOnce, M!BurnedOnce
    <3>3. Holding /\ Before
      BY <2>3, <2>4, <3>1 DEF Holding, Before
    <3>4. Legible
      BY <2>3, <2>6, <3>1 DEF Readable, Legible
    <3> QED
      BY <3>2, <3>3, <3>4 DEF BurnInv
  <2> QED
    BY <1>4, <2>1, <2>5, <2>6 DEF Moving
<1> QED
  BY <1>3, <1>4

\* One part moves in a behaviour.
LEMMA Parts ==
    ASSUME [Next]_vars
    PROVE  /\ Elsewhere => Elsewhere'
           /\ part = "market" => part' = "market" /\ (M!Next \/ UNCHANGED <<market, budget>>)
<1>1. CASE UNCHANGED vars
  BY <1>1 DEF vars, market, Elsewhere
<1>2. CASE Next
  BY <1>2 DEF Next, market, Elsewhere
<1> QED
  BY <1>1, <1>2

\* While the market stands still, so does what is known of it.
LEMMA MarketStands ==
    ASSUME UNCHANGED <<market, budget>>
    PROVE  /\ MarketTyped => MarketTyped'
           /\ BurnInv => BurnInv'
           /\ BookInv => BookInv'
<1>1. UNCHANGED <<transfers, captured, log, booked, clicks, cursor, poll, drops, dr, budget>>
  BY DEF market
<1>2. MarketTyped => MarketTyped'
  BY <1>1 DEF MarketTyped, ClicksTyped, RowsTyped, LogTyped, PollTyped, DrTyped
<1>3. BurnInv => BurnInv'
  BY <1>1 DEF BurnInv, BurnedOnce, M!BurnedOnce, Holding, Before, Legible, NoBurn, BurnOf, Told
<1>4. BookInv => BookInv'
  BY <1>1 DEF BookInv, BookedOnce, M!BookedOnce, Lines, Apart, Backed, SettledWith, Booked, Single, Polling,
              Placed, Fresh
<1> QED
  BY <1>2, <1>3, <1>4

\* A redemption burns once, whatever is retried, lost or restarted: the row's intent is recorded before
\* the burn, and a burn whose answer was lost is looked up in the log before it is tried again (dr.go).
THEOREM ARedemptionBurnsOnce == Spec /\ Readable => []BurnedOnce
<1> DEFINE Inv == Elsewhere \/ (Moving /\ BurnInv)
<1>1. Init /\ Readable => Inv
  BY MarketStarts
<1>2. Inv /\ [Next]_vars => Inv'
  <2> SUFFICES ASSUME Inv, [Next]_vars PROVE Inv'
    OBVIOUS
  <2>1. CASE Elsewhere
    BY <2>1, Parts
  <2>2. CASE Moving /\ BurnInv
    BY <2>2, Parts, MarketStands, MarketSteps, BurnSteps DEF Moving
  <2> QED
    BY <2>1, <2>2
<1>3. Inv => BurnedOnce
  BY DEF Elsewhere, BurnInv, BurnedOnce, M!BurnedOnce
<1> HIDE DEF Inv
<1> QED
  BY <1>1, <1>2, <1>3, PTL DEF Spec

\* A transfer is on the ledger once, whoever made it: the request that completes it or the poller that
\* finds it in the log, with calls lost, the log unread and the process restarted between any two steps,
\* as long as one request to complete is served at a time (secondary.go, walletpoll.go).
THEOREM ATransferIsBookedOnce == Spec => [](OneClick => BookedOnce)
<1> DEFINE Inv == Elsewhere \/ (Moving /\ (OneClick => BookInv))
<1>1. Init => Inv
  BY MarketStarts
<1>2. Inv /\ [Next]_vars => Inv'
  <2> SUFFICES ASSUME Inv, [Next]_vars PROVE Inv'
    OBVIOUS
  <2>1. CASE Elsewhere
    BY <2>1, Parts
  <2>2. CASE Moving /\ (OneClick => BookInv)
    <3>1. CASE M!Next
      <4>1. Moving' /\ (OneClick' => OneClick)
        BY <2>2, <3>1, Parts, MarketSteps, Shrinks DEF Moving, OneClick
      <4>2. OneClick => BookInv'
        BY <2>2, <3>1, BookSteps DEF Moving, OneClick
      <4> QED
        BY <4>1, <4>2
    <3>2. CASE UNCHANGED <<market, budget>>
      <4>1. Moving' /\ (OneClick' => OneClick)
        BY <2>2, <3>2, Parts, MarketStands DEF Moving, OneClick
      <4>2. OneClick => BookInv'
        BY <2>2, <3>2, MarketStands
      <4> QED
        BY <4>1, <4>2
    <3> QED
      BY <2>2, <3>1, <3>2, Parts DEF Moving
  <2> QED
    BY <2>1, <2>2
<1>3. Inv => (OneClick => BookedOnce)
  BY DEF Elsewhere, BookInv, BookedOnce, M!BookedOnce, M!IsInjective
<1> HIDE DEF Inv
<1> QED
  BY <1>1, <1>2, <1>3, PTL DEF Spec

-----------------------------------------------------------------------------
(* What a snapshot holds.                                                   *)

AllCoins == UNION {Outputs[t] : t \in Txs}

\* What is reissued is not moved: only what the offering began with changes hands.
ReissuesStay == \A t \in Txs : \A u \in C!Issues \ {Issuance} : Inputs[t] \cap Outputs[u] = {}

LEMMA WeightIs == \A S : C!Weight(S) = SumOf(Atoms, S)
  BY DEF C!Weight, C!MapThenSumSet, C!MapThenFoldSet, SumOf, MapThenSumSet, MapThenFoldSet

LEMMA FiniteIs == \A S : C!IsFiniteSet(S) <=> IsFiniteSet(S)
  BY DEF C!IsFiniteSet, IsFiniteSet

LEMMA TxFacts ==
    /\ IsFiniteSet(Txs) /\ Issuance \in C!Issues /\ C!Issues = {t \in Txs : Inputs[t] = {}}
    /\ \A t \in Txs : /\ IsFiniteSet(Outputs[t]) /\ Outputs[t] \subseteq AllCoins /\ Inputs[t] \subseteq AllCoins
                      /\ t \notin C!Issues => SumOf(Atoms, Outputs[t]) = SumOf(Atoms, Inputs[t])
    /\ \A t, u \in Txs : t # u => Outputs[t] \cap Outputs[u] = {}
<1>1. C!ActionsAssumption
  BY HoldersAssumption
<1>2. ASSUME NEW t \in Txs, t \notin C!Issues PROVE SumOf(Atoms, Outputs[t]) = SumOf(Atoms, Inputs[t])
  <2>1. C!Weight(Outputs[t]) = C!Weight(Inputs[t])
    BY <1>1, <1>2 DEF C!ActionsAssumption
  <2> QED
    BY <2>1, WeightIs
<1> QED
  BY <1>1, <1>2, FiniteIs DEF C!ActionsAssumption, C!Issues, AllCoins

LEMMA CoinFacts ==
    /\ IsFiniteSet(AllCoins) /\ \A c \in AllCoins : Atoms[c] \in Nat \ {0} /\ Rate[KeyOf[c]] \in 0..100
    /\ \A S \in SUBSET AllCoins : IsFiniteSet(S) /\ SumOf(Atoms, S) \in Nat
    /\ \A R, S : R \subseteq S /\ S \subseteq AllCoins => SumOf(Atoms, R) <= SumOf(Atoms, S)
    /\ \A R, S : R \subseteq AllCoins /\ S \subseteq AllCoins =>
           /\ SumOf(Atoms, R \cup S) <= SumOf(Atoms, R) + SumOf(Atoms, S)
           /\ R \cap S = {} => SumOf(Atoms, R \cup S) = SumOf(Atoms, R) + SumOf(Atoms, S)
<1>1. \A c \in AllCoins : Atoms[c] \in Nat \ {0} /\ Rate[KeyOf[c]] \in 0..100
  BY HoldersAssumption DEF C!ActionsAssumption, AllCoins
<1>2. IsFiniteSet(AllCoins)
  <2> DEFINE B == [t \in Txs |-> Outputs[t]]
             w == [t \in Txs |-> SumOf(Atoms, B[t])]
  <2>1. \A t \in Txs : IsFiniteSet(B[t]) /\ (\A c \in B[t] : Atoms[c] \in Nat) /\ w[t] = SumOf(Atoms, B[t])
    BY <1>1, TxFacts
  <2>2. AllCoins = Together(B, Txs)
    BY DEF AllCoins, Together
  <2>3. IsFiniteSet(Txs)
    BY TxFacts
  <2> HIDE DEF B, w
  <2>4. IsFiniteSet(Together(B, Txs))
    BY <2>1, <2>3, SumFamily
  <2> QED
    BY <2>2, <2>4
<1>3. ASSUME NEW S \in SUBSET AllCoins PROVE IsFiniteSet(S) /\ SumOf(Atoms, S) \in Nat
  <2>1. IsFiniteSet(S) /\ \A c \in S : Atoms[c] \in Nat
    BY <1>1, <1>2, FS_Subset
  <2> QED
    BY <2>1, SumNat
<1>4. ASSUME NEW R, NEW S, R \subseteq S, S \subseteq AllCoins PROVE SumOf(Atoms, R) <= SumOf(Atoms, S)
  <2>1. IsFiniteSet(S) /\ \A c \in S : Atoms[c] \in Nat
    BY <1>1, <1>3, <1>4
  <2> QED
    BY <1>4, <2>1, SumPart
<1>5. ASSUME NEW R, NEW S, R \subseteq AllCoins, S \subseteq AllCoins
      PROVE  SumOf(Atoms, R \cup S) = SumOf(Atoms, R) + SumOf(Atoms, S \ R)
  <2> DEFINE U == R \cup S
  <2>1. IsFiniteSet(U) /\ (\A c \in U : Atoms[c] \in Nat) /\ R \in SUBSET U
    BY <1>1, <1>3, <1>5
  <2>2. SumOf(Atoms, U) = SumOf(Atoms, R) + SumOf(Atoms, U \ R)
    <3> HIDE DEF U
    <3> QED
      BY <2>1, SumParts
  <2>3. U \ R = S \ R
    OBVIOUS
  <2> QED
    BY <2>2, <2>3, Zenon
<1>6. ASSUME NEW R, NEW S, R \subseteq AllCoins, S \subseteq AllCoins
      PROVE  /\ SumOf(Atoms, R \cup S) <= SumOf(Atoms, R) + SumOf(Atoms, S)
             /\ R \cap S = {} => SumOf(Atoms, R \cup S) = SumOf(Atoms, R) + SumOf(Atoms, S)
  <2>1. SumOf(Atoms, S \ R) <= SumOf(Atoms, S)
    BY <1>4, <1>6
  <2>2. SumOf(Atoms, R) \in Nat /\ SumOf(Atoms, S) \in Nat /\ SumOf(Atoms, S \ R) \in Nat
    BY <1>3, <1>6
  <2>3. ASSUME R \cap S = {} PROVE SumOf(Atoms, S \ R) = SumOf(Atoms, S)
    <3>1. S \ R = S
      BY <2>3
    <3> QED
      BY <3>1, Zenon
  <2>4. SumOf(Atoms, R \cup S) = SumOf(Atoms, R) + SumOf(Atoms, S \ R)
    BY <1>5, <1>6
  <2>5. R \cap S = {} => SumOf(Atoms, R \cup S) = SumOf(Atoms, R) + SumOf(Atoms, S)
    BY <2>3, <2>4
  <2> QED
    BY <2>1, <2>2, <2>4, <2>5
<1> QED
  BY <1>1, <1>2, <1>3, <1>4, <1>6

\* A walk that left nothing behind weighs what the offering began with: what it did not see unspent went
\* into a transaction that it saw too, and comes out of that one.
LEMMA WalkedIsWhole ==
    ASSUME NEW seen \in SUBSET Txs, Issuance \in seen, seen \cap C!Issues = {Issuance},
           NEW walked \in SUBSET AllCoins,
           \A t \in seen : \A c \in Outputs[t] : c \in walked \/ \E u \in seen : c \in Inputs[u]
    PROVE  SumOf(Atoms, Outputs[Issuance]) <= SumOf(Atoms, walked)
<1> DEFINE N     == seen \ {Issuance}
           Given == UNION {Outputs[t] : t \in N}
           Taken == UNION {Inputs[t] : t \in N}
           First == Outputs[Issuance]
           B == [t \in Txs |-> Outputs[t]]
           I == [t \in Txs |-> Inputs[t]]
           w == [t \in Txs |-> SumOf(Atoms, Outputs[t])]
<1>1. /\ IsFiniteSet(N) /\ N \subseteq Txs /\ Issuance \in Txs
      /\ First \subseteq AllCoins /\ Given \subseteq AllCoins /\ Taken \subseteq AllCoins
      /\ First \cap Given = {} /\ Inputs[Issuance] = {}
  BY TxFacts, FS_Subset
<1>2. /\ \A t \in N : IsFiniteSet(B[t]) /\ (\A c \in B[t] : Atoms[c] \in Nat) /\ w[t] = SumOf(Atoms, B[t])
      /\ \A t \in N : IsFiniteSet(I[t]) /\ (\A c \in I[t] : Atoms[c] \in Nat) /\ w[t] = SumOf(Atoms, I[t])
      /\ \A t, u \in N : t # u => B[t] \cap B[u] = {}
  BY TxFacts, CoinFacts
<1>3. SumOf(Atoms, Given) = SumOf(w, N) /\ SumOf(Atoms, Taken) <= SumOf(w, N)
  <2>1. Given = Together(B, N) /\ Taken = Together(I, N)
    <3>1. \A t \in N : B[t] = Outputs[t] /\ I[t] = Inputs[t]
      BY <1>1
    <3> HIDE DEF N, B, I
    <3> QED
      BY <3>1 DEF Together
  <2>2. SumOf(Atoms, Together(B, N)) = SumOf(w, N)
    <3> HIDE DEF N, B, w
    <3> QED
      BY <1>1, <1>2, SumFamily
  <2>3. SumOf(Atoms, Together(I, N)) <= SumOf(w, N)
    <3> HIDE DEF N, I, w
    <3> QED
      BY <1>1, <1>2, SumFamily
  <2> HIDE DEF N, Given, Taken, B, I, w
  <2> QED
    BY <2>1, <2>2, <2>3, Zenon
<1>4. First \cup Given \subseteq walked \cup Taken
  BY <1>1
<1>5. /\ SumOf(Atoms, First \cup Given) = SumOf(Atoms, First) + SumOf(Atoms, Given)
      /\ SumOf(Atoms, First \cup Given) <= SumOf(Atoms, walked \cup Taken)
      /\ SumOf(Atoms, walked \cup Taken) <= SumOf(Atoms, walked) + SumOf(Atoms, Taken)
  <2>1. walked \cup Taken \subseteq AllCoins
    BY <1>1
  <2> HIDE DEF First, Given, Taken
  <2> QED
    BY <1>1, <1>4, <2>1, CoinFacts
<1>6. SumOf(Atoms, First) \in Nat /\ SumOf(Atoms, Given) \in Nat /\ SumOf(Atoms, walked) \in Nat
      /\ SumOf(Atoms, Taken) \in Nat /\ SumOf(Atoms, walked \cup Taken) \in Nat
  <2> HIDE DEF First, Given, Taken
  <2> QED
    BY <1>1, CoinFacts
<1>7. SumOf(Atoms, First) <= SumOf(Atoms, walked)
  <2> HIDE DEF First, Given, Taken
  <2> QED
    BY <1>3, <1>5, <1>6
<1> QED
  BY <1>7

\* With what was reissued it is the supply.
LEMMA FoundIsWhole ==
    ASSUME NEW seen \in SUBSET Txs, Issuance \in seen, seen \cap C!Issues = {Issuance},
           NEW walked, walked \subseteq UNION {Outputs[t] : t \in seen},
           \A t \in seen : \A c \in Outputs[t] : c \in walked \/ \E u \in seen : c \in Inputs[u],
           NEW found \in SUBSET AllCoins, made \in SUBSET Txs,
           \A t \in (made \cap C!Issues) \ {Issuance} : Outputs[t] \subseteq found
    PROVE  C!Supply <= SumOf(Atoms, found \cup walked)
<1> DEFINE First == Outputs[Issuance]
           More  == UNION {Outputs[t] : t \in (made \cap C!Issues) \ {Issuance}}
           All   == UNION {Outputs[t] : t \in made \cap C!Issues}
<1>1. /\ First \subseteq AllCoins /\ More \subseteq AllCoins /\ walked \subseteq AllCoins
      /\ More \subseteq found /\ More \cap walked = {} /\ All \subseteq First \cup More
  BY TxFacts
<1>2. SumOf(Atoms, First) <= SumOf(Atoms, walked)
  BY <1>1, WalkedIsWhole
<1>3. C!Supply = SumOf(Atoms, All)
  BY WeightIs DEF C!Supply
<1> HIDE DEF First, More, All
<1>4. SumOf(Atoms, All) <= SumOf(Atoms, First \cup More)
  <2>1. First \cup More \subseteq AllCoins
    BY <1>1
  <2> QED
    BY <1>1, <2>1, CoinFacts
<1>5. SumOf(Atoms, First \cup More) <= SumOf(Atoms, First) + SumOf(Atoms, More)
  BY <1>1, CoinFacts
<1>6. SumOf(Atoms, More \cup walked) = SumOf(Atoms, More) + SumOf(Atoms, walked)
  BY <1>1, CoinFacts
<1>7. SumOf(Atoms, More \cup walked) <= SumOf(Atoms, found \cup walked)
  <2>1. found \cup walked \subseteq AllCoins /\ More \cup walked \subseteq found \cup walked
    BY <1>1
  <2> QED
    BY <2>1, CoinFacts
<1>8. /\ SumOf(Atoms, All) \in Nat /\ SumOf(Atoms, First \cup More) \in Nat /\ SumOf(Atoms, First) \in Nat
      /\ SumOf(Atoms, More) \in Nat /\ SumOf(Atoms, walked) \in Nat /\ SumOf(Atoms, More \cup walked) \in Nat
      /\ SumOf(Atoms, found \cup walked) \in Nat
  <2>1. /\ All \in SUBSET AllCoins /\ First \cup More \in SUBSET AllCoins /\ First \in SUBSET AllCoins
        /\ More \in SUBSET AllCoins /\ walked \in SUBSET AllCoins /\ More \cup walked \in SUBSET AllCoins
        /\ found \cup walked \in SUBSET AllCoins
    BY <1>1
  <2> QED
    BY <2>1, CoinFacts
<1> QED
  BY <1>2, <1>3, <1>4, <1>5, <1>6, <1>7, <1>8

-----------------------------------------------------------------------------
(* The snapshot, while the coins move.                                      *)

ClaimRows   == [st : {"none", "registered", "awaiting_funding", "paying", "paid", "failed", "no_payment"},
                coins : SUBSET AllCoins, net : Nat, txid : BOOLEAN]
PaySteps    == {"begin", "look", "intent", "send", "fail", "record", "book"}
PayerStates == [pc : {"idle"}] \cup [pc : {"pool"}, claim : {C!Cron}]
               \cup [pc : PaySteps, claim : ClaimIds, was : ClaimRows]
AskStates   == [pc : {"idle", "done"}] \cup [pc : {"insert"}, coins : SUBSET AllCoins, funded : BOOLEAN]
SnapStates  == [pc : {"idle", "sum"}] \cup [pc : {"insert"}, coins : SUBSET AllCoins]
               \cup [pc : {"index"}, left : SUBSET Txs, found : SUBSET AllCoins]
               \cup [pc : {"walk"}, found : SUBSET AllCoins, failed : BOOLEAN, frontier : SUBSET Txs,
                     seen : SUBSET Txs, walked : SUBSET AllCoins]

SnapTyped ==
    /\ made \in SUBSET Txs /\ rows \in SUBSET AllCoins /\ snap \in SnapStates
    /\ action \in [st : {"none", "awaiting_snapshot", "snapshotted"}, kind : {"none", "dividend", "vote"},
                   funded : BOOLEAN, total : Nat]

\* What the index has listed of the issues, and what a walk has seen: a coin is counted where it lies or
\* where it went.
Lists(found, issues) == \A t \in issues \ {Issuance} : Outputs[t] \subseteq found
Follows(frontier, seen, walked) ==
    /\ Issuance \in seen \cup frontier /\ (seen \cup frontier) \cap C!Issues = {Issuance}
    /\ walked \subseteq UNION {Outputs[t] : t \in seen}
    /\ \A t \in seen : \A c \in Outputs[t] : c \in walked \/ \E u \in seen \cup frontier : c \in Inputs[u]

\* A snapshot that is not in doubt holds no less than was issued.
Full(coins) == "snapshot" \in doubt \/ C!Supply <= SumOf(Atoms, coins)

SnapInv ==
    /\ SnapTyped /\ Issuance \in made
    /\ action.st = "none" => snap.pc = "idle" /\ rows = {}
    /\ snap.pc # "idle" => action.st = "awaiting_snapshot"
    /\ snap.pc \in {"index", "walk"} => rows = {}
    /\ snap.pc = "index" => Lists(snap.found, (made \cap C!Issues) \ snap.left)
    /\ snap.pc = "walk" => /\ Follows(snap.frontier, snap.seen, snap.walked)
                           /\ ~snap.failed => Lists(snap.found, made \cap C!Issues)
    /\ snap.pc = "insert" => Full(rows \cup snap.coins)
    /\ snap.pc = "sum" => Full(rows)
    /\ action.st = "awaiting_snapshot" /\ snap.pc = "idle" /\ rows # {} => Full(rows)
    /\ action.st = "snapshotted" => action.total = SumOf(Atoms, rows) /\ Full(rows)

\* The kinds a watcher may be in, told by its step.
LEMMA SnapKinds ==
    /\ snap \in SnapStates =>
         /\ snap.pc \in {"idle", "sum", "insert", "index", "walk"}
         /\ snap.pc = "idle" => snap = C!Idle
         /\ snap.pc = "insert" => snap \in [pc : {"insert"}, coins : SUBSET AllCoins]
         /\ snap.pc = "index" => snap \in [pc : {"index"}, left : SUBSET Txs, found : SUBSET AllCoins]
         /\ snap.pc = "walk" => snap \in [pc : {"walk"}, found : SUBSET AllCoins, failed : BOOLEAN,
                                          frontier : SUBSET Txs, seen : SUBSET Txs, walked : SUBSET AllCoins]
    /\ C!Idle \in SnapStates /\ C!Idle.pc = "idle" /\ [pc |-> "sum"] \in SnapStates
  BY DEF SnapStates, C!Idle

\* Who neither watches nor issues leaves the snapshot as it is, for doubt only grows.
LEMMA SnapAside ==
    ASSUME SnapInv, UNCHANGED <<rows, snap>>, made' \in SUBSET Txs, made \subseteq made',
           made' \cap C!Issues = made \cap C!Issues, doubt \subseteq doubt', action' \in [st : {"none", "awaiting_snapshot", "snapshotted"},
           kind : {"none", "dividend", "vote"}, funded : BOOLEAN, total : Nat],
           action'.st = action.st, action'.total = action.total
    PROVE  SnapInv' /\ C!Supply' = C!Supply
<1>1. C!Supply' = C!Supply
  BY DEF C!Supply, C!Weight, C!MapThenSumSet, C!MapThenFoldSet
<1>2. \A S : Full(S) => Full(S)'
  BY <1>1 DEF Full
<1>3. SnapTyped' /\ Issuance \in made'
  BY DEF SnapInv, SnapTyped
<1> QED
  BY <1>1, <1>2, <1>3 DEF SnapInv, Lists, Follows

\* Nobody issues while a watcher looks on.
LEMMA SupplyKept == (made' \cap C!Issues = made \cap C!Issues) => C!Supply' = C!Supply
  BY DEF C!Supply, C!Weight, C!MapThenSumSet, C!MapThenFoldSet

LEMMA SnapBegins == ASSUME SnapInv, C!SnapBegin PROVE SnapInv'
<1>1. /\ snap.pc = "idle" /\ action.st = "awaiting_snapshot" /\ UNCHANGED <<made, rows, action, doubt>>
      /\ snap' = IF rows # {} THEN [pc |-> "sum"]
                 ELSE [pc |-> "index", left |-> made \cap C!Issues, found |-> {}]
  BY DEF C!SnapBegin, C!Watches, C!chain, C!Idle
<1>2. C!Supply' = C!Supply
  BY <1>1, SupplyKept
<1>3. snap' \in SnapStates
  BY <1>1, TxFacts DEF SnapStates, SnapInv, SnapTyped
<1> QED
  BY <1>1, <1>2, <1>3 DEF SnapInv, SnapTyped, Full, Lists

LEMMA SnapIndexes == ASSUME SnapInv, ReissuesStay, C!SnapIndex PROVE SnapInv'
<1>1. /\ snap.pc = "index" /\ UNCHANGED <<made, rows, action, doubt>>
      /\ snap \in [pc : {"index"}, left : SUBSET Txs, found : SUBSET AllCoins]
  BY SnapKinds DEF C!SnapIndex, C!Watches, C!chain, SnapInv, SnapTyped
<1>2. /\ action.st = "awaiting_snapshot" /\ rows = {} /\ made \in SUBSET Txs
      /\ Lists(snap.found, (made \cap C!Issues) \ snap.left)
  BY <1>1 DEF SnapInv, SnapTyped
<1>3. CASE snap.left = {}
  <2>1. snap' = [pc |-> "walk", found |-> snap.found, failed |-> FALSE,
                 frontier |-> {Issuance}, seen |-> {}, walked |-> {}]
    BY <1>1, <1>3 DEF C!SnapIndex, C!ToWalk
  <2>2. snap' \in SnapStates
    BY <1>1, <2>1, TxFacts DEF SnapStates
  <2>3. Follows({Issuance}, {}, {}) /\ Lists(snap.found, made \cap C!Issues)
    BY <1>2, <1>3, TxFacts DEF Follows, Lists
  <2> QED
    BY <1>1, <1>2, <2>1, <2>2, <2>3 DEF SnapInv, SnapTyped, Lists, Follows
<1>4. CASE snap.left # {}
  <2>1. PICK t \in snap.left : snap' = [snap EXCEPT !.left = @ \ {t}, !.found = @ \cup C!Unspent(t)]
    BY <1>1, <1>4 DEF C!SnapIndex
  <2>2. t \in Txs /\ C!Unspent(t) \subseteq Outputs[t] /\ Outputs[t] \subseteq AllCoins
    BY <1>1, TxFacts DEF C!Unspent
  <2>3. snap' = [pc |-> "index", left |-> snap.left \ {t}, found |-> snap.found \cup C!Unspent(t)]
    BY <1>1, <2>1
  <2>4. snap' \in SnapStates
    BY <1>1, <2>2, <2>3 DEF SnapStates
  <2>5. t \in C!Issues \ {Issuance} => C!Unspent(t) = Outputs[t]
    BY <1>2, <2>2 DEF ReissuesStay, C!Unspent, C!Spender
  <2>6. Lists(snap.found \cup C!Unspent(t), (made \cap C!Issues) \ (snap.left \ {t}))
    BY <1>2, <2>5 DEF Lists
  <2> QED
    BY <1>1, <1>2, <2>3, <2>4, <2>6 DEF SnapInv, SnapTyped, Lists
<1> QED
  BY <1>3, <1>4

LEMMA SnapIndexEnds == ASSUME SnapInv, C!SnapIndexFails PROVE SnapInv'
<1>1. /\ snap.pc = "index" /\ UNCHANGED <<made, rows, action, doubt>>
      /\ snap' = [pc |-> "walk", found |-> {}, failed |-> TRUE,
                  frontier |-> {Issuance}, seen |-> {}, walked |-> {}]
  BY DEF C!SnapIndexFails, C!Watches, C!chain, C!ToWalk
<1>2. snap' \in SnapStates
  BY <1>1, TxFacts DEF SnapStates
<1>3. Follows({Issuance}, {}, {})
  BY TxFacts DEF Follows
<1> QED
  BY <1>1, <1>2, <1>3 DEF SnapInv, SnapTyped, Follows

LEMMA SnapWalks == ASSUME SnapInv, C!SnapWalk PROVE SnapInv'
<1>1. /\ snap.pc = "walk" /\ UNCHANGED <<made, rows, action, doubt>> /\ made \in SUBSET Txs
      /\ snap \in [pc : {"walk"}, found : SUBSET AllCoins, failed : BOOLEAN,
                   frontier : SUBSET Txs, seen : SUBSET Txs, walked : SUBSET AllCoins]
      /\ action.st = "awaiting_snapshot" /\ rows = {}
      /\ Follows(snap.frontier, snap.seen, snap.walked)
      /\ ~snap.failed => Lists(snap.found, made \cap C!Issues)
  BY SnapKinds DEF C!SnapWalk, C!Watches, C!chain, SnapInv, SnapTyped
<1>2. PICK t \in snap.frontier :
        snap' = [snap EXCEPT !.seen = @ \cup {t}, !.walked = @ \cup C!Unspent(t),
                             !.frontier = (@ \cup UNION {C!Spender(c) : c \in Outputs[t]}) \ (snap.seen \cup {t})]
  BY DEF C!SnapWalk
<1> DEFINE next     == UNION {C!Spender(c) : c \in Outputs[t]}
           frontier == (snap.frontier \cup next) \ (snap.seen \cup {t})
           seen     == snap.seen \cup {t}
           walked   == snap.walked \cup C!Unspent(t)
<1>3. /\ t \in Txs /\ C!Unspent(t) = {c \in Outputs[t] : C!Spender(c) = {}} /\ Outputs[t] \subseteq AllCoins
      /\ next \subseteq made /\ \A u \in next : u \notin C!Issues
      /\ \A c \in Outputs[t] : \A u \in C!Spender(c) : u \in next /\ c \in Inputs[u]
  BY <1>1, TxFacts DEF C!Unspent, C!Spender, C!Issues
<1>4. snap' = [pc |-> "walk", found |-> snap.found, failed |-> snap.failed,
               frontier |-> frontier, seen |-> seen, walked |-> walked]
  BY <1>1, <1>2
<1>5. seen \cup frontier = snap.seen \cup snap.frontier \cup next
  BY <1>2
<1>6. Follows(frontier, seen, walked)
  <2>1. Issuance \in seen \cup frontier /\ (seen \cup frontier) \cap C!Issues = {Issuance}
    BY <1>1, <1>3, <1>5 DEF Follows
  <2>2. walked \subseteq UNION {Outputs[u] : u \in seen}
    BY <1>1, <1>3 DEF Follows
  <2>3. ASSUME NEW v \in seen, NEW c \in Outputs[v]
        PROVE  c \in walked \/ \E u \in seen \cup frontier : c \in Inputs[u]
    <3>1. CASE v = t
      BY <1>3, <1>5, <3>1
    <3>2. CASE v \in snap.seen
      BY <1>1, <1>5, <3>2 DEF Follows
    <3> QED
      BY <3>1, <3>2
  <2> QED
    BY <2>1, <2>2, <2>3 DEF Follows
<1>7. snap' \in SnapStates
  BY <1>1, <1>3, <1>4, TxFacts DEF SnapStates
<1> HIDE DEF frontier, seen, walked
<1> QED
  BY <1>1, <1>4, <1>6, <1>7 DEF SnapInv, SnapTyped, Follows, Lists

\* What the two sources found is written if it is anything at all.
LEMMA Gathered ==
    ASSUME SnapInv, snap.pc = "walk", UNCHANGED <<made, rows, action>>, NEW coins \in SUBSET AllCoins,
           NEW whole \in BOOLEAN, whole => C!Supply <= SumOf(Atoms, coins), C!Gather(coins, whole)
    PROVE  SnapInv'
<1>1. /\ snap' = IF coins = {} THEN C!Idle ELSE [pc |-> "insert", coins |-> coins]
      /\ doubt \subseteq doubt'
      /\ coins # {} /\ ~whole => "snapshot" \in doubt'
  BY DEF C!Gather
<1>2. C!Supply' = C!Supply /\ rows = {} /\ action.st = "awaiting_snapshot"
  BY SupplyKept DEF SnapInv
<1>3. coins # {} => Full(coins)'
  BY <1>1, <1>2 DEF Full
<1>4. snap' \in SnapStates /\ (coins = {} => snap'.pc = "idle") /\ (coins # {} => snap'.pc = "insert" /\ snap'.coins = coins)
  BY <1>1, SnapKinds DEF SnapStates
<1>5. rows' \cup coins = coins
  BY <1>2
<1> QED
  BY <1>2, <1>3, <1>4, <1>5 DEF SnapInv, SnapTyped

LEMMA SnapWalkEnds == ASSUME SnapInv, C!SnapWalked \/ C!SnapWalkFails PROVE SnapInv'
<1>1. /\ snap.pc = "walk" /\ UNCHANGED <<made, rows, action>> /\ made \in SUBSET Txs
      /\ snap \in [pc : {"walk"}, found : SUBSET AllCoins, failed : BOOLEAN,
                   frontier : SUBSET Txs, seen : SUBSET Txs, walked : SUBSET AllCoins]
      /\ Follows(snap.frontier, snap.seen, snap.walked)
      /\ ~snap.failed => Lists(snap.found, made \cap C!Issues)
  BY SnapKinds DEF C!SnapWalked, C!SnapWalkFails, C!Watches, C!chain, SnapInv, SnapTyped
<1>2. CASE C!SnapWalkFails
  BY <1>1, <1>2, Gathered DEF C!SnapWalkFails
<1>3. CASE C!SnapWalked
  <2>1. snap.frontier = {} /\ C!Gather(snap.found \cup snap.walked, ~snap.failed)
    BY <1>3 DEF C!SnapWalked
  <2>2. ASSUME ~snap.failed PROVE C!Supply <= SumOf(Atoms, snap.found \cup snap.walked)
    <3> DEFINE seen == snap.seen  walked == snap.walked  found == snap.found
    <3>1. /\ seen \in SUBSET Txs /\ Issuance \in seen /\ seen \cap C!Issues = {Issuance}
          /\ walked \subseteq UNION {Outputs[t] : t \in seen}
          /\ \A t \in seen : \A c \in Outputs[t] : c \in walked \/ \E u \in seen : c \in Inputs[u]
      BY <1>1, <2>1 DEF Follows
    <3>2. found \in SUBSET AllCoins /\ \A t \in (made \cap C!Issues) \ {Issuance} : Outputs[t] \subseteq found
      BY <1>1, <2>2 DEF Lists
    <3> HIDE DEF seen, walked, found
    <3>3. C!Supply <= SumOf(Atoms, found \cup walked)
      BY <1>1, <3>1, <3>2, FoundIsWhole
    <3> QED
      BY <3>3 DEF found, walked
  <2>3. snap.found \cup snap.walked \in SUBSET AllCoins /\ (~snap.failed) \in BOOLEAN
    BY <1>1
  <2> QED
    BY <1>1, <2>1, <2>2, <2>3, Gathered
<1> QED
  BY <1>2, <1>3

LEMMA SnapInserts == ASSUME SnapInv, C!SnapInsert PROVE SnapInv'
<1>1. /\ snap.pc = "insert" /\ UNCHANGED <<made, action, doubt>> /\ C!Supply' = C!Supply
      /\ snap \in [pc : {"insert"}, coins : SUBSET AllCoins]
      /\ action.st = "awaiting_snapshot" /\ Full(rows \cup snap.coins)
  BY SnapKinds, SupplyKept DEF C!SnapInsert, C!Watches, C!chain, SnapInv, SnapTyped
<1>2. CASE snap.coins = {}
  <2>1. snap' = [pc |-> "sum"] /\ rows' = rows
    BY <1>2 DEF C!SnapInsert
  <2>2. rows \cup snap.coins = rows
    BY <1>2
  <2>3. Full(rows)'
    BY <1>1, <2>1, <2>2 DEF Full
  <2> QED
    BY <1>1, <2>1, <2>3, SnapKinds DEF SnapInv, SnapTyped
<1>3. CASE snap.coins # {}
  <2>1. PICK c \in snap.coins : rows' = rows \cup {c} /\ snap' = [snap EXCEPT !.coins = @ \ {c}]
    BY <1>3 DEF C!SnapInsert
  <2>2. snap' = [pc |-> "insert", coins |-> snap.coins \ {c}]
    BY <1>1, <2>1
  <2>3. snap' \in SnapStates /\ rows' \in SUBSET AllCoins
    BY <1>1, <2>1, <2>2 DEF SnapStates, SnapInv, SnapTyped
  <2>4. rows' \cup snap'.coins = rows \cup snap.coins
    BY <2>1, <2>2
  <2>5. Full(rows \cup snap.coins)'
    BY <1>1, <2>4 DEF Full
  <2> QED
    BY <1>1, <2>2, <2>3, <2>5 DEF SnapInv, SnapTyped
<1> QED
  BY <1>2, <1>3

LEMMA SnapSums == ASSUME SnapInv, C!SnapSum PROVE SnapInv'
<1>1. /\ snap.pc = "sum" /\ UNCHANGED <<made, rows, doubt>> /\ C!Supply' = C!Supply /\ snap' = C!Idle
      /\ action' = [action EXCEPT !.st = "snapshotted", !.total = C!Weight(rows)]
      /\ Full(rows)
  BY SupplyKept DEF C!SnapSum, C!Watches, C!chain, SnapInv
<1>2. C!Weight(rows) = SumOf(Atoms, rows) /\ SumOf(Atoms, rows) \in Nat
  BY WeightIs, CoinFacts DEF SnapInv, SnapTyped
<1>3. Full(rows)'
  BY <1>1 DEF Full
<1> QED
  BY <1>1, <1>2, <1>3, SnapKinds DEF SnapInv, SnapTyped

\* A stop between two inserts is in doubt; one before the first begins again, one after the last goes on.
LEMMA SnapStops == ASSUME SnapInv, C!Crash PROVE SnapInv'
<1>1. /\ UNCHANGED <<made, action, rows>> /\ snap' = C!Idle /\ C!Supply' = C!Supply /\ doubt \subseteq doubt'
      /\ snap.pc = "insert" /\ rows # {} /\ snap.coins # {} => "snapshot" \in doubt'
  BY SupplyKept DEF C!Crash, C!chain, C!store
<1>2. action.st = "awaiting_snapshot" /\ rows # {} => Full(rows)'
  <2>1. ASSUME action.st = "awaiting_snapshot", rows # {} PROVE Full(rows) \/ "snapshot" \in doubt'
    <3>1. CASE snap.pc = "insert" /\ snap.coins = {}
      <4>1. rows \cup snap.coins = rows
        BY <3>1
      <4> QED
        BY <3>1, <4>1 DEF SnapInv
    <3>2. CASE snap.pc = "insert" /\ snap.coins # {}
      BY <1>1, <2>1, <3>2
    <3>3. CASE snap.pc # "insert"
      BY <2>1, <3>3, SnapKinds DEF SnapInv, SnapTyped
    <3> QED
      BY <3>1, <3>2, <3>3
  <2> QED
    BY <1>1, <2>1 DEF Full
<1>3. action.st = "snapshotted" => Full(rows)'
  BY <1>1 DEF SnapInv, Full
<1> QED
  BY <1>1, <1>2, <1>3, SnapKinds DEF SnapInv, SnapTyped

-----------------------------------------------------------------------------
(* Claims and their payment.                                                *)

ClaimTyped ==
    /\ claims \in [ClaimIds -> ClaimRows] /\ claiming \in [ClaimIds -> AskStates]
    /\ payers \in [C!Callers -> PayerStates] /\ due \in SUBSET [claim : ClaimIds, row : ClaimRows]
    /\ sent \in [ClaimIds -> Nat]

\* What is claimed, and by a request about to claim it, is of a snapshot taken; no coin is claimed twice,
\* and no claim is for more than its part of the pool.
Asked(r)  == claiming[r].pc = "insert" =>
                 /\ claiming[r].coins # {} /\ claiming[r].coins \subseteq rows
                 /\ action.st = "snapshotted" /\ claims[r].st = "none"
Made(r)   == /\ claims[r].st = "none" => claims[r].coins = {} /\ claims[r].net = 0 /\ sent[r] = 0
             /\ claims[r].st # "none" =>
                  /\ action.st = "snapshotted" /\ claims[r].coins \subseteq rows
                  /\ claims[r].net * action.total <= Pool * SumOf(Atoms, claims[r].coins)
ClaimInv ==
    /\ ClaimTyped /\ \A r \in ClaimIds : Asked(r) /\ Made(r)
    /\ \A r, q \in ClaimIds : r # q => claims[r].coins \cap claims[q].coins = {}
    /\ \A p \in C!Callers : payers[p].pc \in PaySteps => claims[payers[p].claim].st # "none"
    /\ \A d \in due : claims[d.claim].st # "none" /\ C!Payable(d.row)

\* A claim that is not in doubt has one payer, who sends where nothing was sent; from then on its row says
\* so, or that a payment is under way.
On(p, r) == payers[p].pc \in PaySteps /\ payers[p].claim = r
Ready(payer, row, n) ==
    /\ payer.pc = "begin" => payer.was = row /\ C!Payable(row)
    /\ payer.pc \in {"intent", "send", "fail"} => n = 0
    /\ payer.pc = "send" => row.st = "paying"
    /\ payer.pc \in {"look", "intent", "send", "fail"} => ~row.txid
Sound(row, n) ==
    /\ n <= 1
    /\ n # 0 => row.st \notin {"registered", "awaiting_funding", "failed"}
    /\ row.txid => row.st = "paid"
SentOnceOf(r) ==
    r \notin doubt =>
        /\ Sound(claims[r], sent[r])
        /\ \A p, q \in C!Callers : On(p, r) /\ On(q, r) => p = q
        /\ \A p \in C!Callers : On(p, r) => Ready(payers[p], claims[r], sent[r])
PayInv == \A r \in ClaimIds : SentOnceOf(r)

LEMMA CallFacts ==
    /\ C!Callers = ClaimIds \cup {C!Cron} /\ C!Cron \notin ClaimIds /\ "snapshot" \notin ClaimIds
    /\ IsFiniteSet(ClaimIds) /\ C!Idle \in PayerStates /\ C!Idle \in AskStates /\ C!Idle.pc = "idle"
    /\ \A x \in PayerStates : /\ x.pc \in {"idle", "pool"} \cup PaySteps /\ (x.pc = "idle" => x = C!Idle)
                              /\ x.pc \in PaySteps => x \in [pc : PaySteps, claim : ClaimIds, was : ClaimRows]
                              /\ x.pc = "pool" => x.claim = C!Cron
    /\ \A x \in AskStates : /\ x.pc = "idle" => x = C!Idle
                            /\ x.pc = "insert" => x \in [pc : {"insert"}, coins : SUBSET AllCoins, funded : BOOLEAN]
<1>1. C!ActionsAssumption
  BY HoldersAssumption
<1>2. C!Callers = ClaimIds \cup {C!Cron} /\ C!Cron \notin ClaimIds /\ "snapshot" \notin ClaimIds /\ IsFiniteSet(ClaimIds)
  BY <1>1, FiniteIs DEF C!ActionsAssumption, C!Callers
<1> QED
  BY <1>2 DEF PayerStates, AskStates, PaySteps, C!Idle

\* Who touches no claim and no snapshot that was taken leaves them as they are.
LEMMA ClaimAside ==
    ASSUME ClaimInv, PayInv, UNCHANGED <<claims, claiming, payers, due, sent>>, doubt \subseteq doubt',
           action.st = "snapshotted" => action'.st = "snapshotted" /\ action'.total = action.total /\ rows' = rows
    PROVE  ClaimInv' /\ PayInv'
<1>1. \A r \in ClaimIds : Asked(r)' /\ Made(r)'
  BY DEF ClaimInv, Asked, Made
<1>2. \A r \in ClaimIds : SentOnceOf(r)'
  BY DEF PayInv, SentOnceOf, On
<1> QED
  BY <1>1, <1>2 DEF ClaimInv, PayInv, ClaimTyped

\* A step of one payer is about its own claim.
LEMMA PayerMoves ==
    ASSUME ClaimInv, PayInv, NEW p \in C!Callers, NEW r \in ClaimIds, On(p, r),
           NEW x \in PayerStates, x.pc = "idle" \/ (x.pc \in PaySteps /\ x.claim = r),
           NEW row \in ClaimRows, row.coins = claims[r].coins, row.net = claims[r].net, row.st # "none",
           NEW n \in Nat, payers' = [payers EXCEPT ![p] = x], claims' = [claims EXCEPT ![r] = row],
           sent' = [sent EXCEPT ![r] = n], UNCHANGED <<rows, action, claiming, due>>, doubt \subseteq doubt',
           r \notin doubt' /\ SentOnceOf(r) => Sound(row, n) /\ (x.pc # "idle" => Ready(x, row, n))
    PROVE  ClaimInv' /\ PayInv'
<1>1. claims[r].st # "none" /\ ClaimTyped
  BY DEF ClaimInv, On
<1>2. ClaimTyped'
  BY <1>1 DEF ClaimTyped
<1>3. /\ \A q \in C!Callers : payers'[q] = IF q = p THEN x ELSE payers[q]
      /\ \A q \in ClaimIds : claims'[q] = IF q = r THEN row ELSE claims[q]
      /\ \A q \in ClaimIds : sent'[q] = IF q = r THEN n ELSE sent[q]
  BY <1>1 DEF ClaimTyped
<1>4. ASSUME NEW q \in ClaimIds PROVE Asked(q)' /\ Made(q)'
  BY <1>1, <1>3 DEF ClaimInv, Asked, Made
<1>5. \A s, q \in ClaimIds : s # q => claims'[s].coins \cap claims'[q].coins = {}
  BY <1>3 DEF ClaimInv
<1>6. \A q \in ClaimIds : claims[q].st # "none" => claims'[q].st # "none"
  BY <1>3
<1>7. \A q \in C!Callers : payers'[q].pc \in PaySteps => claims'[payers'[q].claim].st # "none"
  <2> SUFFICES ASSUME NEW q \in C!Callers, payers'[q].pc \in PaySteps PROVE claims'[payers'[q].claim].st # "none"
    OBVIOUS
  <2>1. CASE q = p
    BY <1>3, <2>1 DEF PaySteps
  <2>2. CASE q # p
    <3>1. payers'[q] = payers[q] /\ payers[q].claim \in ClaimIds
      BY <1>1, <1>3, <2>2, CallFacts DEF ClaimTyped
    <3> QED
      BY <1>6, <3>1 DEF ClaimInv
  <2> QED
    BY <2>1, <2>2
<1>8. \A d \in due' : claims'[d.claim].st # "none" /\ C!Payable(d.row)
  BY <1>1, <1>6 DEF ClaimInv, ClaimTyped
<1>9. ASSUME NEW q \in ClaimIds, q \notin doubt' PROVE SentOnceOf(q)'
  <2>1. SentOnceOf(q) /\ q \notin doubt
    BY <1>9 DEF PayInv
  <2>2. CASE q = r
    <3>1. Sound(row, n) /\ (x.pc # "idle" => Ready(x, row, n))
      BY <1>9, <2>1, <2>2
    <3>2. \A s \in C!Callers : On(s, r)' => s = p /\ x.pc # "idle"
      BY <1>3, <2>1, <2>2 DEF SentOnceOf, On, PaySteps
    <3> QED
      BY <1>3, <2>2, <3>1, <3>2 DEF SentOnceOf
  <2>3. CASE q # r
    <3>1. \A s \in C!Callers : On(s, q)' => On(s, q) /\ payers'[s] = payers[s]
      BY <1>3, <2>3 DEF On, PaySteps
    <3>2. claims'[q] = claims[q] /\ sent'[q] = sent[q]
      BY <1>3, <2>3
    <3> QED
      BY <2>1, <3>1, <3>2 DEF SentOnceOf
  <2> QED
    BY <2>2, <2>3
<1>10. PayInv'
  BY <1>9 DEF PayInv, SentOnceOf
<1> QED
  BY <1>2, <1>4, <1>5, <1>7, <1>8, <1>10 DEF ClaimInv

\* What is written to the claim row of a payer, and where it goes.
LEMMA RowPaid ==
    ASSUME ClaimTyped, NEW p \in C!Callers, NEW r \in ClaimIds, On(p, r)
    PROVE  /\ r = payers[p].claim /\ payers[p].pc \in PaySteps
           /\ payers[p] \in [pc : PaySteps, claim : ClaimIds, was : ClaimRows]
           /\ claims[r] \in ClaimRows /\ sent[r] \in Nat
           /\ claims = [claims EXCEPT ![r] = claims[r]] /\ sent = [sent EXCEPT ![r] = sent[r]]
  BY CallFacts DEF ClaimTyped, On

\* Where a step that goes on leaves the payer, and one that is the last.
LEMMA PayerGoes ==
    ASSUME ClaimTyped, NEW p \in C!Callers, NEW r \in ClaimIds, On(p, r), NEW pc \in PaySteps
    PROVE  \E x \in PayerStates : /\ x.pc = pc /\ x.claim = r /\ x.was = payers[p].was
                                  /\ C!Goes(p, pc) => payers' = [payers EXCEPT ![p] = x]
<1> DEFINE x == [payers[p] EXCEPT !.pc = pc]
<1>1. x \in PayerStates /\ x.pc = pc /\ x.claim = r /\ x.was = payers[p].was
  BY RowPaid DEF PayerStates
<1>2. [payers EXCEPT ![p].pc = pc] = [payers EXCEPT ![p] = x]
  BY DEF ClaimTyped
<1> QED
  BY <1>1, <1>2 DEF C!Goes

LEMMA PaysAside == C!Pays => UNCHANGED <<made, rows, action, snap, claiming, due, tip, deposited>>
  BY DEF C!Pays, C!chain

\* A step that goes on with the claim's row as it is, but for its state.
LEMMA PayGoesOn ==
    ASSUME ClaimInv, PayInv, NEW p \in C!Callers, NEW r \in ClaimIds, On(p, r), C!Pays, NEW pc \in PaySteps,
           C!Goes(p, pc), NEW row \in ClaimRows, row.coins = claims[r].coins, row.net = claims[r].net,
           row.st # "none", NEW n \in Nat, claims' = [claims EXCEPT ![r] = row], sent' = [sent EXCEPT ![r] = n],
           doubt \subseteq doubt', pc # "begin",
           r \notin doubt' /\ SentOnceOf(r) =>
               /\ Sound(row, n)
               /\ pc \in {"intent", "send", "fail"} => n = 0
               /\ pc = "send" => row.st = "paying"
               /\ pc \in {"look", "intent", "send", "fail"} => ~row.txid
    PROVE  ClaimInv' /\ PayInv'
<1>1. PICK x \in PayerStates : x.pc = pc /\ x.claim = r /\ payers' = [payers EXCEPT ![p] = x]
  BY PayerGoes DEF ClaimInv
<1>2. r \notin doubt' /\ SentOnceOf(r) => Sound(row, n) /\ (x.pc # "idle" => Ready(x, row, n))
  BY <1>1 DEF Ready
<1> QED
  BY <1>1, <1>2, PaysAside, PayerMoves

LEMMA PayEnds ==
    ASSUME ClaimInv, PayInv, NEW p \in C!Callers, NEW r \in ClaimIds, On(p, r), C!Pays, C!Leaves(p),
           NEW row \in ClaimRows, row.coins = claims[r].coins, row.net = claims[r].net,
           row.st # "none", NEW n \in Nat, claims' = [claims EXCEPT ![r] = row], sent' = [sent EXCEPT ![r] = n],
           doubt \subseteq doubt', r \notin doubt' /\ SentOnceOf(r) => Sound(row, n)
    PROVE  ClaimInv' /\ PayInv'
<1>1. C!Idle \in PayerStates /\ C!Idle.pc = "idle" /\ payers' = [payers EXCEPT ![p] = C!Idle]
  BY CallFacts DEF C!Leaves
<1> QED
  BY <1>1, PaysAside, PayerMoves

LEMMA Pays ==
    ASSUME ClaimInv, PayInv, NEW p \in C!Callers, C!payActionClaim(p), payers[p].pc # "pool"
    PROVE  ClaimInv' /\ PayInv' /\ UNCHANGED <<made, rows, action, snap>> /\ doubt \subseteq doubt'
<1>1. C!Pays /\ UNCHANGED <<made, rows, action, snap>>
  BY PaysAside DEF C!payActionClaim, C!Begin, C!Look, C!Intent, C!Send, C!SendFails, C!Fail, C!Record, C!Book
<1>2. payers[p].pc \in PaySteps
  BY DEF C!payActionClaim, C!Begin, C!Look, C!Intent, C!Send, C!SendFails, C!Fail, C!Record, C!Book, C!At, PaySteps
<1>3. PICK r \in ClaimIds : r = payers[p].claim
  BY <1>2, CallFacts DEF ClaimInv, ClaimTyped
<1> DEFINE row == claims[r]
           n   == sent[r]
           stamped(st) == [row EXCEPT !.st = st]
           adopted     == [row EXCEPT !.st = "paid", !.txid = TRUE]
<1>4. /\ On(p, r) /\ row \in ClaimRows /\ n \in Nat /\ row.st # "none"
      /\ claims = [claims EXCEPT ![r] = row] /\ sent = [sent EXCEPT ![r] = n]
  BY <1>2, <1>3, RowPaid DEF ClaimInv, On
<1>5. r \notin doubt => SentOnceOf(r) /\ Ready(payers[p], row, n) /\ Sound(row, n)
  BY <1>4 DEF PayInv, SentOnceOf
<1>6. \A st : C!Writes(p, st) => claims' = [claims EXCEPT ![r] = stamped(st)]
  BY <1>3, <1>4 DEF C!Writes, ClaimInv, ClaimTyped
<1>7. C!Adopted(p) => claims' = [claims EXCEPT ![r] = adopted]
  BY <1>3, <1>4 DEF C!Adopted, ClaimInv, ClaimTyped
<1> HIDE DEF row, n
<1>17. \A st \in {"paying", "failed", "no_payment"} :
          /\ stamped(st) \in ClaimRows /\ stamped(st).coins = row.coins /\ stamped(st).net = row.net
          /\ stamped(st).st = st /\ st # "none" /\ stamped(st).txid = row.txid
  BY <1>4 DEF ClaimRows
<1>18. /\ adopted \in ClaimRows /\ adopted.coins = row.coins /\ adopted.net = row.net
       /\ adopted.st = "paid" /\ adopted.txid
  BY <1>4 DEF ClaimRows
<1>19. n + 1 \in Nat
  BY <1>4
<1> HIDE DEF stamped, adopted
<1>8. CASE C!Begin(p)
  <2>1. payers[p].pc = "begin" /\ UNCHANGED <<sent, doubt>>
    BY <1>8 DEF C!Begin, C!At
  <2>2. CASE payers[p].was.net = 0
    <3>1. C!Writes(p, "no_payment") /\ C!Leaves(p)
      BY <1>8, <2>2 DEF C!Begin
    <3>2. r \notin doubt' => Sound(stamped("no_payment"), n)
      BY <1>4, <1>5, <1>17, <2>1 DEF Sound, Ready, C!Payable
    <3> QED
      BY <1>1, <1>4, <1>6, <1>17, <2>1, <3>1, <3>2, PayEnds DEF row, n
  <2>3. CASE payers[p].was.net # 0
    <3>1. PICK pc \in {"look", "intent"} : /\ C!Goes(p, pc) /\ UNCHANGED claims
                                           /\ pc = "intent" => ~C!Reconciles(payers[p].was)
      BY <1>8, <2>3 DEF C!Begin
    <3>2. r \notin doubt' => Sound(row, n) /\ ~row.txid /\ (pc = "intent" => n = 0)
      <4>1. r \notin doubt' => Sound(row, n) /\ payers[p].was = row /\ C!Payable(row)
        BY <1>5, <2>1 DEF Ready
      <4>2. Sound(row, n) /\ C!Payable(row) => ~row.txid /\ (~C!Reconciles(row) => n = 0)
        BY <1>4 DEF Sound, C!Payable, C!Reconciles, ClaimRows
      <4> QED
        BY <3>1, <4>1, <4>2
    <3> QED
      BY <1>1, <1>4, <2>1, <3>1, <3>2, PayGoesOn DEF row, n, PaySteps
  <2> QED
    BY <2>2, <2>3
<1>9. CASE C!Look(p)
  <2>1. payers[p].pc = "look" /\ UNCHANGED sent
    BY <1>9 DEF C!Look, C!At
  <2>2. CASE C!Adopted(p) /\ C!Leaves(p) /\ UNCHANGED doubt
    <3>1. r \notin doubt' => Sound(adopted, n)
      BY <1>4, <1>5, <1>18, <2>2 DEF Sound
    <3> QED
      BY <1>1, <1>4, <1>7, <1>18, <2>1, <2>2, <3>1, PayEnds DEF row, n
  <2>3. CASE C!Goes(p, "intent") /\ UNCHANGED claims /\ doubt \subseteq doubt' /\ (n = 0 \/ r \in doubt')
    <3>1. r \notin doubt' => Sound(row, n) /\ ~row.txid /\ n = 0
      BY <1>4, <1>5, <2>1, <2>3 DEF Ready
    <3> QED
      BY <1>1, <1>4, <2>1, <2>3, <3>1, PayGoesOn DEF row, n, PaySteps
  <2> QED
    BY <1>3, <1>9, <2>2, <2>3 DEF C!Look, n
<1>10. CASE C!Intent(p)
  <2>1. payers[p].pc = "intent" /\ UNCHANGED <<sent, doubt>> /\ C!Writes(p, "paying") /\ C!Goes(p, "send")
    BY <1>10 DEF C!Intent, C!At
  <2>2. r \notin doubt' => Sound(stamped("paying"), n) /\ ~row.txid /\ n = 0
    BY <1>4, <1>5, <1>17, <2>1 DEF Sound, Ready
  <2> QED
    BY <1>1, <1>4, <1>6, <1>17, <2>1, <2>2, PayGoesOn DEF row, n, PaySteps
<1>11. CASE C!Send(p)
  <2>1. payers[p].pc = "send" /\ UNCHANGED <<claims, doubt>> /\ C!Goes(p, "record")
        /\ sent' = [sent EXCEPT ![r] = n + 1]
    BY <1>3, <1>11 DEF C!Send, C!At, n
  <2>2. r \notin doubt' => Sound(row, n + 1)
    BY <1>4, <1>5, <2>1 DEF Sound, Ready
  <2> QED
    BY <1>1, <1>4, <1>19, <2>1, <2>2, PayGoesOn DEF row, PaySteps
<1>12. CASE C!SendFails(p)
  <2>1. payers[p].pc = "send" /\ UNCHANGED claims /\ C!Goes(p, "fail")
    BY <1>12 DEF C!SendFails, C!At
  <2>2. CASE UNCHANGED <<sent, doubt>>
    <3>1. r \notin doubt' => Sound(row, n) /\ ~row.txid /\ n = 0
      BY <1>4, <1>5, <2>1, <2>2 DEF Ready
    <3> QED
      BY <1>1, <1>4, <2>1, <2>2, <3>1, PayGoesOn DEF row, n, PaySteps
  <2>3. CASE sent' = [sent EXCEPT ![r] = n + 1] /\ doubt' = doubt \cup {r}
    BY <1>1, <1>4, <1>19, <2>1, <2>3, PayGoesOn DEF row, PaySteps
  <2> QED
    BY <1>3, <1>12, <2>2, <2>3 DEF C!SendFails, n
<1>13. CASE C!Fail(p)
  <2>1. payers[p].pc = "fail" /\ UNCHANGED <<sent, doubt>> /\ C!Writes(p, "failed") /\ C!Leaves(p)
    BY <1>13 DEF C!Fail, C!At
  <2>2. r \notin doubt' => Sound(stamped("failed"), n)
    BY <1>4, <1>5, <1>17, <2>1 DEF Sound, Ready
  <2> QED
    BY <1>1, <1>4, <1>6, <1>17, <2>1, <2>2, PayEnds DEF row, n
<1>14. CASE C!Record(p)
  <2>1. payers[p].pc = "record" /\ UNCHANGED <<sent, doubt>> /\ C!Adopted(p) /\ C!Goes(p, "book")
    BY <1>14 DEF C!Record, C!At
  <2>2. r \notin doubt' => Sound(adopted, n)
    BY <1>4, <1>5, <1>18, <2>1 DEF Sound
  <2> QED
    BY <1>1, <1>4, <1>7, <1>18, <2>1, <2>2, PayGoesOn DEF row, n, PaySteps
<1>15. CASE C!Book(p)
  <2>1. UNCHANGED <<claims, sent, doubt>> /\ C!Leaves(p)
    BY <1>15 DEF C!Book
  <2>2. r \notin doubt' => Sound(row, n)
    BY <1>5, <2>1
  <2> QED
    BY <1>1, <1>4, <2>1, <2>2, PayEnds DEF row, n
<1>16. doubt \subseteq doubt'
  BY DEF C!payActionClaim, C!Begin, C!Look, C!Intent, C!Send, C!SendFails, C!Fail, C!Record, C!Book
<1> QED
  BY <1>1, <1>8, <1>9, <1>10, <1>11, <1>12, <1>13, <1>14, <1>15, <1>16 DEF C!payActionClaim

-----------------------------------------------------------------------------
(* A claim, and who is called to pay it.                                    *)

LEMMA ClaimAsked ==
    ASSUME ClaimInv, PayInv, SnapInv, NEW r \in ClaimIds, NEW coins \in SUBSET rows, C!Claim(r, coins)
    PROVE  ClaimInv' /\ PayInv' /\ UNCHANGED <<made, rows, action, snap>> /\ doubt \subseteq doubt'
<1>1. /\ UNCHANGED <<made, rows, action, claims, snap, payers, due, sent, doubt>>
      /\ claims[r].st = "none" /\ action.st = "snapshotted" /\ coins # {} /\ coins \in SUBSET AllCoins
      /\ claiming' = [claiming EXCEPT ![r] = [pc |-> "insert", coins |-> coins, funded |-> action.funded]]
  BY DEF C!Claim, C!chain, C!store, C!NoRow, SnapInv, SnapTyped
<1>2. [pc |-> "insert", coins |-> coins, funded |-> action.funded] \in AskStates
  BY <1>1 DEF AskStates, SnapInv, SnapTyped
<1>3. claiming' \in [ClaimIds -> AskStates]
  BY <1>1, <1>2 DEF ClaimInv, ClaimTyped
<1>4. \A q \in ClaimIds : Asked(q)'
  BY <1>1 DEF ClaimInv, ClaimTyped, Asked
<1>5. \A q \in ClaimIds : Made(q)'
  BY <1>1 DEF ClaimInv, Made
<1>6. ClaimInv'
  BY <1>1, <1>3, <1>4, <1>5 DEF ClaimInv, ClaimTyped
<1>7. \A q \in ClaimIds : SentOnceOf(q)'
  BY <1>1 DEF PayInv, SentOnceOf, On
<1> QED
  BY <1>1, <1>6, <1>7 DEF PayInv

LEMMA Quotients ==
    /\ \A a \in Nat, b \in Nat \ {0} : a \div b \in Nat /\ (a \div b) * b <= a
    /\ \A g \in Nat, i \in 0..100 : (g * i) \div 100 \in Nat /\ (g * i) \div 100 <= g
<1>1. \A a \in Nat, b \in Nat \ {0} : a \div b \in Nat /\ (a \div b) * b <= a
  OBVIOUS
<1>2. ASSUME NEW g \in Nat, NEW i \in 0..100 PROVE (g * i) \div 100 \in Nat /\ (g * i) \div 100 <= g
  <2>1. g * i \in Nat /\ g * i <= g * 100
    <3>1. PICK c \in Nat : 100 = i + c
      BY <1>2, 100 - i \in Nat
    <3>2. g * 100 = g * i + g * c /\ g * c \in Nat /\ g * i \in Nat
      BY <1>2, <3>1
    <3> QED
      BY <3>2
  <2> QED
    BY <2>1
<1> QED
  BY <1>1, <1>2

LEMMA LessTimes == \A a, b, k \in Nat : a <= b => a * k <= b * k
<1> SUFFICES ASSUME NEW a \in Nat, NEW b \in Nat, NEW k \in Nat, a <= b PROVE a * k <= b * k
  OBVIOUS
<1>1. PICK c \in Nat : b = a + c
  BY b - a \in Nat
<1>2. b * k = a * k + c * k /\ c * k \in Nat /\ a * k \in Nat
  BY <1>1
<1> QED
  BY <1>2

\* What is left of a claim's part of the pool is no more than that part (withholdingFor).
LEMMA NetFits ==
    ASSUME SnapInv, NEW coins \in SUBSET rows, coins # {}, action.total = SumOf(Atoms, rows)
    PROVE  C!Net(coins) \in Nat /\ C!Net(coins) * action.total <= Pool * SumOf(Atoms, coins)
<1>1. rows \in SUBSET AllCoins /\ Pool \in Nat
  BY PlatformAssumption DEF SnapInv, SnapTyped
<1> DEFINE part_ == SumOf(Atoms, coins)
           total == SumOf(Atoms, rows)
           gross == C!Gross(coins)
           rate  == Rate[KeyOf[CHOOSE c \in coins : TRUE]]
<1>2. rate \in 0..100
  BY <1>1, CoinFacts
<1>3. part_ \in Nat /\ total \in Nat \ {0}
  <2>1. PICK c \in coins : c \in AllCoins
    BY <1>1
  <2>2. SumOf(Atoms, {c}) = Atoms[c] /\ Atoms[c] \in Nat \ {0}
    <3>1. Atoms[c] \in Nat \ {0} /\ Atoms[c] \in Int
      BY <2>1, CoinFacts
    <3> QED
      BY <3>1, SumOne
  <2>3. SumOf(Atoms, {c}) <= total /\ total \in Nat /\ part_ \in Nat
    BY <1>1, <2>1, CoinFacts
  <2> HIDE DEF part_, total
  <2> QED
    BY <2>2, <2>3
<1>4. gross = IF action.kind = "vote" THEN 0 ELSE (Pool * part_) \div total
  BY WeightIs DEF C!Gross
<1>5. C!Net(coins) = gross - (gross * rate) \div 100
  BY DEF C!Net
<1> HIDE DEF part_, total, gross, rate
<1>6. gross \in Nat /\ gross * total <= Pool * part_
  <2>1. Pool * part_ \in Nat
    BY <1>1, <1>3
  <2> DEFINE a == Pool * part_
  <2>2. a \div total \in Nat /\ (a \div total) * total <= a
    <3> HIDE DEF a
    <3> QED
      BY <1>3, <2>1, Quotients DEF a
  <2>3. 0 * total <= a
    BY <1>3, <2>1
  <2> QED
    BY <1>4, <2>2, <2>3
<1>7. C!Net(coins) \in Nat /\ C!Net(coins) <= gross
  <2>1. (gross * rate) \div 100 \in Nat /\ (gross * rate) \div 100 <= gross
    BY <1>2, <1>6, Quotients
  <2> DEFINE held_ == (gross * rate) \div 100
  <2> HIDE DEF held_
  <2> QED
    BY <1>5, <1>6, <2>1 DEF held_
<1>8. C!Net(coins) * total <= gross * total
  BY <1>3, <1>6, <1>7, LessTimes
<1>9. C!Net(coins) * total \in Nat /\ gross * total \in Nat /\ Pool * part_ \in Nat
  BY <1>1, <1>3, <1>6, <1>7
<1> QED
  BY <1>6, <1>7, <1>8, <1>9 DEF part_, total

\* Who is called for a claim that is there, with its row as it was read.
LEMMA CallBegins ==
    ASSUME ClaimInv, PayInv, NEW p \in C!Callers, NEW r \in ClaimIds, NEW row \in ClaimRows,
           claims[r].st # "none", C!Payable(row), C!Begins(p, r, row), UNCHANGED <<claims, sent, rows, action, claiming>>,
           due' \subseteq due
    PROVE  ClaimInv' /\ PayInv' /\ doubt \subseteq doubt'
<1> DEFINE x == [pc |-> "begin", claim |-> r, was |-> row]
<1>1. x \in PayerStates /\ x.pc = "begin" /\ x.claim = r /\ x.was = row
  BY DEF PayerStates, PaySteps
<1>2. /\ payers' = [payers EXCEPT ![p] = x] /\ doubt \subseteq doubt'
      /\ r \notin doubt' => row = claims[r] /\ \A q \in C!Callers \ {p} : payers[q] # C!Idle => payers[q].claim # r
  BY DEF C!Begins
<1> HIDE DEF x
<1>3. ClaimTyped' /\ \A q \in C!Callers : payers'[q] = IF q = p THEN x ELSE payers[q]
  BY <1>1, <1>2 DEF ClaimInv, ClaimTyped
<1>4. ClaimInv'
  <2>1. \A q \in ClaimIds : Asked(q)' /\ Made(q)'
    BY DEF ClaimInv, Asked, Made
  <2> QED
    BY <1>1, <1>3, <2>1 DEF ClaimInv
<1>5. ASSUME NEW q \in ClaimIds PROVE SentOnceOf(q)'
  <2> SUFFICES ASSUME q \notin doubt' PROVE SentOnceOf(q)'
    BY DEF SentOnceOf
  <2>1. SentOnceOf(q) /\ q \notin doubt
    BY <1>2 DEF PayInv
  <2>2. CASE q = r
    <3>1. \A s \in C!Callers : On(s, q)' => s = p
      BY <1>2, <1>3, <2>2, CallFacts DEF On, PaySteps
    <3>2. Ready(x, claims[r], sent[r])
      BY <1>1, <1>2, <2>2 DEF Ready
    <3> QED
      BY <1>3, <2>1, <2>2, <3>1, <3>2 DEF SentOnceOf
  <2>3. CASE q # r
    <3>1. \A s \in C!Callers : On(s, q)' => On(s, q) /\ payers'[s] = payers[s]
      BY <1>1, <1>3, <2>3 DEF On
    <3> QED
      BY <2>1, <3>1 DEF SentOnceOf
  <2> QED
    BY <2>2, <2>3
<1> QED
  BY <1>2, <1>4, <1>5 DEF PayInv

\* A request inserts its claim, unless a coin of it was claimed meanwhile; the row has no payer before.
LEMMA ClaimInserted ==
    ASSUME ClaimInv, PayInv, SnapInv, NEW r \in ClaimIds, C!InsertActionClaim(r)
    PROVE  ClaimInv' /\ PayInv' /\ UNCHANGED <<made, rows, action, snap>> /\ doubt \subseteq doubt'
<1> DEFINE ask == claiming[r]
           row == [st    |-> IF action.kind = "dividend" /\ ~ask.funded THEN "awaiting_funding" ELSE "registered",
                   coins |-> ask.coins, net |-> C!Net(ask.coins), txid |-> FALSE]
           done == [pc |-> "done"]
<1>1. /\ UNCHANGED <<made, rows, action, snap, due, sent>> /\ ask.pc = "insert"
      /\ claiming' = [claiming EXCEPT ![r] = done] /\ done \in AskStates
  BY DEF C!InsertActionClaim, C!chain, AskStates
<1>2. /\ ask \in [pc : {"insert"}, coins : SUBSET AllCoins, funded : BOOLEAN]
      /\ ask.coins # {} /\ ask.coins \subseteq rows /\ action.st = "snapshotted" /\ claims[r].st = "none"
  BY <1>1, CallFacts DEF ClaimInv, ClaimTyped, Asked
<1>3. /\ \A q \in ClaimIds : claiming'[q] = IF q = r THEN done ELSE claiming[q]
      /\ claiming' \in [ClaimIds -> AskStates]
  BY <1>1 DEF ClaimInv, ClaimTyped
<1>4. CASE UNCHANGED <<claims, payers, doubt>>
  <2>1. \A q \in ClaimIds : Asked(q)'
    BY <1>1, <1>3, <1>4 DEF ClaimInv, Asked
  <2>2. \A q \in ClaimIds : Made(q)' /\ SentOnceOf(q)'
    BY <1>1, <1>4 DEF ClaimInv, PayInv, Made, SentOnceOf, On
  <2> QED
    BY <1>1, <1>3, <1>4, <2>1, <2>2 DEF ClaimInv, PayInv, ClaimTyped
<1>5. CASE /\ ask.coins \cap C!Claimed = {} /\ claims' = [claims EXCEPT ![r] = row]
           /\ UNCHANGED <<payers, doubt>> \/ C!Begins(r, r, row)
  <2>1. C!Net(ask.coins) \in Nat /\ C!Net(ask.coins) * action.total <= Pool * SumOf(Atoms, ask.coins)
    BY <1>2, NetFits DEF SnapInv
  <2>2. /\ row \in ClaimRows /\ row.st \in {"registered", "awaiting_funding"} /\ row.txid = FALSE
        /\ row.coins = ask.coins /\ row.net = C!Net(ask.coins)
    BY <1>2, <2>1 DEF ClaimRows
  <2>3. sent[r] = 0 /\ ClaimTyped
    BY <1>2 DEF ClaimInv, Made
  <2>4. \A q \in C!Callers : payers[q].pc \in PaySteps => payers[q].claim # r /\ payers[q].claim \in ClaimIds
    BY <1>2, <2>3, CallFacts DEF ClaimInv, ClaimTyped
  <2>5. \A d \in due : d.claim # r /\ d.claim \in ClaimIds
    BY <1>2, <2>3 DEF ClaimInv, ClaimTyped
  <2>6. \A q \in ClaimIds \ {r} : ask.coins \cap claims[q].coins = {}
    BY <1>5 DEF C!Claimed
  <2> HIDE DEF row, ask, done
  <2>7. \A q \in ClaimIds : claims'[q] = IF q = r THEN row ELSE claims[q]
    BY <1>5, <2>3 DEF ClaimTyped
  <2>8. claims' \in [ClaimIds -> ClaimRows]
    BY <1>5, <2>2, <2>3 DEF ClaimTyped
  <2>9. \A q \in ClaimIds : Asked(q)' /\ Made(q)'
    <3> SUFFICES ASSUME NEW q \in ClaimIds PROVE Asked(q)' /\ Made(q)'
      OBVIOUS
    <3>1. CASE q = r
      <4>1. Asked(q)'
        BY <1>3, <3>1 DEF Asked, done
      <4>2. Made(q)'
        BY <1>1, <1>2, <2>1, <2>2, <2>7, <3>1 DEF Made
      <4> QED
        BY <4>1, <4>2
    <3>2. CASE q # r
      BY <1>1, <1>3, <2>7, <3>2 DEF ClaimInv, Asked, Made
    <3> QED
      BY <3>1, <3>2
  <2>10. \A q, s \in ClaimIds : q # s => claims'[q].coins \cap claims'[s].coins = {}
    BY <2>2, <2>6, <2>7 DEF ClaimInv
  <2>11. CASE UNCHANGED <<payers, doubt>>
    <3>1. \A q \in C!Callers : payers'[q].pc \in PaySteps => claims'[payers'[q].claim].st # "none"
      BY <2>4, <2>7, <2>11 DEF ClaimInv
    <3>2. ClaimInv'
      BY <1>1, <1>3, <2>3, <2>5, <2>7, <2>8, <2>9, <2>10, <2>11, <3>1 DEF ClaimInv, ClaimTyped
    <3>3. \A q \in ClaimIds : SentOnceOf(q)'
      <4> SUFFICES ASSUME NEW q \in ClaimIds PROVE SentOnceOf(q)'
        OBVIOUS
      <4>1. CASE q = r
        <5>1. \A s \in C!Callers : ~On(s, q)'
          BY <2>4, <2>11, <4>1 DEF On
        <5> QED
          BY <1>1, <2>2, <2>3, <2>7, <4>1, <5>1 DEF SentOnceOf, Sound
      <4>2. CASE q # r
        BY <1>1, <2>7, <2>11, <4>2 DEF PayInv, SentOnceOf, On
      <4> QED
        BY <4>1, <4>2
    <3> QED
      BY <1>1, <2>11, <3>2, <3>3 DEF PayInv
  <2>12. CASE C!Begins(r, r, row)
    <3> DEFINE x == [pc |-> "begin", claim |-> r, was |-> row]
    <3>1. x \in PayerStates /\ x.pc = "begin" /\ x.claim = r /\ x.was = row /\ r \in C!Callers
      BY <2>2, CallFacts DEF PayerStates, PaySteps
    <3>2. payers' = [payers EXCEPT ![r] = x] /\ doubt \subseteq doubt'
      BY <2>12 DEF C!Begins
    <3> HIDE DEF x
    <3>3. payers' \in [C!Callers -> PayerStates] /\ \A q \in C!Callers : payers'[q] = IF q = r THEN x ELSE payers[q]
      BY <2>3, <3>1, <3>2 DEF ClaimTyped
    <3>4. \A q \in C!Callers : payers'[q].pc \in PaySteps => claims'[payers'[q].claim].st # "none"
      BY <2>2, <2>4, <2>7, <3>1, <3>3 DEF ClaimInv
    <3>5. ClaimInv'
      BY <1>1, <1>3, <2>3, <2>5, <2>7, <2>8, <2>9, <2>10, <3>3, <3>4 DEF ClaimInv, ClaimTyped
    <3>6. \A q \in ClaimIds : SentOnceOf(q)'
      <4> SUFFICES ASSUME NEW q \in ClaimIds PROVE SentOnceOf(q)'
        OBVIOUS
      <4>1. CASE q = r
        <5>1. \A s \in C!Callers : On(s, q)' => s = r
          BY <2>4, <3>3, <4>1 DEF On
        <5>2. Ready(x, row, 0) /\ Sound(row, 0)
          BY <2>2, <3>1 DEF Ready, Sound, C!Payable
        <5> QED
          BY <1>1, <2>3, <2>7, <3>1, <3>3, <4>1, <5>1, <5>2 DEF SentOnceOf
      <4>2. CASE q # r
        <5>1. \A s \in C!Callers : On(s, q)' => On(s, q) /\ payers'[s] = payers[s]
          BY <3>1, <3>3, <4>2 DEF On
        <5> QED
          BY <1>1, <2>7, <3>2, <4>2, <5>1 DEF PayInv, SentOnceOf
      <4> QED
        BY <4>1, <4>2
    <3> QED
      BY <1>1, <3>2, <3>5, <3>6 DEF PayInv
  <2> QED
    BY <1>5, <2>11, <2>12 DEF row, ask
<1> QED
  BY <1>4, <1>5 DEF C!InsertActionClaim

-----------------------------------------------------------------------------
(* What a step does to both.                                                *)

HoldInv == SnapInv /\ ClaimInv /\ PayInv

LEMMA ActionKept ==
    ASSUME SnapInv, UNCHANGED <<rows, snap, made, action>>, doubt \subseteq doubt' PROVE SnapInv'
  BY SnapAside DEF SnapInv, SnapTyped

LEMMA Snapshots == ASSUME HoldInv, ReissuesStay, C!Snapshotting PROVE HoldInv'
<1>1. UNCHANGED <<claims, claiming, payers, due, sent>> /\ action.st = "awaiting_snapshot" /\ doubt \subseteq doubt'
  BY DEF C!Snapshotting, C!SnapBegin, C!SnapIndex, C!SnapIndexFails, C!SnapWalk, C!SnapWalked, C!SnapWalkFails,
         C!SnapInsert, C!SnapSum, C!Watches, C!Gather, HoldInv, SnapInv
<1>2. ClaimInv' /\ PayInv'
  BY <1>1, ClaimAside DEF HoldInv
<1>3. SnapInv'
  BY SnapBegins, SnapIndexes, SnapIndexEnds, SnapWalks, SnapWalkEnds, SnapInserts, SnapSums DEF C!Snapshotting, HoldInv
<1> QED
  BY <1>2, <1>3 DEF HoldInv

\* The chain, its height, the deposit and the action itself.
LEMMA ChainMoves ==
    ASSUME HoldInv, (\E t \in Txs : C!Move(t) \/ C!Reissue(t)) \/ C!Height \/ C!Deposit
                    \/ \E kind \in {"dividend", "vote"} : C!Create(kind)
    PROVE  HoldInv'
<1>1. UNCHANGED <<rows, claims, snap, claiming, payers, due, sent, doubt>>
  BY DEF C!Move, C!Reissue, C!Height, C!Deposit, C!Create, C!store
<1>2. CASE (\E t \in Txs : C!Move(t)) \/ C!Height \/ C!Deposit
  <2>1. UNCHANGED action /\ made \subseteq made' /\ made' \in SUBSET Txs /\ made' \cap C!Issues = made \cap C!Issues
    BY <1>2, TxFacts DEF C!Move, C!Height, C!Deposit, C!store, HoldInv, SnapInv, SnapTyped
  <2>2. SnapInv'
    BY <1>1, <2>1, SnapAside DEF HoldInv, SnapInv, SnapTyped
  <2>3. ClaimInv' /\ PayInv'
    BY <1>1, <2>1, ClaimAside DEF HoldInv
  <2> QED
    BY <2>2, <2>3 DEF HoldInv
<1>3. CASE (\E t \in Txs : C!Reissue(t)) \/ \E kind \in {"dividend", "vote"} : C!Create(kind)
  <2>1. action.st = "none" /\ made \subseteq made' /\ made' \in SUBSET Txs
    BY <1>3, TxFacts DEF C!Reissue, C!Create, C!chain, HoldInv, SnapInv, SnapTyped
  <2>2. /\ action'.st \in {"none", "awaiting_snapshot"}
        /\ action' \in [st : {"none", "awaiting_snapshot", "snapshotted"}, kind : {"none", "dividend", "vote"},
                        funded : BOOLEAN, total : Nat]
    BY <1>3, <2>1 DEF C!Reissue, C!Create, C!store, HoldInv, SnapInv, SnapTyped
  <2>3. snap.pc = "idle" /\ rows = {}
    BY <2>1 DEF HoldInv, SnapInv
  <2>4. SnapInv'
    BY <1>1, <2>1, <2>2, <2>3 DEF HoldInv, SnapInv, SnapTyped
  <2>5. ClaimInv' /\ PayInv'
    BY <1>1, <2>1, ClaimAside DEF HoldInv
  <2> QED
    BY <2>4, <2>5 DEF HoldInv
<1> QED
  BY <1>2, <1>3

\* The money watcher books the deposit.
LEMMA Funds == ASSUME HoldInv, C!Fund \/ C!BookPool PROVE HoldInv'
<1> DEFINE x == IF C!Fund THEN [pc |-> "pool", claim |-> C!Cron] ELSE C!Idle
<1>1. /\ UNCHANGED <<made, rows, snap, claims, claiming, due, sent, doubt>>
      /\ C!Cron \in C!Callers /\ C!Cron \notin ClaimIds /\ payers' = [payers EXCEPT ![C!Cron] = x]
      /\ x \in PayerStates /\ x.pc \notin PaySteps
  BY CallFacts DEF C!Fund, C!BookPool, C!chain, C!Pays, C!Leaves, PayerStates, PaySteps
<1>2. /\ action'.st = action.st /\ action'.total = action.total
      /\ action' \in [st : {"none", "awaiting_snapshot", "snapshotted"}, kind : {"none", "dividend", "vote"},
                      funded : BOOLEAN, total : Nat]
  BY DEF C!Fund, C!BookPool, C!Pays, HoldInv, SnapInv, SnapTyped
<1> HIDE DEF x
<1>3. SnapInv'
  BY <1>1, <1>2, SnapAside DEF HoldInv, SnapInv, SnapTyped
<1>4. ClaimTyped' /\ \A q \in C!Callers : payers'[q] = IF q = C!Cron THEN x ELSE payers[q]
  BY <1>1 DEF HoldInv, ClaimInv, ClaimTyped
<1>5. \A q \in ClaimIds : Asked(q)' /\ Made(q)'
  BY <1>1, <1>2 DEF HoldInv, ClaimInv, Asked, Made
<1>6. ClaimInv'
  BY <1>1, <1>4, <1>5 DEF HoldInv, ClaimInv
<1>7. \A q \in ClaimIds : \A s \in C!Callers : On(s, q)' => On(s, q) /\ payers'[s] = payers[s]
  BY <1>1, <1>4 DEF On
<1>8. \A q \in ClaimIds : SentOnceOf(q)'
  BY <1>1, <1>7 DEF HoldInv, PayInv, SentOnceOf
<1> QED
  BY <1>3, <1>6, <1>8 DEF HoldInv, PayInv

\* It reads what is due, and calls for one after the other.
LEMMA DueRead == ASSUME HoldInv, C!DueBegin PROVE HoldInv'
<1>1. /\ UNCHANGED <<made, rows, action, snap, claims, claiming, payers, sent, doubt>>
      /\ due' = {[claim |-> r, row |-> claims[r]] : r \in {q \in ClaimIds : C!Payable(claims[q])}}
  BY DEF C!DueBegin, C!chain, C!store
<1>2. /\ due' \in SUBSET [claim : ClaimIds, row : ClaimRows]
      /\ \A d \in due' : claims[d.claim].st # "none" /\ C!Payable(d.row)
  BY <1>1 DEF HoldInv, ClaimInv, ClaimTyped, C!Payable
<1>3. SnapInv'
  BY <1>1, ActionKept DEF HoldInv
<1>4. \A q \in ClaimIds : Asked(q)' /\ Made(q)' /\ SentOnceOf(q)'
  BY <1>1 DEF HoldInv, ClaimInv, PayInv, Asked, Made, SentOnceOf, On
<1> QED
  BY <1>1, <1>2, <1>3, <1>4 DEF HoldInv, ClaimInv, ClaimTyped, PayInv

LEMMA DueCalled == ASSUME HoldInv, C!DueNext PROVE HoldInv'
<1>1. UNCHANGED <<made, rows, action, snap, claims, claiming, sent>>
  BY DEF C!DueNext, C!chain, C!store
<1>2. PICK d \in due : due' = due \ {d} /\ C!Begins(C!Cron, d.claim, d.row)
  BY DEF C!DueNext
<1>3. /\ d.claim \in ClaimIds /\ d.row \in ClaimRows /\ claims[d.claim].st # "none" /\ C!Payable(d.row)
      /\ C!Cron \in C!Callers /\ due' \subseteq due
  BY <1>2, CallFacts DEF HoldInv, ClaimInv, ClaimTyped
<1>4. ClaimInv' /\ PayInv' /\ doubt \subseteq doubt'
  BY <1>1, <1>2, <1>3, CallBegins DEF HoldInv
<1> QED
  BY <1>1, <1>4, ActionKept DEF HoldInv

LEMMA Stops == ASSUME HoldInv, C!Crash PROVE HoldInv'
<1>1. /\ UNCHANGED <<rows, action, claims, sent>> /\ due' = {} /\ doubt \subseteq doubt'
      /\ payers' = [p \in C!Callers |-> C!Idle]
      /\ claiming' = [r \in ClaimIds |-> IF claiming[r] = C!Idle THEN C!Idle ELSE [pc |-> "done"]]
  BY DEF C!Crash, C!store
<1>2. SnapInv'
  BY SnapStops DEF HoldInv
<1>3. ClaimTyped' /\ \A q \in ClaimIds : claiming'[q].pc # "insert"
  BY <1>1, CallFacts DEF HoldInv, ClaimInv, ClaimTyped, AskStates
<1>4. \A p \in C!Callers : payers'[p].pc = "idle"
  BY <1>1, CallFacts
<1>5. \A q \in ClaimIds : Asked(q)' /\ Made(q)'
  BY <1>1, <1>3 DEF HoldInv, ClaimInv, Asked, Made
<1>6. ClaimInv'
  BY <1>1, <1>3, <1>4, <1>5 DEF HoldInv, ClaimInv, PaySteps
<1>7. \A q \in ClaimIds : SentOnceOf(q)'
  BY <1>1, <1>4 DEF HoldInv, PayInv, SentOnceOf, On, PaySteps
<1> QED
  BY <1>2, <1>6, <1>7 DEF HoldInv, PayInv

LEMMA HoldSteps == ASSUME HoldInv, ReissuesStay, C!Next PROVE HoldInv'
<1>1. ASSUME NEW p \in C!Callers, C!payActionClaim(p) PROVE HoldInv'
  <2>1. payers[p].pc # "pool"
    BY <1>1 DEF C!payActionClaim, C!Begin, C!Look, C!Intent, C!Send, C!SendFails, C!Fail, C!Record, C!Book, C!At
  <2> QED
    BY <1>1, <2>1, Pays, ActionKept DEF HoldInv
<1>2. ASSUME NEW r \in ClaimIds, NEW coins \in SUBSET rows, C!Claim(r, coins) PROVE HoldInv'
  BY <1>2, ClaimAsked, ActionKept DEF HoldInv
<1>3. ASSUME NEW r \in ClaimIds, C!InsertActionClaim(r) PROVE HoldInv'
  BY <1>3, ClaimInserted, ActionKept DEF HoldInv
<1>4. CASE C!Paying
  BY <1>1, <1>4, Funds, DueRead, DueCalled, CallFacts DEF C!Paying
<1>5. ASSUME NEW r \in ClaimIds, (\E coins \in SUBSET rows : C!Claim(r, coins)) \/ C!InsertActionClaim(r)
                                 \/ C!payActionClaim(r)
      PROVE  HoldInv'
  BY <1>1, <1>2, <1>3, <1>5, CallFacts
<1> QED
  BY <1>4, <1>5, Snapshots, ChainMoves, Stops DEF C!Next

LEMMA HoldStarts == Init => HoldInv
<1> SUFFICES ASSUME Init PROVE HoldInv
  OBVIOUS
<1>1. C!Init
  BY DEF Init
<1>2. Issuance \in Txs /\ C!NoRow \in ClaimRows /\ C!NoRow.st = "none" /\ C!NoRow.coins = {} /\ C!NoRow.net = 0
  BY TxFacts DEF C!NoRow, ClaimRows, C!Issues
<1>3. SnapInv
  <2>1. snap \in SnapStates /\ snap.pc = "idle"
    BY <1>1, SnapKinds DEF C!Init
  <2>2. SnapTyped
    BY <1>1, <1>2, <2>1 DEF C!Init, SnapTyped
  <2> QED
    BY <1>1, <1>2, <2>1, <2>2 DEF C!Init, SnapInv
<1>4. ClaimTyped
  BY <1>1, <1>2, CallFacts DEF C!Init, ClaimTyped
<1>5. \A r \in ClaimIds : Asked(r) /\ Made(r)
  BY <1>1, <1>2, CallFacts DEF C!Init, Asked, Made
<1>6. \A p \in C!Callers : payers[p].pc = "idle"
  BY <1>1, CallFacts DEF C!Init
<1>7. ClaimInv
  BY <1>1, <1>2, <1>4, <1>5, <1>6 DEF C!Init, ClaimInv, PaySteps
<1>8. PayInv
  <2>1. \A r \in ClaimIds : Sound(claims[r], sent[r])
    BY <1>1, <1>2 DEF C!Init, Sound, C!NoRow
  <2> QED
    BY <1>6, <2>1 DEF PayInv, SentOnceOf, On, PaySteps
<1> QED
  BY <1>3, <1>7, <1>8 DEF HoldInv

LEMMA HoldStands == ASSUME HoldInv, UNCHANGED holding PROVE HoldInv'
<1>1. UNCHANGED <<made, rows, snap, action, claims, claiming, payers, due, sent, doubt>>
  BY DEF holding
<1>2. SnapInv'
  BY <1>1, ActionKept DEF HoldInv
<1>3. ClaimInv' /\ PayInv'
  BY <1>1, ClaimAside DEF HoldInv
<1> QED
  BY <1>2, <1>3 DEF HoldInv

\* The sum the property states is one of the library's.
LEMMA PaidSum ==
    ASSUME NEW S, IsFiniteSet(S), NEW f, \A r \in S : f[r] = sent[r] * claims[r].net
    PROVE  C!MapThenSumSet(LAMBDA r : sent[r] * claims[r].net, S) = SumOf(f, S)
<1> DEFINE it == CHOOSE h : h = [t \in SUBSET S |-> IF t = {} THEN 0
                                 ELSE sent[AnyOf(t)] * claims[AnyOf(t)].net + h[t \ {AnyOf(t)}]]
<1>1. PICK g : Accumulator(g, f, S)
  BY SomeAccumulates
<1>2. \A t \in SUBSET S : t # {} => f[AnyOf(t)] = sent[AnyOf(t)] * claims[AnyOf(t)].net
  BY AnyIn
<1>3. g = [t \in SUBSET S |-> IF t = {} THEN 0 ELSE sent[AnyOf(t)] * claims[AnyOf(t)].net + g[t \ {AnyOf(t)}]]
  BY <1>1, <1>2 DEF Accumulator
<1>4. it = [t \in SUBSET S |-> IF t = {} THEN 0 ELSE sent[AnyOf(t)] * claims[AnyOf(t)].net + it[t \ {AnyOf(t)}]]
  BY <1>3
<1>5. Accumulates(it, f, S)
  <2> HIDE DEF it
  <2> QED
    BY <1>2, <1>4 DEF Accumulates
<1>6. C!MapThenSumSet(LAMBDA r : sent[r] * claims[r].net, S) = it[S]
  BY DEF C!MapThenSumSet, C!MapThenFoldSet, AnyOf
<1>7. SumOf(f, S) = it[S]
  <2> HIDE DEF it
  <2> QED
    BY <1>5, SumAccumulated
<1> QED
  BY <1>6, <1>7

\* One claim, which is sent once or not at all.
LEMMA ClaimFits ==
    ASSUME HoldInv, "snapshot" \notin doubt, NEW r \in ClaimIds \ doubt
    PROVE  /\ sent[r] * claims[r].net \in Nat /\ SumOf(Atoms, claims[r].coins) \in Nat
           /\ claims[r].coins \in SUBSET AllCoins /\ C!Supply \in Nat
           /\ C!Supply * (sent[r] * claims[r].net) <= Pool * SumOf(Atoms, claims[r].coins)
<1>1. /\ claims[r] \in ClaimRows /\ sent[r] \in Nat /\ sent[r] <= 1 /\ Made(r)
      /\ made \in SUBSET Txs /\ rows \in SUBSET AllCoins /\ Pool \in Nat
  BY PlatformAssumption DEF HoldInv, ClaimInv, PayInv, SentOnceOf, Sound, ClaimTyped, SnapInv, SnapTyped
<1> DEFINE net    == claims[r].net
           paid   == sent[r] * net
           share  == SumOf(Atoms, claims[r].coins)
           supply == C!Supply
<1>2. claims[r].coins \in SUBSET AllCoins /\ net \in Nat /\ paid \in Nat /\ paid <= net
  <2>1. claims[r].coins \in SUBSET AllCoins /\ net \in Nat /\ sent[r] \in {0, 1}
    BY <1>1 DEF ClaimRows
  <2> QED
    BY <2>1
<1>3. share \in Nat /\ supply \in Nat
  <2>1. share \in Nat
    BY <1>2, CoinFacts
  <2>2. UNION {Outputs[t] : t \in made \cap C!Issues} \in SUBSET AllCoins
    BY <1>1 DEF AllCoins
  <2> DEFINE all == UNION {Outputs[t] : t \in made \cap C!Issues}
  <2>3. supply = SumOf(Atoms, all)
    BY WeightIs DEF C!Supply
  <2> HIDE DEF all
  <2> QED
    BY <2>1, <2>2, <2>3, CoinFacts DEF all
<1>4. CASE claims[r].st = "none"
  <2>1. paid = 0
    BY <1>1, <1>2, <1>4 DEF Made
  <2>2. supply * 0 = 0 /\ 0 <= Pool * share
    BY <1>1, <1>3
  <2> HIDE DEF net, paid, share, supply
  <2>3. supply * paid <= Pool * share
    BY <2>1, <2>2
  <2> QED
    BY <1>2, <1>3, <2>3 DEF net, paid, share, supply
<1>5. CASE claims[r].st # "none"
  <2> DEFINE total == action.total
  <2>1. net * total <= Pool * share /\ total = SumOf(Atoms, rows) /\ supply <= total
    BY <1>1, <1>5 DEF Made, HoldInv, SnapInv, Full
  <2>2. total \in Nat
    BY <1>1, <2>1, CoinFacts
  <2> HIDE DEF net, paid, share, supply, total
  <2>3. supply * paid <= total * paid /\ paid * total <= net * total
    BY <1>2, <1>3, <2>1, <2>2, LessTimes
  <2>4. /\ total * paid = paid * total /\ supply * paid \in Nat /\ paid * total \in Nat /\ net * total \in Nat
        /\ Pool * share \in Nat
    BY <1>1, <1>2, <1>3, <2>2
  <2>5. supply * paid <= Pool * share
    BY <2>1, <2>3, <2>4
  <2> QED
    BY <1>2, <1>3, <2>5 DEF net, paid, share, supply
<1> QED
  BY <1>4, <1>5

LEMMA HoldGives == HoldInv => NoMoreThanItsShare
<1> SUFFICES ASSUME HoldInv, "snapshot" \notin doubt, NEW S \in SUBSET (ClaimIds \ doubt)
             PROVE  C!MapThenSumSet(LAMBDA r : sent[r] * claims[r].net, S) * C!Supply
                        <= Pool * C!Weight(UNION {claims[r].coins : r \in S})
  BY DEF NoMoreThanItsShare, C!NoMoreThanItsShare
<1> DEFINE supply == C!Supply
           f == [r \in S |-> sent[r] * claims[r].net]
           g == [r \in S |-> supply * f[r]]
           w == [r \in S |-> SumOf(Atoms, claims[r].coins)]
           h == [r \in S |-> Pool * w[r]]
           B == [r \in S |-> claims[r].coins]
           all == UNION {claims[r].coins : r \in S}
<1>1. IsFiniteSet(S) /\ Pool \in Nat
  BY CallFacts, FS_Subset, PlatformAssumption
<1>2. \A r \in S : /\ f[r] = sent[r] * claims[r].net /\ f[r] \in Nat /\ w[r] \in Nat /\ supply \in Nat
                   /\ supply * f[r] <= Pool * w[r]
                   /\ B[r] \in SUBSET AllCoins /\ w[r] = SumOf(Atoms, B[r])
  BY ClaimFits
<1>3. \A r \in S : g[r] = supply * f[r] /\ h[r] = Pool * w[r]
  OBVIOUS
<1>4. \A r, q \in S : r # q => B[r] \cap B[q] = {}
  BY DEF HoldInv, ClaimInv
<1>5. all = Together(B, S)
  BY DEF Together
<1>6. supply \in Nat
  <2>1. made \in SUBSET Txs
    BY DEF HoldInv, SnapInv, SnapTyped
  <2> DEFINE them == UNION {Outputs[t] : t \in made \cap C!Issues}
  <2>2. them \in SUBSET AllCoins
    BY <2>1 DEF AllCoins
  <2>3. supply = SumOf(Atoms, them)
    BY WeightIs DEF C!Supply
  <2> HIDE DEF them
  <2> QED
    BY <2>2, <2>3, CoinFacts
<1>7. C!MapThenSumSet(LAMBDA r : sent[r] * claims[r].net, S) = SumOf(f, S)
  <2> HIDE DEF f
  <2> QED
    BY <1>1, <1>2, PaidSum
<1>8. C!Weight(all) = SumOf(Atoms, all)
  BY WeightIs
<1> HIDE DEF supply, f, g, w, h, B, all
<1>9. SumOf(g, S) = supply * SumOf(f, S)
  <2>1. \A r \in S : f[r] \in Int /\ g[r] = supply * f[r]
    BY <1>2, <1>3
  <2> QED
    BY <1>1, <1>6, <2>1, SumTimes
<1>10. SumOf(h, S) = Pool * SumOf(w, S)
  <2>1. \A r \in S : w[r] \in Int /\ h[r] = Pool * w[r]
    BY <1>2, <1>3
  <2> QED
    BY <1>1, <2>1, SumTimes
<1>11. SumOf(g, S) <= SumOf(h, S)
  <2>1. \A r \in S : g[r] \in Int /\ h[r] \in Int /\ g[r] <= h[r]
    BY <1>1, <1>2, <1>3, <1>6
  <2> QED
    BY <1>1, <2>1, SumAtMost
<1>12. SumOf(Atoms, Together(B, S)) = SumOf(w, S)
  <2>1. \A r \in S : IsFiniteSet(B[r]) /\ (\A c \in B[r] : Atoms[c] \in Nat) /\ w[r] = SumOf(Atoms, B[r])
    BY <1>2, CoinFacts
  <2> QED
    BY <1>1, <1>4, <2>1, SumFamily
<1>13. C!Weight(all) = SumOf(w, S)
  BY <1>5, <1>8, <1>12, Zenon
<1>14. SumOf(f, S) \in Nat /\ SumOf(w, S) \in Nat
  BY <1>1, <1>2, SumNat
<1>15. SumOf(f, S) * supply <= Pool * SumOf(w, S)
  <2>1. SumOf(f, S) * supply = supply * SumOf(f, S)
    BY <1>6, <1>14
  <2> QED
    BY <1>9, <1>10, <1>11, <2>1
<1> QED
  BY <1>7, <1>13, <1>15 DEF supply, all

\* Claims are never sent more, one by one or together, than the part of the pool that their coins are of
\* all that was issued (actions.go, actions_snapshot.go): while coins move under the watcher that walks
\* them, whatever is claimed twice, called twice or stopped, as long as what was reissued is not moved.
THEOREM NoClaimIsOverpaid == ReissuesStay => (Spec => []NoMoreThanItsShare)
<1>1. Init => HoldInv
  BY HoldStarts
<1>2. ASSUME ReissuesStay PROVE HoldInv /\ [Next]_vars => HoldInv'
  <2> SUFFICES ASSUME HoldInv, [Next]_vars PROVE HoldInv'
    OBVIOUS
  <2>1. CASE C!Next
    BY <1>2, <2>1, HoldSteps
  <2>2. CASE UNCHANGED holding
    BY <2>2, HoldStands
  <2> QED
    BY <2>1, <2>2 DEF Next, vars
<1>3. HoldInv => NoMoreThanItsShare
  BY HoldGives
<1>4. ASSUME ReissuesStay PROVE Spec => []NoMoreThanItsShare
  <2>1. HoldInv /\ [Next]_vars => HoldInv'
    BY <1>2, <1>4
  <2> QED
    BY <1>1, <1>3, <2>1, PTL DEF Spec
<1> QED
  BY <1>4
=============================================================================
