------------------------- MODULE VerificationProofs -------------------------
(* What holds of identity and business checks for every value of the        *)
(* constants.                                                               *)
EXTENDS Verification, FiniteSetTheorems, WellFoundedInduction, TLAPS

-----------------------------------------------------------------------------
(* Types, and what a process holds between its steps.                       *)

ClaimRows   == [st : {"none", "submitted", "needs_info", "refused", "verified"}, old : BOOLEAN]
CheckRows   == [of : Subjects, st : {"submitted", "complete"}, res : Decisions \cup {"none"},
                says : Decisions, billed : BOOLEAN]
InvoiceRows == [of : Subjects, st : {"unpaid", "paid"}, chk : Nat]
Locks       == {"gated", "claimed", "recorded", "created"}
ReqStates   == [pc : {"idle", "waiting"} \cup Locks, of : Subjects, inv : Nat, chk : Nat, open : BOOLEAN]
AdjStates   == [pc : {"idle", "picked", "freeze", "stamp", "post", "close"}, chk : Nat, gives : BOOLEAN]
Writers     == [pc : {"idle", "read", "stamp", "post"}, gives : BOOLEAN]
Watchers    == [pc : {"idle", "froze", "lifting", "lifted"}, sub : Subs \cup {"none"}]
Counts      == [{"check", "pay", "crash", "down", "reorg", "state", "expire", "console"} -> Nat]

RowsTyped == claims \in ClaimRows /\ checks \in Seq(CheckRows) /\ invoices \in Seq(InvoiceRows)
ReqTyped  == req \in [Requests -> ReqStates]
AdjTyped  == adj \in [Arrivals -> AdjStates]
RestTyped == /\ carried \in BOOLEAN /\ frozen \in BOOLEAN /\ console \in BOOLEAN
             /\ deposit \subseteq Subs /\ hold \in [Subs -> {"none", "active", "cleared"}]
             /\ stmt \in Writers /\ cron \in Writers /\ watch \in Watchers
             /\ stopped \in Nat /\ budget \in Counts

\* Every check of the business is decided and none refuses it.
FirmDone == \A i \in ChecksOf("firm") : checks[i].st = "complete" /\ checks[i].res # "reject"

\* A request that will add a check, and one that will say its invoice is spent.
Opens(r) == req[r].pc = "claimed" \/ (req[r].pc = "gated" /\ ~req[r].open)
Pays(r)  == req[r].pc \in Locks /\ req[r].inv # 0

HeldBy(r) ==
    /\ req[r].pc \in {"recorded", "created"} => req[r].chk \in DOMAIN checks
    /\ Pays(r) => /\ req[r].inv \in DOMAIN invoices
                  /\ invoices[req[r].inv].st = "paid" /\ invoices[req[r].inv].chk = 0
    /\ Opens(r) /\ req[r].of = "firm" => FirmDone

Alone == \A r, q \in Requests : req[r].pc \in Locks /\ req[q].pc \in Locks => r = q

\* A check is decided exactly when its row says how.
ResultsTrue == \A i \in DOMAIN checks : checks[i].st = "submitted" <=> checks[i].res = "none"

Submitting == (\A r \in Requests : HeldBy(r)) /\ Alone /\ ResultsTrue /\ BusinessFinal

Refusing == \E i \in ChecksOf("self") : checks[i].says = "reject"

CarriedOut(a) ==
    /\ adj[a].pc # "idle" => adj[a].chk \in DOMAIN checks
    /\ adj[a].pc = "freeze" => Said(a) = "reject"
    /\ adj[a].pc \in {"stamp", "post"} => checks[adj[a].chk].of = "self"

Adjudicating == (\A a \in Arrivals : CarriedOut(a)) /\ (claims.st = "refused" => Refusing)

Inv == RowsTyped /\ ReqTyped /\ AdjTyped /\ RestTyped /\ Submitting /\ Adjudicating

-----------------------------------------------------------------------------
(* Rows are added at the end, and changed in place.                         *)

LEMMA Edited ==
    ASSUME NEW T, NEW s \in Seq(T), NEW n \in DOMAIN s, NEW e \in T
    PROVE  LET t == [s EXCEPT ![n] = e]
           IN  t \in Seq(T) /\ DOMAIN t = DOMAIN s /\ t[n] = e /\ \A m \in DOMAIN s : m # n => t[m] = s[m]
  OBVIOUS

LEMMA Added ==
    ASSUME NEW T, NEW s \in Seq(T), NEW e \in T
    PROVE  LET t == Append(s, e)
           IN  /\ t \in Seq(T) /\ DOMAIN t = DOMAIN s \cup {Len(s) + 1} /\ Len(s) + 1 \notin DOMAIN s
               /\ t[Len(s) + 1] = e /\ \A m \in DOMAIN s : t[m] = s[m]
  OBVIOUS

LEMMA Rewritten ==
    ASSUME NEW T, NEW s \in Seq(T), NEW t, t = [n \in DOMAIN s |-> t[n]], \A n \in DOMAIN s : t[n] \in T
    PROVE  t \in Seq(T) /\ DOMAIN t = DOMAIN s
<1>1. Len(s) \in Nat /\ DOMAIN s = 1..Len(s)
  OBVIOUS
<1>2. t \in [1..Len(s) -> T]
  BY <1>1
<1> QED
  BY <1>1, <1>2

LEMMA LeastIn ==
    ASSUME NEW T \in SUBSET Nat, T # {}
    PROVE  Min(T) \in T /\ \A n \in T : Min(T) <= n
<1> DEFINE less == {ss \in Nat \X Nat : ss[1] < ss[2]}
<1>1. IsWellFoundedOn(less, Nat)
  BY NatLessThanWellFounded, Zenon DEF OpToRel
<1>2. PICK d \in T : \A e \in T : ~(<<e, d>> \in less)
  BY <1>1, WFMin, Zenon
<1>3. \A e \in T : d <= e
  <2> TAKE e \in T
  <2>1. ~(e < d) /\ e \in Nat /\ d \in Nat
    BY <1>2
  <2> QED
    BY <2>1
<1> QED
  BY <1>3 DEF Min

LEMMA NewestIn ==
    ASSUME NEW T, NEW s \in Seq(T), NEW P \in SUBSET DOMAIN s, P # {}
    PROVE  Max(P) \in P /\ \A n \in P : n <= Max(P)
<1> DEFINE N == Len(s)
           D == {N - n : n \in P}
           less == {ss \in Nat \X Nat : ss[1] < ss[2]}
<1>1. N \in Nat /\ P \subseteq 1..N
  OBVIOUS
<1> HIDE DEF N
<1>2. D \in SUBSET Nat /\ D # {}
  BY <1>1
<1>3. IsWellFoundedOn(less, Nat)
  BY NatLessThanWellFounded, Zenon DEF OpToRel
<1>4. PICK d \in D : \A e \in D : ~(<<e, d>> \in less)
  BY <1>2, <1>3, WFMin, Zenon
<1>5. PICK n \in P : d = N - n
  OBVIOUS
<1>6. \A m \in P : n >= m
  <2> TAKE m \in P
  <2>1. ~(N - m < d)
    BY <1>1, <1>2, <1>4
  <2> QED
    BY <1>1, <1>5, <2>1
<1>7. Max(P) \in P /\ \A m \in P : Max(P) >= m
  BY <1>6 DEF Max
<1> QED
  BY <1>1, <1>7

-----------------------------------------------------------------------------
(* The requests, under verifyMu.                                            *)

LEMMA InvStart == Init => Inv
<1> SUFFICES ASSUME Init PROVE Inv
  OBVIOUS
<1> DEFINE paid == [of |-> "self", st |-> "complete", res |-> "clear", says |-> "clear", billed |-> TRUE]
           fee  == [of |-> "self", st |-> "paid", chk |-> 1]
<1>0. paid \in CheckRows /\ fee \in InvoiceRows
  BY VerificationAssumption DEF CheckRows, InvoiceRows, Subjects
<1>a. claims \in ClaimRows
  <2>1. claims = [st |-> "none", old |-> FALSE] \/ claims = [st |-> "verified", old |-> FALSE]
    BY DEF Init
  <2>2. [st |-> "none", old |-> FALSE] \in ClaimRows /\ [st |-> "verified", old |-> FALSE] \in ClaimRows
    BY DEF ClaimRows
  <2> QED
    BY <2>1, <2>2
<1>1. DOMAIN checks \subseteq {1} /\ DOMAIN invoices \subseteq {1} /\ RowsTyped /\ ResultsTrue
  <2>1. CASE checks = <<>> /\ invoices = <<>>
    BY <1>a, <2>1 DEF RowsTyped, ResultsTrue
  <2>2. CASE checks = <<paid>> /\ invoices = <<fee>>
    <3>1. RowsTyped
      <4> HIDE DEF paid, fee
      <4> QED
        BY <1>0, <1>a, <2>2 DEF RowsTyped
    <3>2. checks[1] = paid
      BY <2>2
    <3> QED
      BY <2>2, <3>1, <3>2 DEF ResultsTrue
  <2> QED
    BY <2>1, <2>2 DEF Init
<1>2. ReqTyped /\ AdjTyped /\ RestTyped
  BY VerificationAssumption DEF Init, ReqTyped, AdjTyped, RestTyped, ReqStates, AdjStates, Locks, Asking, Deciding,
     Subjects, Writers, Watchers, Writing, Watching, Counts
<1>3. Submitting
  BY <1>1 DEF Init, Submitting, HeldBy, Alone, Asking, Opens, Pays, Locks, BusinessFinal, ChecksOf
<1>4. Adjudicating
  BY DEF Init, Adjudicating, CarriedOut, Deciding
<1> QED
  BY <1>1, <1>2, <1>3, <1>4 DEF Inv

\* What one request of those past the lock does, all others being before it.
LEMMA ReqTurn ==
    ASSUME ReqTyped, NEW r \in Requests, NEW rec \in ReqStates, req' = [req EXCEPT ![r] = rec],
           \A q \in Requests : q # r => req[q].pc \notin Locks, HeldBy(r)'
    PROVE  ReqTyped' /\ (\A q \in Requests : HeldBy(q)') /\ Alone'
<1>1. ReqTyped' /\ req'[r] = rec /\ \A q \in Requests : q # r => req'[q].pc \notin Locks
  BY DEF ReqTyped
<1>2. ASSUME NEW q \in Requests, q # r PROVE HeldBy(q)'
  BY <1>1, <1>2 DEF HeldBy, Opens, Pays, Locks
<1> QED
  BY <1>1, <1>2 DEF Alone

LEMMA OthersBefore ==
    ASSUME Alone, NEW r \in Requests, req[r].pc \in Locks
    PROVE  \A q \in Requests : q # r => req[q].pc \notin Locks
  BY DEF Alone

LEMMA HeldAtRest ==
    ASSUME NEW r \in Requests, req'[r].pc \in {"idle", "waiting"}
    PROVE  HeldBy(r)'
  BY DEF HeldBy, Opens, Pays, Locks

\* A change of rows that says nothing new of a business.
Alike ==
    /\ DOMAIN checks' = DOMAIN checks
    /\ \A i \in DOMAIN checks : checks'[i].of = checks[i].of /\ checks'[i].st = checks[i].st /\ checks'[i].res = checks[i].res

LEMMA FirmAlike ==
    ASSUME Alike, ResultsTrue, BusinessFinal
    PROVE  ResultsTrue' /\ BusinessFinal' /\ (FirmDone => FirmDone')
<1>1. ChecksOf("firm")' = ChecksOf("firm") /\ ChecksOf("firm") \subseteq DOMAIN checks
  BY DEF Alike, ChecksOf
<1> QED
  BY <1>1 DEF Alike, ResultsTrue, BusinessFinal, FirmDone

LEMMA Same == UNCHANGED checks => Alike
  BY DEF Alike

\* No row goes, and none changes whom it is about or what the provider says.
Grown ==
    /\ DOMAIN checks \subseteq DOMAIN checks'
    /\ \A i \in DOMAIN checks : checks'[i].of = checks[i].of /\ checks'[i].says = checks[i].says

\* What a step of the requests, or on the rows they read, keeps.
Kept == checks' \in Seq(CheckRows) /\ invoices' \in Seq(InvoiceRows) /\ ReqTyped' /\ Submitting' /\ Grown

LEMMA KeptBefore ==
    ASSUME Inv, NEW r \in Requests, NEW rec \in ReqStates, SetReq(r, rec), rec.pc \in {"idle", "waiting"},
           req[r].pc \in {"idle", "waiting"}, UNCHANGED <<checks, invoices>>
    PROVE  Kept
<1>1. ReqTyped' /\ req'[r] = rec /\ \A q \in Requests : q # r => req'[q] = req[q]
  BY DEF SetReq, Inv, ReqTyped
<1>2. \A q \in Requests : HeldBy(q)'
  <2> TAKE q \in Requests
  <2>1. CASE q = r
    BY <1>1, <2>1, HeldAtRest
  <2>2. CASE q # r
    <3>1. HeldBy(q) /\ req'[q] = req[q]
      BY <1>1, <2>2 DEF Inv, Submitting
    <3> QED
      BY <3>1 DEF HeldBy, Opens, Pays, FirmDone, ChecksOf
  <2> QED
    BY <2>1, <2>2
<1>3. Alone'
  BY <1>1 DEF Inv, Submitting, Alone, Locks
<1>4. Alike /\ Grown
  BY DEF Alike, Grown
<1> QED
  BY <1>1, <1>2, <1>3, <1>4, FirmAlike DEF Inv, RowsTyped, Submitting, Kept

LEMMA KeptPast ==
    ASSUME Inv, NEW r \in Requests, NEW rec \in ReqStates, SetReq(r, rec), HeldBy(r)',
           \A q \in Requests : q # r => req[q].pc \notin Locks, Alike, Grown,
           checks' \in Seq(CheckRows), invoices' \in Seq(InvoiceRows)
    PROVE  Kept
<1>1. ReqTyped' /\ (\A q \in Requests : HeldBy(q)') /\ Alone'
  BY ReqTurn DEF SetReq, Inv
<1>2. ResultsTrue' /\ BusinessFinal'
  BY FirmAlike DEF Inv, Submitting
<1> QED
  BY <1>1, <1>2 DEF Kept, Submitting

LEMMA AskingTyped == Asking \in ReqStates /\ Asking.pc = "idle"
  BY DEF Asking, ReqStates, Subjects

LEMMA KeptOut ==
    ASSUME Inv, NEW r \in Requests, req[r].pc \in Locks, SetReq(r, Asking), UNCHANGED <<checks, invoices>>
    PROVE  Kept
<1>1. req'[r] = Asking
  BY DEF Inv, ReqTyped, SetReq
<1>2. HeldBy(r)'
  BY <1>1, AskingTyped, HeldAtRest
<1>3. \A q \in Requests : q # r => req[q].pc \notin Locks
  BY OthersBefore DEF Inv, Submitting
<1> QED
  BY <1>2, <1>3, AskingTyped, KeptPast DEF Alike, Grown, Inv, RowsTyped

LEMMA KeepCrash == ASSUME Inv, Crash PROVE Kept
<1>1. ReqTyped' /\ \A r \in Requests : req'[r] = Asking
  BY AskingTyped DEF Crash, ReqTyped
<1>2. (\A r \in Requests : HeldBy(r)') /\ Alone'
  BY <1>1, AskingTyped DEF HeldBy, Opens, Pays, Locks, Alone
<1>3. UNCHANGED <<checks, invoices>>
  BY DEF Crash, rows
<1>4. Alike /\ Grown
  BY <1>3 DEF Alike, Grown
<1> QED
  BY <1>1, <1>2, <1>3, <1>4, FirmAlike DEF Inv, RowsTyped, Submitting, Kept

LEMMA KeepSubmit ==
    ASSUME Inv, NEW r \in Requests, SubmitIdentity(r) \/ SubmitBusiness(r)
    PROVE  Kept
<1> DEFINE self == [Asking EXCEPT !.pc = "waiting"]
           firm == [Asking EXCEPT !.pc = "waiting", !.of = "firm"]
<1>1. self \in ReqStates /\ firm \in ReqStates /\ self.pc = "waiting" /\ firm.pc = "waiting"
  BY DEF Asking, ReqStates, Subjects
<1> HIDE DEF self, firm
<1>2. CASE SubmitIdentity(r)
  <2>1. SetReq(r, self) /\ UNCHANGED <<checks, invoices>> /\ req[r].pc = "idle"
    BY <1>2 DEF SubmitIdentity, self, rows
  <2> QED
    BY <1>1, <2>1, KeptBefore
<1>3. CASE SubmitBusiness(r)
  <2>1. SetReq(r, firm) /\ UNCHANGED <<checks, invoices>> /\ req[r].pc = "idle"
    BY <1>3 DEF SubmitBusiness, firm, rows
  <2> QED
    BY <1>1, <2>1, KeptBefore
<1> QED
  BY <1>2, <1>3

\* The rows of a payment.
LEMMA RaisedTyped ==
    ASSUME RowsTyped, NEW s \in Subjects
    PROVE  LET up == Raised(s, "unpaid")
           IN  /\ up \in Seq(InvoiceRows) /\ DOMAIN invoices \subseteq DOMAIN up
               /\ \A i \in DOMAIN invoices : up[i] = invoices[i]
               /\ \A i \in DOMAIN up \ DOMAIN invoices : up[i].chk = 0
<1> DEFINE e == [of |-> s, st |-> "unpaid", chk |-> 0]
<1>1. e \in InvoiceRows /\ e.chk = 0
  BY DEF InvoiceRows
<1>2. Raised(s, "unpaid") = invoices \/ Raised(s, "unpaid") = Append(invoices, e)
  BY DEF Raised
<1> HIDE DEF e
<1>3. invoices \in Seq(InvoiceRows)
  BY DEF RowsTyped
<1> QED
  BY <1>1, <1>2, <1>3, Added

\* What was paid and bought nothing stays so.
InvoicesGrow ==
    /\ invoices' \in Seq(InvoiceRows) /\ DOMAIN invoices \subseteq DOMAIN invoices'
    /\ \A i \in DOMAIN invoices : /\ invoices'[i].chk = invoices[i].chk
                                  /\ invoices[i].st = "paid" => invoices'[i].st = "paid"
    /\ \A i \in DOMAIN invoices' \ DOMAIN invoices : invoices'[i].chk = 0

LEMMA PayGrows == ASSUME RowsTyped, NEW s \in Subjects, Pay(s) PROVE InvoicesGrow
<1> DEFINE up == Raised(s, "unpaid")
           paid(i) == IF up[i].of = s /\ up[i].chk = 0 THEN [up[i] EXCEPT !.st = "paid"] ELSE up[i]
<1>1. /\ up \in Seq(InvoiceRows) /\ DOMAIN invoices \subseteq DOMAIN up
      /\ \A i \in DOMAIN invoices : up[i] = invoices[i]
      /\ \A i \in DOMAIN up \ DOMAIN invoices : up[i].chk = 0
  BY RaisedTyped
<1>2. invoices' = [i \in DOMAIN up |-> paid(i)]
  BY DEF Pay
<1> HIDE DEF up
<1>3. \A i \in DOMAIN up : up[i] \in InvoiceRows
  BY <1>1
<1>4. \A i \in DOMAIN up : paid(i) \in InvoiceRows /\ paid(i).chk = up[i].chk /\ (up[i].st = "paid" => paid(i).st = "paid")
  BY <1>3 DEF InvoiceRows
<1> HIDE DEF paid
<1>5. \A i \in DOMAIN up : invoices'[i] = paid(i)
  BY <1>2
<1>6. invoices' \in Seq(InvoiceRows) /\ DOMAIN invoices' = DOMAIN up
  BY <1>1, <1>2, <1>4, <1>5, Rewritten
<1> QED
  BY <1>1, <1>4, <1>5, <1>6 DEF InvoicesGrow

LEMMA KeepPay == ASSUME Inv, NEW s \in Subjects, Pay(s) PROVE Kept
<1>1. InvoicesGrow
  BY PayGrows DEF Inv
<1>2. UNCHANGED <<checks, req>>
  BY DEF Pay, procs
<1>3. \A q \in Requests : HeldBy(q)'
  <2> TAKE q \in Requests
  <2>1. HeldBy(q) /\ req[q] \in ReqStates
    BY DEF Inv, Submitting, ReqTyped
  <2>2. Pays(q)' => invoices'[req[q].inv].st = "paid" /\ invoices'[req[q].inv].chk = 0 /\ req[q].inv \in DOMAIN invoices'
    BY <1>1, <1>2, <2>1 DEF InvoicesGrow, HeldBy, Pays
  <2> QED
    BY <1>2, <2>1, <2>2 DEF HeldBy, Opens, Pays, FirmDone, ChecksOf
<1>4. Alone'
  BY <1>2 DEF Inv, Submitting, Alone
<1>5. Alike /\ Grown
  BY <1>2 DEF Alike, Grown
<1> QED
  BY <1>1, <1>2, <1>3, <1>4, <1>5, FirmAlike DEF Inv, ReqTyped, RowsTyped, InvoicesGrow, Submitting, Kept

\* A business that is not with the provider and was not refused has every check decided.
LEMMA FirmFree ==
    ASSUME Inv, ~RecordsOnly("firm"), ~Is("firm", "complete", {"reject"})
    PROVE  FirmDone
<1>1. SUFFICES ASSUME ChecksOf("firm") # {} PROVE FirmDone
  BY DEF FirmDone
<1> DEFINE n == Max(ChecksOf("firm"))
<1>2. n \in ChecksOf("firm") /\ \A i \in ChecksOf("firm") : i <= n
  BY <1>1, NewestIn DEF Inv, RowsTyped, ChecksOf
<1>3. n \in DOMAIN checks /\ checks[n] \in CheckRows
  BY <1>2 DEF ChecksOf, Inv, RowsTyped
<1>4. checks[n].st = "complete" /\ checks[n].res # "reject"
  <2>1. ~(checks[n].st = "submitted" /\ checks[n].res \in {"none"})
    BY <1>1 DEF RecordsOnly, Is
  <2>2. ~(checks[n].st = "complete" /\ checks[n].res \in {"reject"})
    BY <1>1 DEF Is
  <2>3. checks[n].st = "submitted" <=> checks[n].res = "none"
    BY <1>3 DEF Inv, Submitting, ResultsTrue
  <2> HIDE DEF n
  <2> QED
    BY <1>3, <2>1, <2>2, <2>3 DEF CheckRows
<1>5. \A i \in ChecksOf("firm") : i # n => checks[i].st = "complete" /\ checks[i].res # "reject"
  <2> TAKE i \in ChecksOf("firm")
  <2>1. i # n => i < n
    <3>1. i \in Nat /\ n \in Nat /\ i <= n
      BY <1>2, <1>3 DEF ChecksOf, Inv, RowsTyped
    <3> HIDE DEF n
    <3> QED
      BY <3>1
  <2> QED
    BY <1>2, <2>1 DEF Inv, Submitting, BusinessFinal
<1> QED
  BY <1>4, <1>5 DEF FirmDone

LEMMA KeepGate == ASSUME Inv, NEW r \in Requests, Gate(r) PROVE Kept
<1> DEFINE s == req[r].of
           free == Continues(s) \/ RecordsOnly(s)
           good == {i \in Unspent(s) : invoices[i].st = "paid"}
           on == [req[r] EXCEPT !.pc = "gated", !.open = RecordsOnly(s), !.inv = IF free THEN 0 ELSE Min(good)]
<1>1. /\ \A q \in Requests : req[q].pc \notin Locks
      /\ req[r] \in ReqStates /\ s \in Subjects /\ req[r].pc = "waiting"
  <2>1. \A q \in Requests : req[q].pc \in {"idle", "waiting"}
    BY DEF Gate, Locked
  <2> QED
    BY <2>1 DEF Gate, Locks, Inv, ReqTyped, ReqStates
<1>2. UNCHANGED checks
  BY DEF Gate
<1>3. Alike /\ Grown /\ checks' \in Seq(CheckRows) /\ invoices \in Seq(InvoiceRows)
  BY <1>2 DEF Alike, Grown, Inv, RowsTyped
<1>4. CASE SetReq(r, Asking)
  <2>1. invoices' \in Seq(InvoiceRows)
    <3>1. invoices' = invoices \/ invoices' = Raised(s, "unpaid")
      BY <1>4 DEF Gate
    <3> QED
      BY <1>1, <1>3, <3>1, RaisedTyped DEF Inv
  <2>2. HeldBy(r)'
    <3>1. req'[r].pc = "idle"
      BY <1>4, AskingTyped DEF SetReq, Inv, ReqTyped
    <3> QED
      BY <3>1, HeldAtRest
  <2> QED
    BY <1>1, <1>3, <1>4, <2>1, <2>2, AskingTyped, KeptPast
<1>5. CASE /\ ~(s = "firm" /\ Is(s, "complete", {"reject"})) /\ (free \/ good # {})
           /\ SetReq(r, on) /\ UNCHANGED invoices
  <2>1. good \in SUBSET Nat /\ \A i \in good : i \in DOMAIN invoices /\ invoices[i].st = "paid" /\ invoices[i].chk = 0
    BY <1>3 DEF Unspent
  <2>2. ~free => Min(good) \in good
    BY <1>5, <2>1, LeastIn
  <2>3. on.inv \in Nat /\ (on.inv # 0 => on.inv \in good)
    <3>1. on.inv = IF free THEN 0 ELSE Min(good)
      BY <1>1 DEF ReqStates
    <3>2. CASE free
      <4>1. on.inv = 0
        BY <3>1, <3>2
      <4> QED
        BY <4>1
    <3>3. CASE ~free
      <4>1. on.inv = Min(good)
        BY <3>1, <3>3
      <4> QED
        BY <2>1, <2>2, <3>3, <4>1
    <3> QED
      BY <3>2, <3>3
  <2>4. on \in ReqStates /\ on.pc = "gated" /\ on.of = s /\ (on.open <=> RecordsOnly(s))
    <3>1. RecordsOnly(s) \in BOOLEAN
      BY DEF RecordsOnly, Is
    <3>2. (IF free THEN 0 ELSE Min(good)) \in Nat
      <4>1. ~free => Min(good) \in Nat
        <5> HIDE DEF good, free
        <5> QED
          BY <2>1, <2>2
      <4> HIDE DEF good, free
      <4>2. CASE free
        BY <4>2
      <4>3. CASE ~free
        BY <4>1, <4>3
      <4> QED
        BY <4>2, <4>3
    <3> HIDE DEF good, free
    <3> QED
      BY <1>1, <3>1, <3>2 DEF ReqStates, Locks
  <2> HIDE DEF on, good, free
  <2>5. req'[r] = on
    BY <1>5 DEF SetReq, Inv, ReqTyped
  <2>6. s = "firm" /\ ~on.open => FirmDone
    BY <1>5, <2>4, FirmFree
  <2>7. HeldBy(r)'
    <3>1. Opens(r)' /\ req'[r].of = "firm" => FirmDone'
      BY <1>2, <2>4, <2>5, <2>6 DEF Opens, FirmDone, ChecksOf
    <3>2. Pays(r)' => on.inv \in good
      BY <2>3, <2>5 DEF Pays
    <3> QED
      BY <1>5, <2>1, <2>4, <2>5, <3>1, <3>2 DEF HeldBy
  <2> QED
    BY <1>1, <1>3, <1>5, <2>4, <2>7, KeptPast
<1> QED
  BY <1>4, <1>5 DEF Gate

LEMMA KeepProvision ==
    ASSUME Inv, NEW r \in Requests, Unregistered(r) \/ ClaimsSubmitted(r) \/ Provision(r)
    PROVE  Kept
<1> DEFINE on == [req[r] EXCEPT !.pc = "claimed"]
<1>1. req[r] \in ReqStates /\ req[r].pc = "gated" /\ UNCHANGED <<checks, invoices>>
  BY DEF Inv, ReqTyped, Unregistered, ClaimsSubmitted, Provision, rows
<1>2. CASE SetReq(r, Asking)
  BY <1>1, <1>2, KeptOut DEF Locks
<1>3. CASE SetReq(r, on) /\ (req[r].of = "firm" => ~req[r].open)
  <2>1. on \in ReqStates /\ on.pc = "claimed" /\ on.of = req[r].of /\ on.inv = req[r].inv
    BY <1>1 DEF ReqStates, Locks
  <2> HIDE DEF on
  <2>2. req'[r] = on /\ HeldBy(r)
    BY <1>3 DEF SetReq, Inv, ReqTyped, Submitting
  <2>3. HeldBy(r)'
    BY <1>1, <1>3, <2>1, <2>2 DEF HeldBy, Opens, Pays, Locks, FirmDone, ChecksOf
  <2>4. \A q \in Requests : q # r => req[q].pc \notin Locks
    BY <1>1, OthersBefore DEF Inv, Submitting, Locks
  <2> QED
    BY <1>1, <1>3, <2>1, <2>3, <2>4, KeptPast DEF Alike, Grown, Inv, RowsTyped
<1> QED
  BY <1>1, <1>2, <1>3 DEF Unregistered, ClaimsSubmitted, Provision, ReqStates

LEMMA KeepRecorded == ASSUME Inv, NEW r \in Requests, Recorded(r) PROVE Kept
<1>1. PICK d \in Decisions : checks' = Append(checks, [of |-> req[r].of, st |-> "submitted", res |-> "none",
                                                       says |-> d, billed |-> FALSE])
  BY DEF Recorded
<1> DEFINE e == [of |-> req[r].of, st |-> "submitted", res |-> "none", says |-> d, billed |-> FALSE]
           n == Len(checks) + 1
           on == [req[r] EXCEPT !.pc = "recorded", !.chk = n]
<1>2. req[r] \in ReqStates /\ req[r].pc = "claimed" /\ SetReq(r, on) /\ UNCHANGED invoices /\ HeldBy(r)
  BY DEF Inv, ReqTyped, Recorded, Submitting
<1>3. e \in CheckRows /\ e.of = req[r].of /\ e.st = "submitted" /\ e.res = "none"
  BY <1>2 DEF CheckRows, ReqStates
<1>4. checks \in Seq(CheckRows) /\ n \in Nat
  BY DEF Inv, RowsTyped
<1>5. on \in ReqStates /\ on.pc = "recorded" /\ on.chk = n /\ on.inv = req[r].inv
  <2> HIDE DEF n
  <2> QED
    BY <1>2, <1>4 DEF ReqStates, Locks
<1> HIDE DEF e, on
<1>6. /\ checks' \in Seq(CheckRows) /\ DOMAIN checks' = DOMAIN checks \cup {n} /\ n \notin DOMAIN checks
      /\ checks'[n] = e /\ \A i \in DOMAIN checks : checks'[i] = checks[i]
  BY <1>1, <1>3, <1>4, Added DEF e
<1>7. \A i \in DOMAIN checks : i \in Nat /\ i < n
  BY <1>4
<1> HIDE DEF n
<1>8. req' = [req EXCEPT ![r] = on] /\ req'[r] = on
  BY <1>2 DEF SetReq, Inv, ReqTyped
<1>9. HeldBy(r)'
  BY <1>2, <1>5, <1>6, <1>8 DEF HeldBy, Pays, Opens, Locks
<1>10. \A q \in Requests : q # r => req[q].pc \notin Locks
  BY <1>2, OthersBefore DEF Inv, Submitting, Locks
<1>11. ReqTyped' /\ (\A q \in Requests : HeldBy(q)') /\ Alone'
  BY <1>5, <1>8, <1>9, <1>10, ReqTurn DEF Inv
<1>12. ResultsTrue'
  BY <1>3, <1>6 DEF ResultsTrue, Inv, Submitting
<1>13. BusinessFinal'
  <2> SUFFICES ASSUME NEW i \in ChecksOf("firm")', NEW j \in ChecksOf("firm")', i < j
               PROVE  checks'[i].st = "complete" /\ checks'[i].res # "reject"
    BY DEF BusinessFinal
  <2>1. CASE j = n
    <3>1. req[r].of = "firm" /\ FirmDone
      BY <1>2, <1>3, <1>6, <2>1 DEF ChecksOf, HeldBy, Opens
    <3>2. i \in ChecksOf("firm")
      BY <1>4, <1>6, <2>1 DEF ChecksOf
    <3> QED
      BY <1>6, <3>1, <3>2 DEF FirmDone, ChecksOf
  <2>2. CASE j # n
    <3>1. j \in ChecksOf("firm") /\ j < n /\ j \in Nat
      BY <1>6, <1>7, <2>2 DEF ChecksOf
    <3>2. i \in ChecksOf("firm")
      BY <1>4, <1>6, <1>7, <3>1 DEF ChecksOf
    <3> QED
      BY <1>6, <3>1, <3>2 DEF BusinessFinal, Inv, Submitting, ChecksOf
  <2> QED
    BY <2>1, <2>2
<1> QED
  BY <1>2, <1>6, <1>11, <1>12, <1>13 DEF Kept, Submitting, Grown, Inv, RowsTyped

LEMMA KeepCreated == ASSUME Inv, NEW r \in Requests, Created(r) PROVE Kept
<1> DEFINE n == req[r].chk
           bill == req[r].inv # 0
           e == [checks[n] EXCEPT !.billed = bill]
           on == [req[r] EXCEPT !.pc = "created"]
<1>1. req[r] \in ReqStates /\ req[r].pc = "recorded" /\ SetReq(r, on) /\ UNCHANGED invoices /\ HeldBy(r)
  BY DEF Inv, ReqTyped, Created, Submitting
<1>2. n \in DOMAIN checks /\ checks \in Seq(CheckRows) /\ checks[n] \in CheckRows
  BY <1>1 DEF HeldBy, Inv, RowsTyped
<1>3. bill \in BOOLEAN /\ checks' = [checks EXCEPT ![n] = e]
  BY DEF Created
<1> HIDE DEF bill
<1>4. e \in CheckRows /\ e.of = checks[n].of /\ e.st = checks[n].st /\ e.res = checks[n].res /\ e.says = checks[n].says
  BY <1>2, <1>3 DEF CheckRows
<1>5. on \in ReqStates /\ on.pc = "created" /\ on.chk = n /\ on.inv = req[r].inv
  BY <1>1 DEF ReqStates, Locks
<1> HIDE DEF e, on, n
<1>6. /\ checks' \in Seq(CheckRows) /\ DOMAIN checks' = DOMAIN checks
      /\ checks'[n] = e /\ \A i \in DOMAIN checks : i # n => checks'[i] = checks[i]
  BY <1>2, <1>3, <1>4, Edited
<1>7. Alike /\ Grown
  BY <1>4, <1>6 DEF Alike, Grown
<1>8. req'[r] = on
  BY <1>1 DEF SetReq, Inv, ReqTyped
<1>9. HeldBy(r)'
  BY <1>1, <1>2, <1>5, <1>6, <1>8 DEF HeldBy, Pays, Opens, Locks
<1>10. \A q \in Requests : q # r => req[q].pc \notin Locks
  BY <1>1, OthersBefore DEF Inv, Submitting, Locks
<1> QED
  BY <1>1, <1>5, <1>6, <1>7, <1>9, <1>10, KeptPast DEF Inv, RowsTyped

LEMMA SpentTyped ==
    ASSUME Inv, NEW r \in Requests, SpendFee(r)
    PROVE  /\ invoices' \in Seq(InvoiceRows) /\ DOMAIN invoices' = DOMAIN invoices
           /\ \A i \in DOMAIN invoices : /\ invoices'[i].st = invoices[i].st
                                         /\ invoices'[i].chk = IF i = req[r].inv THEN req[r].chk ELSE invoices[i].chk
<1> DEFINE e(i) == IF i = req[r].inv THEN [invoices[i] EXCEPT !.chk = req[r].chk] ELSE invoices[i]
<1>1. invoices \in Seq(InvoiceRows) /\ invoices' = [i \in DOMAIN invoices |-> e(i)] /\ req[r].chk \in Nat
  BY DEF Inv, RowsTyped, ReqTyped, ReqStates, SpendFee
<1>2. \A i \in DOMAIN invoices : invoices[i] \in InvoiceRows
  BY <1>1
<1>3. \A i \in DOMAIN invoices : /\ e(i) \in InvoiceRows /\ e(i).st = invoices[i].st
                                 /\ e(i).chk = IF i = req[r].inv THEN req[r].chk ELSE invoices[i].chk
  BY <1>1, <1>2 DEF InvoiceRows
<1> HIDE DEF e
<1>4. \A i \in DOMAIN invoices : invoices'[i] = e(i)
  BY <1>1
<1> QED
  BY <1>1, <1>3, <1>4, Rewritten

LEMMA KeepSpent == ASSUME Inv, NEW r \in Requests, SpendFee(r) PROVE Kept
<1>1. req[r].pc = "created" /\ SetReq(r, Asking) /\ UNCHANGED checks
  BY DEF SpendFee
<1>2. invoices' \in Seq(InvoiceRows)
  BY SpentTyped
<1>3. HeldBy(r)'
  <2>1. req'[r].pc = "idle"
    BY <1>1, AskingTyped DEF SetReq, Inv, ReqTyped
  <2> QED
    BY <2>1, HeldAtRest
<1>4. \A q \in Requests : q # r => req[q].pc \notin Locks
  BY <1>1, OthersBefore DEF Inv, Submitting, Locks
<1> QED
  BY <1>1, <1>2, <1>3, <1>4, AskingTyped, KeptPast DEF Alike, Grown, Inv, RowsTyped

LEMMA KeepClosed == ASSUME Inv, NEW a \in Arrivals, Closes(a) PROVE Kept
<1> DEFINE n == adj[a].chk
           d == Said(a)
           e == [checks[n] EXCEPT !.st = "complete", !.res = d]
<1>1. UNCHANGED <<invoices, req>> /\ adj[a].pc = "close" /\ CarriedOut(a)
  BY DEF Closes, Inv, Adjudicating
<1>2. n \in DOMAIN checks /\ checks \in Seq(CheckRows) /\ checks[n] \in CheckRows
  BY <1>1 DEF CarriedOut, Inv, RowsTyped
<1>3. d = checks[n].says
  BY DEF Said
<1>4. CASE checks' = checks
  <2>1. \A q \in Requests : HeldBy(q)'
    <3> TAKE q \in Requests
    <3>1. HeldBy(q)
      BY DEF Inv, Submitting
    <3> QED
      BY <1>1, <1>4, <3>1 DEF HeldBy, Pays, Opens, FirmDone, ChecksOf
  <2>2. Alone' /\ ResultsTrue' /\ BusinessFinal'
    BY <1>1, <1>4 DEF Inv, Submitting, Alone, ResultsTrue, BusinessFinal, ChecksOf
  <2> QED
    BY <1>1, <1>4, <2>1, <2>2 DEF Inv, RowsTyped, ReqTyped, Kept, Submitting, Grown
<1>5. CASE checks[n].st = "submitted" /\ checks' = [checks EXCEPT ![n] = e]
  <2>1. e \in CheckRows /\ e.of = checks[n].of /\ e.says = checks[n].says /\ e.st = "complete" /\ e.res # "none"
    <3>1. checks[n].says # "none" /\ checks[n].says \in Decisions
      BY <1>2, VerificationAssumption DEF CheckRows
    <3> QED
      BY <1>2, <1>3, <3>1 DEF CheckRows
  <2> HIDE DEF e, d, n
  <2>2. /\ checks' \in Seq(CheckRows) /\ DOMAIN checks' = DOMAIN checks
        /\ checks'[n] = e /\ \A i \in DOMAIN checks : i # n => checks'[i] = checks[i]
    BY <1>2, <1>5, <2>1, Edited
  <2>3. Grown /\ ResultsTrue' /\ Alone'
    BY <1>1, <2>1, <2>2 DEF Grown, Inv, Submitting, ResultsTrue, Alone
  <2>4. FirmDone => FirmDone'
    BY <1>5, <2>1, <2>2 DEF FirmDone, ChecksOf
  <2>5. BusinessFinal'
    <3> SUFFICES ASSUME NEW i \in ChecksOf("firm")', NEW j \in ChecksOf("firm")', i < j
                 PROVE  checks'[i].st = "complete" /\ checks'[i].res # "reject"
      BY DEF BusinessFinal
    <3>1. i \in ChecksOf("firm") /\ j \in ChecksOf("firm")
      BY <2>1, <2>2 DEF ChecksOf
    <3>2. checks[i].st = "complete" /\ checks[i].res # "reject"
      BY <3>1 DEF Inv, Submitting, BusinessFinal
    <3> QED
      BY <1>5, <2>2, <3>1, <3>2 DEF ChecksOf
  <2>6. \A q \in Requests : HeldBy(q)'
    <3> TAKE q \in Requests
    <3>1. HeldBy(q)
      BY DEF Inv, Submitting
    <3> QED
      BY <1>1, <2>2, <2>4, <3>1 DEF HeldBy, Pays, Opens
  <2> QED
    BY <1>1, <2>2, <2>3, <2>5, <2>6 DEF Inv, RowsTyped, ReqTyped, Kept, Submitting
<1>6. checks' = checks \/ (checks[n].st = "submitted" /\ checks' = [checks EXCEPT ![n] = e])
  BY DEF Closes
<1> QED
  BY <1>4, <1>5, <1>6

LEMMA KeepAside == ASSUME Inv, UNCHANGED <<checks, invoices, req>> PROVE Kept
<1>1. \A q \in Requests : HeldBy(q)'
  <2> TAKE q \in Requests
  <2>1. HeldBy(q)
    BY DEF Inv, Submitting
  <2> QED
    BY <2>1 DEF HeldBy, Pays, Opens, FirmDone, ChecksOf
<1>2. Alone' /\ ResultsTrue' /\ BusinessFinal'
  BY DEF Inv, Submitting, Alone, ResultsTrue, BusinessFinal, ChecksOf
<1> QED
  BY <1>1, <1>2 DEF Inv, RowsTyped, ReqTyped, Kept, Submitting, Grown

LEMMA KeepNext == ASSUME Inv, [Next]_vars PROVE Kept
<1>1. CASE UNCHANGED vars
  BY <1>1, KeepAside DEF vars, rows, procs
<1>2. CASE Crash
  BY <1>2, KeepCrash
<1>3. CASE Callback \/ Poll \/ StateBegin \/ Expire
  BY <1>3, KeepAside DEF Callback, Poll, StateBegin, Expire, rows, procs
<1>4. CASE StatementStep \/ ExpiryStep
  BY <1>4, KeepAside DEF StatementStep, StateWrite, StateStamp, StateDone, ExpiryStep, ExpiryBegin, ExpiryStamp, ExpiryDone, rows
<1>5. CASE HoldStep
  BY <1>5, KeepAside DEF HoldStep, HoldRecord, HoldUnfreeze, HoldClear, rows
<1>6. ASSUME NEW s \in Subjects, Pay(s) PROVE Kept
  BY <1>6, KeepPay
<1>7. ASSUME NEW r \in Requests, SubmitIdentity(r) \/ SubmitBusiness(r) \/ RequestStep(r) PROVE Kept
  BY <1>7, KeepSubmit, KeepGate, KeepProvision, KeepRecorded, KeepCreated, KeepSpent DEF RequestStep
<1>8. ASSUME NEW a \in Arrivals, DecisionStep(a) PROVE Kept
  <2>1. CASE Applied(a) \/ Freezes(a) \/ Unapplied(a) \/ StampBegin(a) \/ Stamped(a)
    BY <2>1, KeepAside DEF Applied, Freezes, Unapplied, StampBegin, Stamped, rows
  <2> QED
    BY <1>8, <2>1, KeepClosed DEF DecisionStep
<1>9. ASSUME NEW s \in Subs, Reorg(s) \/ Reconfirm(s) \/ HoldFreeze(s) \/ HoldLift(s) PROVE Kept
  BY <1>9, KeepAside DEF Reorg, Reconfirm, HoldFreeze, HoldLift, rows, procs
<1>10. ASSUME NEW on \in BOOLEAN, ConsoleFreeze(on) PROVE Kept
  BY <1>10, KeepAside DEF ConsoleFreeze, rows, procs
<1> QED
  BY <1>1, <1>2, <1>3, <1>4, <1>5, <1>6, <1>7, <1>8, <1>9, <1>10 DEF Next

-----------------------------------------------------------------------------
(* The decisions, and the claims.                                           *)

\* What a step of a decision, or on the claims, keeps.
Decided == AdjTyped' /\ Adjudicating' /\ claims' \in ClaimRows

LEMMA RefusingKept == Grown /\ Refusing => Refusing'
  BY DEF Grown, Refusing, ChecksOf

LEMMA CarriedKept ==
    ASSUME Grown, NEW a \in Arrivals, CarriedOut(a), adj'[a] = adj[a]
    PROVE  CarriedOut(a)'
  BY DEF Grown, CarriedOut, Said

LEMMA AdjTurn ==
    ASSUME Inv, Grown, NEW a \in Arrivals, NEW rec \in AdjStates, SetAdj(a, rec), CarriedOut(a)'
    PROVE  AdjTyped' /\ adj'[a] = rec /\ \A b \in Arrivals : CarriedOut(b)'
<1>1. AdjTyped' /\ adj'[a] = rec /\ \A b \in Arrivals : b # a => adj'[b] = adj[b]
  BY DEF Inv, AdjTyped, SetAdj
<1>2. ASSUME NEW b \in Arrivals, b # a PROVE CarriedOut(b)'
  BY <1>1, <1>2, CarriedKept DEF Inv, Adjudicating
<1> QED
  BY <1>1, <1>2

LEMMA AdjWhole ==
    ASSUME Inv, Grown, NEW a \in Arrivals, NEW rec \in AdjStates, SetAdj(a, rec), UNCHANGED claims,
           rec.pc # "idle" => rec.chk \in DOMAIN checks,
           rec.pc = "freeze" => checks[rec.chk].says = "reject",
           rec.pc \in {"stamp", "post"} => checks[rec.chk].of = "self"
    PROVE  Decided
<1>1. adj'[a] = rec
  BY DEF Inv, AdjTyped, SetAdj
<1>2. CarriedOut(a)'
  BY <1>1 DEF CarriedOut, Grown, Said
<1> QED
  BY <1>2, AdjTurn, RefusingKept DEF Decided, Adjudicating, Inv, RowsTyped

LEMMA DecidingTyped == Deciding \in AdjStates /\ Deciding.pc = "idle"
  BY DEF Deciding, AdjStates

LEMMA AdjAside ==
    ASSUME Inv, Grown, UNCHANGED adj, claims' \in ClaimRows, claims'.st = "refused" => claims.st = "refused"
    PROVE  Decided
<1>1. \A a \in Arrivals : CarriedOut(a)'
  BY CarriedKept DEF Inv, Adjudicating
<1> QED
  BY <1>1, RefusingKept DEF Decided, Adjudicating, Inv, AdjTyped

LEMMA AdjApplied ==
    ASSUME Inv, Grown, NEW a \in Arrivals, Applied(a)
    PROVE  Decided
<1> DEFINE n == adj[a].chk
           d == Said(a)
           on == [adj[a] EXCEPT !.pc = CASE d = "reject" -> "freeze"
                                         [] d = "clear" /\ checks[n].of = "self" -> "stamp"
                                         [] OTHER -> "close"]
           self == checks[n].of = "self"
<1>1. adj[a] \in AdjStates /\ adj[a].pc = "picked" /\ SetAdj(a, on) /\ n \in DOMAIN checks /\ d = checks[n].says
  BY DEF Inv, AdjTyped, Applied, Adjudicating, CarriedOut, Said
<1>2. claims' = IF self THEN [claims EXCEPT !.st = Verdict(d)] ELSE claims
  BY DEF Applied
<1>3. Verdict(d) \in {"verified", "refused", "needs_info"} /\ (Verdict(d) = "refused" => d = "reject")
  <2>1. CASE d = "clear"
    BY <2>1 DEF Verdict
  <2>2. CASE d = "reject"
    BY <2>2 DEF Verdict
  <2>3. CASE d # "clear" /\ d # "reject"
    BY <2>3 DEF Verdict
  <2> QED
    BY <2>1, <2>2, <2>3
<1>4. /\ on \in AdjStates /\ on.chk = n /\ on.pc \in {"freeze", "stamp", "close"}
      /\ on.pc = "freeze" => d = "reject"
      /\ on.pc = "stamp" => self
  <2>1. CASE d = "reject"
    BY <1>1, <2>1 DEF AdjStates
  <2>2. CASE d = "clear" /\ self
    BY <1>1, <2>2 DEF AdjStates
  <2>3. CASE d # "reject" /\ ~(d = "clear" /\ self)
    BY <1>1, <2>3 DEF AdjStates
  <2> QED
    BY <2>1, <2>2, <2>3
<1> HIDE DEF on
<1>5. adj'[a] = on
  BY <1>1 DEF Inv, AdjTyped, SetAdj
<1>6. CarriedOut(a)'
  BY <1>1, <1>4, <1>5 DEF CarriedOut, Grown, Said
<1>7. AdjTyped' /\ \A b \in Arrivals : CarriedOut(b)'
  BY <1>1, <1>4, <1>6, AdjTurn
<1>8. claims' \in ClaimRows /\ (claims'.st = "refused" => Refusing)
  <2>1. claims \in ClaimRows
    BY DEF Inv, RowsTyped
  <2>2. CASE self
    <3>1. claims' = [claims EXCEPT !.st = Verdict(d)]
      BY <1>2, <2>2
    <3>2. claims' \in ClaimRows /\ claims'.st = Verdict(d)
      BY <1>3, <2>1, <3>1 DEF ClaimRows
    <3>3. d = "reject" => Refusing
      BY <1>1, <2>2 DEF Refusing, ChecksOf
    <3> QED
      BY <1>3, <3>2, <3>3
  <2>3. CASE ~self
    BY <1>2, <2>1, <2>3 DEF Inv, Adjudicating
  <2> QED
    BY <2>2, <2>3
<1> QED
  BY <1>7, <1>8, RefusingKept DEF Decided, Adjudicating

LEMMA AdjNext == ASSUME Inv, [Next]_vars, Grown PROVE Decided
<1>0. claims \in ClaimRows /\ adj \in [Arrivals -> AdjStates] /\ \A a \in Arrivals : CarriedOut(a)
  BY DEF Inv, RowsTyped, AdjTyped, Adjudicating
<1>1. ASSUME UNCHANGED <<claims, adj>> PROVE Decided
  BY <1>0, <1>1, AdjAside
<1>2. CASE UNCHANGED vars
  BY <1>1, <1>2 DEF vars, rows, procs
<1>3. CASE Crash
  <2>1. \A a \in Arrivals : CarriedOut(a)'
    BY <1>3, DecidingTyped DEF Crash, CarriedOut
  <2>2. AdjTyped' /\ UNCHANGED claims
    BY <1>3, DecidingTyped DEF Crash, AdjTyped, rows
  <2> QED
    BY <1>0, <2>1, <2>2, RefusingKept DEF Decided, Adjudicating, Inv
<1>4. ASSUME NEW a \in Arrivals, NEW i \in DOMAIN checks, SetAdj(a, [Deciding EXCEPT !.pc = "picked", !.chk = i]), UNCHANGED claims
      PROVE  Decided
  <2> DEFINE on == [Deciding EXCEPT !.pc = "picked", !.chk = i]
  <2>1. i \in Nat
    BY DEF Inv, RowsTyped
  <2>2. on \in AdjStates /\ on.chk = i /\ on.pc = "picked"
    BY <2>1 DEF Deciding, AdjStates
  <2> HIDE DEF on
  <2>3. SetAdj(a, on)
    BY <1>4 DEF on
  <2> QED
    BY <1>4, <2>2, <2>3, AdjWhole
<1>5. CASE Callback \/ Poll
  BY <1>4, <1>5 DEF Callback, Poll, Outstanding, Arrivals, rows
<1>6. ASSUME NEW a \in Arrivals, DecisionStep(a) PROVE Decided
  <2>1. adj[a] \in AdjStates /\ CarriedOut(a)
    BY <1>0
  <2>2. CASE Applied(a)
    BY <2>2, AdjApplied
  <2>3. CASE SetAdj(a, Deciding) /\ UNCHANGED claims
    BY <2>3, DecidingTyped, AdjWhole
  <2>4. CASE Freezes(a)
    <3> DEFINE on == [adj[a] EXCEPT !.pc = IF checks[adj[a].chk].of = "self" THEN "stamp" ELSE "close"]
    <3>1. SetAdj(a, on) /\ UNCHANGED claims /\ adj[a].pc = "freeze"
      BY <2>4 DEF Freezes, rows
    <3>2. on \in AdjStates /\ on.chk = adj[a].chk /\ on.pc \in {"stamp", "close"} /\ (on.pc = "stamp" => checks[adj[a].chk].of = "self")
      BY <2>1 DEF AdjStates
    <3> HIDE DEF on
    <3> QED
      BY <2>1, <3>1, <3>2, AdjWhole DEF CarriedOut
  <2>5. CASE StampBegin(a)
    <3> DEFINE g == Gives(Said(a) = "clear")
               on == [adj[a] EXCEPT !.pc = "post", !.gives = g]
    <3>1. SetAdj(a, on) /\ UNCHANGED claims /\ adj[a].pc = "stamp"
      BY <2>5 DEF StampBegin, rows
    <3>2. g \in BOOLEAN
      BY DEF Gives, Live
    <3> HIDE DEF g
    <3>3. on \in AdjStates /\ on.chk = adj[a].chk /\ on.pc = "post"
      BY <2>1, <3>2 DEF AdjStates
    <3> HIDE DEF on
    <3> QED
      BY <2>1, <3>1, <3>3, AdjWhole DEF CarriedOut
  <2>6. CASE Stamped(a)
    <3> DEFINE on == [adj[a] EXCEPT !.pc = "close"]
    <3>1. SetAdj(a, on) /\ UNCHANGED claims /\ adj[a].pc = "post"
      BY <2>6 DEF Stamped, rows
    <3>2. on \in AdjStates /\ on.chk = adj[a].chk /\ on.pc = "close"
      BY <2>1 DEF AdjStates
    <3> HIDE DEF on
    <3> QED
      BY <2>1, <3>1, <3>2, AdjWhole DEF CarriedOut
  <2> QED
    BY <1>6, <2>2, <2>3, <2>4, <2>5, <2>6 DEF DecisionStep, Unapplied, Closes, rows
<1>7. ASSUME NEW r \in Requests, SubmitIdentity(r) \/ SubmitBusiness(r) \/ RequestStep(r) PROVE Decided
  <2>1. UNCHANGED adj /\ (claims' = claims \/ claims' = [st |-> "submitted", old |-> FALSE])
    BY <1>7 DEF SubmitIdentity, SubmitBusiness, RequestStep, Gate, Unregistered, ClaimsSubmitted, Provision, Recorded, Created,
       SpendFee, rows
  <2>2. [st |-> "submitted", old |-> FALSE] \in ClaimRows
    BY DEF ClaimRows
  <2>3. Decided
    <3>1. CASE claims' = claims
      BY <1>0, <2>1, <3>1, AdjAside
    <3>2. CASE claims' = [st |-> "submitted", old |-> FALSE]
      BY <2>1, <2>2, <3>2, AdjAside
    <3> QED
      BY <2>1, <3>1, <3>2
  <2> QED
    BY <2>3
<1>8. ASSUME UNCHANGED adj, claims' = claims \/ claims' = [claims EXCEPT !.st = "verified"] \/ claims' = [claims EXCEPT !.old = TRUE]
      PROVE  Decided
  <2>1. [claims EXCEPT !.st = "verified"] \in ClaimRows /\ [claims EXCEPT !.old = TRUE] \in ClaimRows
    BY <1>0 DEF ClaimRows
  <2>2. claims'.st = "refused" => claims.st = "refused"
    BY <1>0, <1>8 DEF ClaimRows
  <2> QED
    BY <1>0, <1>8, <2>1, <2>2, AdjAside
<1>9. CASE StateBegin \/ Expire \/ StatementStep \/ ExpiryStep \/ HoldStep
  BY <1>8, <1>9 DEF StateBegin, Expire, StatementStep, StateWrite, StateStamp, StateDone, ExpiryStep, ExpiryBegin, ExpiryStamp,
     ExpiryDone, HoldStep, HoldRecord, HoldUnfreeze, HoldClear, rows, procs
<1>10. ASSUME NEW s \in Subjects, Pay(s) PROVE Decided
  BY <1>1, <1>10 DEF Pay, procs
<1>11. ASSUME NEW s \in Subs, Reorg(s) \/ Reconfirm(s) \/ HoldFreeze(s) \/ HoldLift(s) PROVE Decided
  BY <1>1, <1>11 DEF Reorg, Reconfirm, HoldFreeze, HoldLift, rows, procs
<1>12. ASSUME NEW on \in BOOLEAN, ConsoleFreeze(on) PROVE Decided
  BY <1>1, <1>12 DEF ConsoleFreeze, rows, procs
<1> QED
  BY <1>2, <1>3, <1>5, <1>6, <1>7, <1>9, <1>10, <1>11, <1>12 DEF Next

-----------------------------------------------------------------------------
(* The policy server, the watcher and the counters.                         *)

LEMMA SpentCounts ==
    ASSUME RestTyped, NEW k \in {"check", "pay", "crash", "down", "reorg", "state", "expire", "console"},
           Spent(k) \/ UNCHANGED budget
    PROVE  budget' \in Counts
<1>1. budget \in Counts
  BY DEF RestTyped
<1>2. CASE Spent(k)
  <2>1. budget[k] \in Nat /\ budget[k] > 0 /\ budget' = [budget EXCEPT ![k] = budget[k] - 1]
    BY <1>1, <1>2 DEF Counts, Spent
  <2>2. budget[k] - 1 \in Nat
    BY <2>1
  <2> QED
    BY <1>1, <2>1, <2>2 DEF Counts
<1> QED
  BY <1>1, <1>2

LEMMA AnyCounts == ASSUME RestTyped, [Next]_vars PROVE budget' \in Counts
<1>1. CASE UNCHANGED vars \/ Crash \/ Callback \/ Poll \/ StateBegin \/ Expire
  BY <1>1, SpentCounts DEF vars, Crash, Callback, Poll, StateBegin, Expire
<1>2. CASE StatementStep \/ ExpiryStep \/ HoldStep
  BY <1>2, SpentCounts DEF StatementStep, StateWrite, StateStamp, StateDone, ExpiryStep, ExpiryBegin, ExpiryStamp, ExpiryDone,
     HoldStep, HoldRecord, HoldUnfreeze, HoldClear
<1>3. ASSUME NEW s \in Subjects, Pay(s) PROVE budget' \in Counts
  BY <1>3, SpentCounts DEF Pay
<1>4. ASSUME NEW r \in Requests, SubmitIdentity(r) \/ SubmitBusiness(r) \/ RequestStep(r) PROVE budget' \in Counts
  BY <1>4, SpentCounts DEF SubmitIdentity, SubmitBusiness, RequestStep, Gate, Unregistered, ClaimsSubmitted, Provision, Recorded,
     Created, SpendFee
<1>5. ASSUME NEW a \in Arrivals, DecisionStep(a) PROVE budget' \in Counts
  BY <1>5, SpentCounts DEF DecisionStep, Applied, Freezes, Unapplied, StampBegin, Stamped, Closes
<1>6. ASSUME NEW s \in Subs, Reorg(s) \/ Reconfirm(s) \/ HoldFreeze(s) \/ HoldLift(s) PROVE budget' \in Counts
  BY <1>6, SpentCounts DEF Reorg, Reconfirm, HoldFreeze, HoldLift
<1>7. ASSUME NEW on \in BOOLEAN, ConsoleFreeze(on) PROVE budget' \in Counts
  BY <1>7, SpentCounts DEF ConsoleFreeze
<1> QED
  BY <1>1, <1>2, <1>3, <1>4, <1>5, <1>6, <1>7 DEF Next

\* The two writers of categories beside a decision, whose turns are alike.
LEMMA WritingTyped ==
    /\ Writing \in Writers /\ Writing.pc = "idle"
    /\ \A p \in {"read", "stamp"} : [Writing EXCEPT !.pc = p] \in Writers /\ [Writing EXCEPT !.pc = p].pc = p
    /\ \A read \in BOOLEAN : LET w == [Writing EXCEPT !.pc = "post", !.gives = Gives(read)]
                             IN  w \in Writers /\ w.pc = "post" /\ (w.gives <=> Live)
<1>1. \A read \in BOOLEAN : Gives(read) = Live /\ Live \in BOOLEAN
  BY DEF Gives, Live
<1> HIDE DEF Gives, Live
<1> QED
  BY <1>1 DEF Writing, Writers

LEMMA WritersNext ==
    ASSUME Inv, [Next]_vars
    PROVE  stmt' \in Writers /\ cron' \in Writers
<1>0. stmt \in Writers /\ cron \in Writers
  BY DEF Inv, RestTyped
<1>1. CASE UNCHANGED <<stmt, cron>>
  BY <1>0, <1>1
<1>2. CASE Crash \/ StateBegin \/ StatementStep \/ ExpiryStep
  BY <1>0, <1>2, WritingTyped DEF Crash, StateBegin, StatementStep, StateWrite, StateStamp, StateDone, ExpiryStep, ExpiryBegin,
     ExpiryStamp, ExpiryDone
<1>3. CASE Callback \/ Poll \/ Expire \/ HoldStep \/ UNCHANGED vars
  BY <1>1, <1>3 DEF Callback, Poll, Expire, HoldStep, HoldRecord, HoldUnfreeze, HoldClear, vars, procs
<1>4. ASSUME NEW s \in Subjects, Pay(s) PROVE UNCHANGED <<stmt, cron>>
  BY <1>4 DEF Pay, procs
<1>5. ASSUME NEW r \in Requests, SubmitIdentity(r) \/ SubmitBusiness(r) \/ RequestStep(r) PROVE UNCHANGED <<stmt, cron>>
  BY <1>5 DEF SubmitIdentity, SubmitBusiness, RequestStep, Gate, Unregistered, ClaimsSubmitted, Provision, Recorded,
     Created, SpendFee
<1>6. ASSUME NEW a \in Arrivals, DecisionStep(a) PROVE UNCHANGED <<stmt, cron>>
  BY <1>6 DEF DecisionStep, Applied, Freezes, Unapplied, StampBegin, Stamped, Closes
<1>7. ASSUME NEW s \in Subs, Reorg(s) \/ Reconfirm(s) \/ HoldFreeze(s) \/ HoldLift(s) PROVE UNCHANGED <<stmt, cron>>
  BY <1>7 DEF Reorg, Reconfirm, HoldFreeze, HoldLift, procs
<1>8. ASSUME NEW on \in BOOLEAN, ConsoleFreeze(on) PROVE UNCHANGED <<stmt, cron>>
  BY <1>8 DEF ConsoleFreeze, procs
<1> QED
  BY <1>1, <1>2, <1>3, <1>4, <1>5, <1>6, <1>7, <1>8 DEF Next

\* The freeze and its causes.
ServerTyped == /\ carried \in BOOLEAN /\ frozen \in BOOLEAN /\ console \in BOOLEAN /\ deposit \subseteq Subs
               /\ hold \in [Subs -> {"none", "active", "cleared"}] /\ watch \in Watchers /\ stopped \in Nat

LEMMA ServerNext == ASSUME Inv, [Next]_vars PROVE ServerTyped'
<1>0. /\ ServerTyped /\ stmt \in Writers /\ cron \in Writers
      /\ \A a \in Arrivals : adj[a] \in AdjStates
  BY DEF Inv, RestTyped, ServerTyped, AdjTyped
<1>1. CASE UNCHANGED vars \/ Callback \/ Poll \/ StateBegin \/ Expire
  BY <1>0, <1>1 DEF vars, rows, server, chain, procs, Callback, Poll, StateBegin, Expire, ServerTyped
<1>2. CASE Crash
  <2>1. watch' \in Watchers
    BY <1>2 DEF Crash, Watching, Watchers
  <2> QED
    BY <1>0, <1>2, <2>1 DEF Crash, rows, server, ServerTyped
<1>3. CASE StatementStep \/ ExpiryStep
  <2>1. carried' \in BOOLEAN
    BY <1>0, <1>3 DEF StatementStep, StateWrite, StateStamp, StateDone, ExpiryStep, ExpiryBegin, ExpiryStamp, ExpiryDone,
       server, ServerTyped, Writers
  <2> QED
    BY <1>0, <1>3, <2>1 DEF StatementStep, StateWrite, StateStamp, StateDone, ExpiryStep, ExpiryBegin, ExpiryStamp, ExpiryDone,
       rows, server, chain, ServerTyped
<1>4. ASSUME NEW to \in {"idle", "lifted"}, watch' = [watch EXCEPT !.pc = to] PROVE watch' \in Watchers
  BY <1>0, <1>4 DEF ServerTyped, Watchers
<1>5. CASE HoldStep
  <2>1. watch' \in Watchers
    <3>1. Watching \in Watchers
      BY DEF Watching, Watchers
    <3> QED
      BY <1>4, <1>5, <3>1 DEF HoldStep, HoldRecord, HoldUnfreeze, HoldClear, LiftRetried
  <2>2. hold' \in [Subs -> {"none", "active", "cleared"}]
    BY <1>0, <1>5 DEF HoldStep, HoldRecord, HoldUnfreeze, HoldClear, rows, ServerTyped
  <2> QED
    BY <1>0, <1>5, <2>1, <2>2 DEF HoldStep, HoldRecord, HoldUnfreeze, HoldClear, server, chain, ServerTyped
<1>6. ASSUME NEW s \in Subjects, Pay(s) PROVE ServerTyped'
  BY <1>0, <1>6 DEF Pay, server, chain, procs, ServerTyped
<1>7. ASSUME NEW r \in Requests, SubmitIdentity(r) \/ SubmitBusiness(r) \/ RequestStep(r) PROVE ServerTyped'
  BY <1>0, <1>7 DEF SubmitIdentity, SubmitBusiness, RequestStep, Gate, Unregistered, ClaimsSubmitted, Provision, Recorded,
     Created, SpendFee, rows, server, chain, ServerTyped
<1>8. ASSUME NEW a \in Arrivals, DecisionStep(a) PROVE ServerTyped'
  <2>1. carried' \in BOOLEAN /\ frozen' \in BOOLEAN
    BY <1>0, <1>8 DEF DecisionStep, Applied, Freezes, Unapplied, StampBegin, Stamped, Closes, server, ServerTyped, AdjStates
  <2> QED
    BY <1>0, <1>8, <2>1 DEF DecisionStep, Applied, Freezes, Unapplied, StampBegin, Stamped, Closes, rows, server, chain, ServerTyped
<1>9. ASSUME NEW s \in Subs, Reorg(s) \/ Reconfirm(s) \/ HoldFreeze(s) \/ HoldLift(s) PROVE ServerTyped'
  <2>1. watch' \in Watchers
    <3>1. \A p \in {"froze", "lifted", "lifting"} : [pc |-> p, sub |-> s] \in Watchers
      BY DEF Watchers
    <3>2. HoldLift(s) => watch' = [pc |-> "lifted", sub |-> s] \/ watch' = [pc |-> "lifting", sub |-> s]
      BY DEF HoldLift
    <3> QED
      BY <1>0, <1>9, <3>1, <3>2 DEF Reorg, Reconfirm, HoldFreeze, procs, ServerTyped
  <2> QED
    BY <1>0, <1>9, <2>1 DEF Reorg, Reconfirm, HoldFreeze, HoldLift, rows, server, chain, procs, ServerTyped
<1>10. ASSUME NEW on \in BOOLEAN, ConsoleFreeze(on) PROVE ServerTyped'
  BY <1>0, <1>10 DEF ConsoleFreeze, rows, chain, procs, ServerTyped
<1> QED
  BY <1>1, <1>2, <1>3, <1>5, <1>6, <1>7, <1>8, <1>9, <1>10 DEF Next

LEMMA InvNext == Inv /\ [Next]_vars => Inv' /\ Grown
<1> SUFFICES ASSUME Inv, [Next]_vars PROVE Inv' /\ Grown
  OBVIOUS
<1>1. Kept
  BY KeepNext
<1>2. Decided
  BY <1>1, AdjNext DEF Kept
<1>3. RestTyped'
  BY AnyCounts, WritersNext, ServerNext DEF Inv, RestTyped, ServerTyped
<1> QED
  BY <1>1, <1>2, <1>3 DEF Kept, Decided, Inv, RowsTyped

\* "A refusal is the provider's and it is final", "signing it must not buy a second check" (id.go): a business has
\* one check undecided at a time, and none after a refusal, for any requests, callbacks, polls and stops.
THEOREM ABusinessIsDecidedOnce == Spec => []BusinessFinal
<1>1. Inv => BusinessFinal
  BY DEF Inv, Submitting
<1> QED
  BY InvStart, InvNext, <1>1, PTL DEF Spec

-----------------------------------------------------------------------------
(* A freeze has a cause.                                                    *)

\* No stop of the process falls between a freeze for a reorganisation and the hold that records it.
HoldsRecorded == "froze" \notin Stops

Cause  == console \/ Refusing
Holds  == \E s \in Subs : hold[s] = "active"
Caused == /\ watch.pc # "idle" => watch.sub \in Subs
          /\ frozen /\ watch.pc \in {"idle", "lifting"} => Cause \/ Holds
          /\ frozen /\ watch.pc = "lifted" => Cause

LEMMA CauseKept == ASSUME Grown, UNCHANGED console PROVE Cause => Cause'
  BY RefusingKept DEF Cause

LEMMA CausedKept ==
    ASSUME Caused, Grown, UNCHANGED <<frozen, console, hold, watch>>
    PROVE  Caused'
  BY CauseKept DEF Caused, Holds

LEMMA CausedNext == ASSUME HoldsRecorded, Inv, Grown, Caused, [Next]_vars PROVE Caused'
<1>0. watch \in Watchers /\ hold \in [Subs -> {"none", "active", "cleared"}]
  BY DEF Inv, RestTyped
<1>1. CASE UNCHANGED vars \/ Callback \/ Poll \/ StateBegin \/ Expire \/ StatementStep \/ ExpiryStep
  BY <1>1, CausedKept DEF vars, rows, server, procs, Callback, Poll, StateBegin, Expire, StatementStep, StateWrite, StateStamp,
     StateDone, ExpiryStep, ExpiryBegin, ExpiryStamp, ExpiryDone
<1>2. CASE Crash
  <2>1. watch.pc # "froze" /\ watch'.pc = "idle" /\ UNCHANGED <<frozen, console, hold>>
    BY <1>2 DEF Crash, HoldsRecorded, Watching, rows, server
  <2>2. frozen => Cause \/ Holds
    BY <1>0, <2>1 DEF Caused, Watchers
  <2> QED
    BY <2>1, <2>2, CauseKept DEF Caused, Holds
<1>3. CASE HoldRecord
  <2>1. watch'.pc = "idle" /\ watch.sub \in Subs /\ hold' = [hold EXCEPT ![watch.sub] = "active"]
    BY <1>3 DEF HoldRecord, Watching, Caused
  <2>2. Holds'
    BY <1>0, <2>1 DEF Holds
  <2> QED
    BY <2>1, <2>2 DEF Caused
<1>4. CASE HoldUnfreeze
  <2>1. watch.pc = "lifting" /\ UNCHANGED <<console, hold>> /\ watch.sub \in Subs
    BY <1>4 DEF HoldUnfreeze, rows, Caused
  <2>2. CASE frozen' = FALSE /\ watch' = [watch EXCEPT !.pc = "lifted"]
    BY <1>0, <2>1, <2>2 DEF Caused, Watchers
  <2>3. CASE UNCHANGED frozen /\ watch' = [watch EXCEPT !.pc = "idle"]
    BY <1>0, <2>1, <2>3, CauseKept DEF Caused, Watchers, Holds
  <2> QED
    BY <1>4, <2>2, <2>3 DEF HoldUnfreeze, LiftRetried
<1>5. CASE HoldClear
  <2>1. watch.pc = "lifted" /\ watch'.pc = "idle" /\ UNCHANGED <<frozen, console>>
    BY <1>5 DEF HoldClear, Watching, server
  <2> QED
    BY <2>1, CauseKept DEF Caused
<1>6. ASSUME NEW s \in Subjects, Pay(s) PROVE Caused'
  BY <1>6, CausedKept DEF Pay, server, procs
<1>7. ASSUME NEW r \in Requests, SubmitIdentity(r) \/ SubmitBusiness(r) \/ RequestStep(r) PROVE Caused'
  BY <1>7, CausedKept DEF SubmitIdentity, SubmitBusiness, RequestStep, Gate, Unregistered, ClaimsSubmitted, Provision,
     Recorded, Created, SpendFee, rows, server
<1>8. ASSUME NEW a \in Arrivals, DecisionStep(a) PROVE Caused'
  <2>1. CASE UNCHANGED <<frozen, console, hold, watch>>
    BY <2>1, CausedKept
  <2>2. CASE Freezes(a)
    <3>1. CASE checks[adj[a].chk].of = "self"
      <4>1. Refusing
        BY <2>2, <3>1 DEF Freezes, Inv, Adjudicating, CarriedOut, Said, Refusing, ChecksOf
      <4>2. Cause'
        BY <4>1, RefusingKept DEF Cause
      <4> QED
        BY <2>2, <4>2 DEF Freezes, Caused
    <3>2. CASE checks[adj[a].chk].of # "self"
      BY <2>1, <2>2, <3>2 DEF Freezes, rows
    <3> QED
      BY <3>1, <3>2
  <2> QED
    BY <1>8, <2>1, <2>2 DEF DecisionStep, Applied, Unapplied, StampBegin, Stamped, Closes, rows, server
<1>9. ASSUME NEW s \in Subs, Reorg(s) \/ Reconfirm(s) PROVE Caused'
  BY <1>9, CausedKept DEF Reorg, Reconfirm, rows, server, procs
<1>10. ASSUME NEW s \in Subs, HoldFreeze(s) PROVE Caused'
  <2>1. CASE watch' = [pc |-> "froze", sub |-> s]
    BY <2>1 DEF Caused
  <2> QED
    BY <1>10, <2>1, CausedKept DEF HoldFreeze, rows
<1>11. ASSUME NEW s \in Subs, HoldLift(s) PROVE Caused'
  <2>1. /\ watch.pc = "idle" /\ hold[s] = "active" /\ UNCHANGED <<frozen, console, hold>>
        /\ watch' = [pc |-> IF claims.st = "refused" THEN "lifted" ELSE "lifting", sub |-> s]
    BY <1>11 DEF HoldLift, rows, server
  <2>2. claims.st = "refused" => Cause'
    BY <2>1, RefusingKept DEF Inv, Adjudicating, Cause
  <2>3. Holds'
    BY <2>1 DEF Holds
  <2> QED
    BY <2>1, <2>2, <2>3 DEF Caused
<1>12. ASSUME NEW on \in BOOLEAN, ConsoleFreeze(on) PROVE Caused'
  <2>1. frozen' = console' /\ UNCHANGED watch
    BY <1>12 DEF ConsoleFreeze, procs
  <2> QED
    BY <2>1 DEF Caused, Cause
<1>13. CASE HoldStep
  BY <1>3, <1>4, <1>5, <1>13 DEF HoldStep
<1> QED
  BY <1>1, <1>2, <1>6, <1>7, <1>8, <1>9, <1>10, <1>11, <1>12, <1>13 DEF Next

\* "clearReorgHold lifts the freeze this hold caused" and "never lifts a sanctions freeze" (reorg.go): an account
\* is frozen for a cause the platform knows, for any subscriptions, requests and decisions, as long as no stop falls
\* between a freeze for a reorganisation and its record.
THEOREM AFreezeHasACause == HoldsRecorded => (Spec => []FrozenForCause)
<1> SUFFICES ASSUME HoldsRecorded PROVE Spec => []FrozenForCause
  OBVIOUS
<1>1. Init => Caused
  BY DEF Init, Caused, Watching
<1>2. Inv /\ Caused /\ [Next]_vars => Inv' /\ Caused'
  BY InvNext, CausedNext
<1>3. Caused => FrozenForCause
  BY DEF Caused, FrozenForCause, Cause, Holds, Refusing
<1> QED
  BY InvStart, <1>1, <1>2, <1>3, PTL DEF Spec

-----------------------------------------------------------------------------
(* One payment, one check.                                                  *)

Billed == {i \in DOMAIN checks : checks[i].billed}
Paid   == {i \in DOMAIN invoices : invoices[i].st = "paid"}
Used   == {i \in DOMAIN invoices : invoices[i].st = "paid" /\ invoices[i].chk # 0}

\* A check is billed and the row that spends its invoice is not written yet.
Owing   == \E r \in Requests : req[r].pc = "created" /\ req[r].inv # 0
Counted == Cardinality(Billed) <= Cardinality(Used) + (IF Owing THEN 1 ELSE 0) + stopped

LEMMA RowsFinite ==
    ASSUME NEW T, NEW s \in Seq(T), NEW P \in SUBSET DOMAIN s
    PROVE  IsFiniteSet(P) /\ Cardinality(P) \in Nat
<1>1. Len(s) \in Nat /\ DOMAIN s = 1..Len(s)
  OBVIOUS
<1>2. IsFiniteSet(DOMAIN s)
  BY <1>1, FS_Interval
<1> QED
  BY <1>2, FS_Subset, FS_CardinalityType

LEMMA CountsFinite ==
    ASSUME checks \in Seq(CheckRows), invoices \in Seq(InvoiceRows)
    PROVE  /\ IsFiniteSet(Billed) /\ Cardinality(Billed) \in Nat /\ IsFiniteSet(Used) /\ Cardinality(Used) \in Nat
           /\ IsFiniteSet(Paid) /\ Cardinality(Paid) \in Nat
<1>1. Billed \in SUBSET DOMAIN checks /\ Used \in SUBSET DOMAIN invoices /\ Paid \in SUBSET DOMAIN invoices
  BY DEF Billed, Used, Paid
<1> QED
  BY <1>1, RowsFinite

LEMMA CountedKept ==
    ASSUME Inv, Inv', Counted, Billed' \subseteq Billed, Used \subseteq Used', Owing => Owing', stopped' = stopped
    PROVE  Counted'
<1>1. /\ IsFiniteSet(Billed) /\ Cardinality(Billed) \in Nat /\ Cardinality(Used) \in Nat /\ stopped \in Nat
      /\ IsFiniteSet(Used') /\ Cardinality(Billed') \in Nat /\ Cardinality(Used') \in Nat
  <2>1. checks' \in Seq(CheckRows) /\ invoices' \in Seq(InvoiceRows)
    BY DEF Inv, RowsTyped
  <2>2. Billed' \in SUBSET DOMAIN checks' /\ Used' \in SUBSET DOMAIN invoices'
    BY DEF Billed, Used
  <2>3. IsFiniteSet(Used') /\ Cardinality(Billed') \in Nat /\ Cardinality(Used') \in Nat
    BY <2>1, <2>2, RowsFinite
  <2>4. stopped \in Nat /\ checks \in Seq(CheckRows) /\ invoices \in Seq(InvoiceRows)
    BY DEF Inv, RowsTyped, RestTyped
  <2> QED
    BY <2>3, <2>4, CountsFinite
<1>2. Cardinality(Billed') <= Cardinality(Billed)
  BY <1>1, FS_Subset
<1>3. Cardinality(Used) <= Cardinality(Used')
  BY <1>1, FS_Subset
<1> HIDE DEF Owing, Used, Billed
<1> QED
  BY <1>1, <1>2, <1>3 DEF Counted

LEMMA UsedKept == InvoicesGrow => Used \subseteq Used'
  BY DEF InvoicesGrow, Used

LEMMA CountCreated == ASSUME Inv, Inv', Counted, NEW r \in Requests, Created(r) PROVE Counted'
<1> DEFINE n == req[r].chk
<1>1. /\ req[r].pc = "recorded" /\ req[r] \in ReqStates /\ req'[r] = [req[r] EXCEPT !.pc = "created"]
      /\ UNCHANGED <<invoices, stopped>> /\ checks' = [checks EXCEPT ![n].billed = (req[r].inv # 0)]
  BY DEF Created, SetReq, Inv, ReqTyped, chain
<1>2. ~Owing
  BY <1>1 DEF Owing, Inv, Submitting, Alone, Locks
<1>3. req[r].inv # 0 => Owing'
  <2>1. req'[r].pc = "created" /\ req'[r].inv = req[r].inv
    BY <1>1 DEF ReqStates
  <2> QED
    BY <2>1 DEF Owing
<1>4. /\ IsFiniteSet(Billed) /\ Cardinality(Billed) \in Nat /\ Cardinality(Used) \in Nat /\ stopped \in Nat
      /\ IsFiniteSet(Billed \cup {n}) /\ Cardinality(Billed \cup {n}) <= Cardinality(Billed) + 1
  <2>1. IsFiniteSet(Billed) /\ Cardinality(Billed) \in Nat /\ Cardinality(Used) \in Nat /\ stopped \in Nat
    BY CountsFinite DEF Inv, RowsTyped, RestTyped
  <2>2. IsFiniteSet(Billed \cup {n}) /\ Cardinality(Billed \cup {n}) = IF n \in Billed THEN Cardinality(Billed) ELSE Cardinality(Billed) + 1
    BY <2>1, FS_AddElement
  <2> QED
    BY <2>1, <2>2
<1>5. Used' = Used
  BY <1>1 DEF Used
<1>6. n \in DOMAIN checks /\ checks[n] \in CheckRows
  BY <1>1 DEF Inv, Submitting, HeldBy, RowsTyped
<1>7. DOMAIN checks' = DOMAIN checks /\ checks'[n].billed = (req[r].inv # 0) /\ \A i \in DOMAIN checks : i # n => checks'[i] = checks[i]
  BY <1>1, <1>6 DEF CheckRows
<1>8. Billed' \subseteq Billed \cup {n} /\ (req[r].inv = 0 => Billed' \subseteq Billed)
  BY <1>7 DEF Billed
<1>9. Cardinality(Billed') \in Nat /\ Cardinality(Billed') <= Cardinality(Billed) + (IF req[r].inv = 0 THEN 0 ELSE 1)
  <2>1. Cardinality(Billed') \in Nat
    <3>1. checks' \in Seq(CheckRows) /\ Billed' \in SUBSET DOMAIN checks'
      BY DEF Inv, RowsTyped, Billed
    <3> QED
      BY <3>1, RowsFinite
  <2>2. CASE req[r].inv = 0
    <3>1. Cardinality(Billed') <= Cardinality(Billed)
      BY <1>4, <1>8, <2>2, FS_Subset
    <3> QED
      BY <2>1, <2>2, <3>1, <1>4
  <2>3. CASE req[r].inv # 0
    <3>1. Cardinality(Billed') <= Cardinality(Billed \cup {n}) /\ Cardinality(Billed \cup {n}) \in Nat
      BY <1>4, <1>8, FS_Subset, FS_CardinalityType
    <3> QED
      BY <2>1, <2>3, <3>1, <1>4
  <2> QED
    BY <2>2, <2>3
<1> HIDE DEF Owing, Used, Billed
<1>10. CASE req[r].inv = 0
  BY <1>1, <1>2, <1>4, <1>5, <1>9, <1>10 DEF Counted
<1>11. CASE req[r].inv # 0
  BY <1>1, <1>2, <1>3, <1>4, <1>5, <1>9, <1>11 DEF Counted
<1> QED
  BY <1>10, <1>11

LEMMA CountSpent == ASSUME Inv, Inv', Counted, NEW r \in Requests, SpendFee(r) PROVE Counted'
<1> DEFINE k == req[r].inv
<1>1. /\ req[r].pc = "created" /\ UNCHANGED <<checks, stopped>> /\ req' = [req EXCEPT ![r] = Asking]
      /\ req[r].chk \in DOMAIN checks /\ req \in [Requests -> ReqStates]
  BY DEF SpendFee, SetReq, chain, Inv, ReqTyped, Submitting, HeldBy
<1>2. req[r].chk # 0
  BY <1>1 DEF Inv, RowsTyped
<1>3. ~Owing' /\ (Owing => k # 0)
  BY <1>1, AskingTyped DEF Owing, Inv, Submitting, Alone, Locks
<1>4. /\ DOMAIN invoices' = DOMAIN invoices
      /\ \A i \in DOMAIN invoices : /\ invoices'[i].st = invoices[i].st
                                    /\ invoices'[i].chk = IF i = k THEN req[r].chk ELSE invoices[i].chk
  BY SpentTyped
<1>5. Used \subseteq Used' /\ (k # 0 => k \in Used' /\ k \notin Used)
  <2>1. k # 0 => k \in DOMAIN invoices /\ invoices[k].st = "paid" /\ invoices[k].chk = 0
    BY <1>1 DEF Inv, Submitting, HeldBy, Pays, Locks
  <2> QED
    BY <1>2, <1>4, <2>1 DEF Used
<1>6. Billed' = Billed
  BY <1>1 DEF Billed
<1>7. /\ Cardinality(Billed) \in Nat /\ IsFiniteSet(Used) /\ Cardinality(Used) \in Nat /\ stopped \in Nat
      /\ IsFiniteSet(Used') /\ Cardinality(Used') \in Nat
  <2>1. invoices' \in Seq(InvoiceRows) /\ Used' \in SUBSET DOMAIN invoices'
    BY DEF Inv, RowsTyped, Used
  <2>2. IsFiniteSet(Used') /\ Cardinality(Used') \in Nat
    BY <2>1, RowsFinite
  <2> QED
    BY <2>2, CountsFinite DEF Inv, RowsTyped, RestTyped
<1>8. Cardinality(Used) <= Cardinality(Used') /\ (k # 0 => Cardinality(Used) + 1 <= Cardinality(Used'))
  <2>1. Cardinality(Used) <= Cardinality(Used')
    BY <1>5, <1>7, FS_Subset
  <2>2. ASSUME k # 0 PROVE Cardinality(Used) + 1 <= Cardinality(Used')
    <3>1. Cardinality(Used \cup {k}) = Cardinality(Used) + 1
      BY <1>5, <1>7, <2>2, FS_AddElement
    <3>2. Used \cup {k} \in SUBSET Used'
      BY <1>5, <2>2
    <3>3. Cardinality(Used \cup {k}) <= Cardinality(Used')
      BY <1>7, <3>2, FS_Subset
    <3> QED
      BY <3>1, <3>3
  <2> QED
    BY <2>1, <2>2
<1> HIDE DEF Owing, Used, Billed
<1>9. CASE Owing
  BY <1>1, <1>3, <1>6, <1>7, <1>8, <1>9 DEF Counted
<1>10. CASE ~Owing
  BY <1>1, <1>3, <1>6, <1>7, <1>8, <1>10 DEF Counted
<1> QED
  BY <1>9, <1>10

LEMMA CountCrash == ASSUME Inv, Inv', Counted, Crash PROVE Counted'
<1>1. UNCHANGED <<checks, invoices>> /\ stopped' = stopped + 1 /\ req' = [r \in Requests |-> Asking]
  BY DEF Crash, rows
<1>2. ~Owing'
  BY <1>1, AskingTyped DEF Owing
<1>3. Billed' = Billed /\ Used' = Used
  BY <1>1 DEF Billed, Used
<1>4. Cardinality(Billed) \in Nat /\ Cardinality(Used) \in Nat /\ stopped \in Nat
  BY CountsFinite DEF Inv, RowsTyped, RestTyped
<1> HIDE DEF Owing, Used, Billed
<1>5. CASE Owing
  BY <1>1, <1>2, <1>3, <1>4, <1>5 DEF Counted
<1>6. CASE ~Owing
  BY <1>1, <1>2, <1>3, <1>4, <1>6 DEF Counted
<1> QED
  BY <1>5, <1>6

\* A step of a request that billed nothing yet.
LEMMA CountBefore ==
    ASSUME Inv, Inv', Counted, NEW r \in Requests, NEW rec, SetReq(r, rec), req[r].pc # "created",
           Billed' \subseteq Billed, Used \subseteq Used', stopped' = stopped
    PROVE  Counted'
<1>1. \A q \in Requests : req[q].pc = "created" => req'[q] = req[q]
  BY DEF SetReq, Inv, ReqTyped
<1>2. Owing => Owing'
  BY <1>1 DEF Owing
<1> QED
  BY <1>2, CountedKept

LEMMA CountNext == ASSUME Inv, Inv', Counted, [Next]_vars PROVE Counted'
<1>1. ASSUME UNCHANGED <<req, checks, invoices, stopped>> PROVE Counted'
  BY <1>1, CountedKept DEF Billed, Used, Owing
<1>2. CASE UNCHANGED vars \/ Callback \/ Poll \/ StateBegin \/ Expire
  BY <1>1, <1>2 DEF vars, rows, chain, procs, Callback, Poll, StateBegin, Expire
<1>3. CASE StatementStep \/ ExpiryStep \/ HoldStep
  BY <1>1, <1>3 DEF StatementStep, StateWrite, StateStamp, StateDone, ExpiryStep, ExpiryBegin, ExpiryStamp, ExpiryDone,
     HoldStep, HoldRecord, HoldUnfreeze, HoldClear, rows, chain
<1>4. ASSUME NEW s \in Subjects, Pay(s) PROVE Counted'
  <2>1. UNCHANGED <<req, checks, stopped>>
    BY <1>4 DEF Pay, procs, chain
  <2>2. Used \subseteq Used'
    BY <1>4, PayGrows, UsedKept DEF Inv
  <2> QED
    BY <2>1, <2>2, CountedKept DEF Billed, Owing
<1>5. ASSUME NEW r \in Requests, Gate(r) PROVE Counted'
  <2>1. UNCHANGED <<checks, stopped>> /\ req[r].pc = "waiting" /\ req[r].of \in Subjects
    BY <1>5 DEF Gate, chain, Inv, ReqTyped, ReqStates
  <2>2. Used \subseteq Used'
    <3>1. invoices' = invoices \/ invoices' = Raised(req[r].of, "unpaid")
      BY <1>5 DEF Gate
    <3>2. CASE invoices' = Raised(req[r].of, "unpaid")
      BY <2>1, <3>2, RaisedTyped DEF Used, Inv
    <3> QED
      BY <3>1, <3>2 DEF Used
  <2>3. \E rec : SetReq(r, rec)
    BY <1>5 DEF Gate
  <2> QED
    BY <2>1, <2>2, <2>3, CountBefore DEF Billed
<1>6. ASSUME NEW r \in Requests, SubmitIdentity(r) \/ SubmitBusiness(r) \/ Unregistered(r) \/ ClaimsSubmitted(r) \/ Provision(r)
      PROVE  Counted'
  <2>1. UNCHANGED <<checks, invoices, stopped>> /\ req[r].pc # "created" /\ \E rec : SetReq(r, rec)
    BY <1>6 DEF SubmitIdentity, SubmitBusiness, Unregistered, ClaimsSubmitted, Provision, rows, chain
  <2> QED
    BY <2>1, CountBefore DEF Billed, Used
<1>7. ASSUME NEW r \in Requests, Recorded(r) PROVE Counted'
  <2>1. UNCHANGED <<invoices, stopped>> /\ req[r].pc # "created" /\ \E rec : SetReq(r, rec)
    BY <1>7 DEF Recorded, chain
  <2>2. PICK d \in Decisions : checks' = Append(checks, [of |-> req[r].of, st |-> "submitted", res |-> "none",
                                                         says |-> d, billed |-> FALSE])
    BY <1>7 DEF Recorded
  <2> DEFINE e == [of |-> req[r].of, st |-> "submitted", res |-> "none", says |-> d, billed |-> FALSE]
  <2>3. e \in CheckRows /\ e.billed = FALSE
    BY DEF CheckRows, Inv, ReqTyped, ReqStates
  <2>4. checks \in Seq(CheckRows) /\ checks' = Append(checks, e)
    BY <2>2 DEF Inv, RowsTyped
  <2> HIDE DEF e
  <2>5. Billed' \subseteq Billed
    <3>1. DOMAIN checks' = DOMAIN checks \cup {Len(checks) + 1} /\ checks'[Len(checks) + 1] = e
          /\ \A i \in DOMAIN checks : checks'[i] = checks[i]
      BY <2>3, <2>4, Added
    <3> QED
      BY <2>3, <3>1 DEF Billed
  <2> QED
    BY <2>1, <2>5, CountBefore DEF Used
<1>8. ASSUME NEW a \in Arrivals, DecisionStep(a) PROVE Counted'
  <2>1. UNCHANGED <<req, invoices, stopped>>
    BY <1>8 DEF DecisionStep, Applied, Freezes, Unapplied, StampBegin, Stamped, Closes, rows, chain
  <2>2. Billed' \subseteq Billed
    <3>1. CASE UNCHANGED checks
      BY <3>1 DEF Billed
    <3>2. CASE Closes(a) /\ ~UNCHANGED checks
      <4> DEFINE n == adj[a].chk
                 d == Said(a)
                 e == [checks[n] EXCEPT !.st = "complete", !.res = d]
      <4>1. checks' = [checks EXCEPT ![n] = e] /\ n \in DOMAIN checks /\ checks[n] \in CheckRows
        BY <3>2 DEF Closes, Inv, Adjudicating, CarriedOut, RowsTyped
      <4>2. e.billed = checks[n].billed
        BY <4>1 DEF CheckRows
      <4> HIDE DEF e, n
      <4> QED
        BY <4>1, <4>2 DEF Billed
    <3> QED
      BY <1>8, <3>1, <3>2 DEF DecisionStep, Applied, Freezes, Unapplied, StampBegin, Stamped, rows
  <2> QED
    BY <2>1, <2>2, CountedKept DEF Used, Owing
<1>9. ASSUME NEW s \in Subs, Reorg(s) \/ Reconfirm(s) \/ HoldFreeze(s) \/ HoldLift(s) PROVE Counted'
  BY <1>1, <1>9 DEF Reorg, Reconfirm, HoldFreeze, HoldLift, rows, chain, procs
<1>10. ASSUME NEW on \in BOOLEAN, ConsoleFreeze(on) PROVE Counted'
  BY <1>1, <1>10 DEF ConsoleFreeze, rows, chain, procs
<1> QED
  BY <1>2, <1>3, <1>4, <1>5, <1>6, <1>7, <1>8, <1>9, <1>10, CountCreated, CountSpent, CountCrash DEF Next, RequestStep

LEMMA CountStart == Init => Counted
<1> SUFFICES ASSUME Init PROVE Counted
  OBVIOUS
<1>1. checks \in Seq(CheckRows) /\ invoices \in Seq(InvoiceRows) /\ stopped = 0
  BY InvStart DEF Inv, RowsTyped, Init
<1>2. CASE checks = <<>>
  <2>1. Billed = {}
    BY <1>2 DEF Billed
  <2>2. Cardinality(Billed) = 0
    BY <2>1, FS_EmptySet
  <2>3. Cardinality(Used) \in Nat
    BY <1>1, CountsFinite
  <2> HIDE DEF Owing, Used, Billed
  <2> QED
    BY <1>1, <2>2, <2>3 DEF Counted
<1>3. CASE checks # <<>>
  <2>1. Billed = {1} /\ Used = {1}
    <3>1. /\ DOMAIN checks = {1} /\ checks[1].billed
          /\ DOMAIN invoices = {1} /\ invoices[1].st = "paid" /\ invoices[1].chk = 1
      BY <1>3 DEF Init
    <3> QED
      BY <3>1 DEF Billed, Used
  <2>2. Cardinality(Billed) = 1 /\ Cardinality(Used) = 1
    BY <2>1, FS_Singleton
  <2> HIDE DEF Owing, Used, Billed
  <2> QED
    BY <1>1, <2>2 DEF Counted
<1> QED
  BY <1>2, <1>3

LEMMA CountEnough == ASSUME Inv, Counted PROVE BilledWasPaid
<1>1. /\ Cardinality(Billed) \in Nat /\ IsFiniteSet(Used) /\ Cardinality(Used) \in Nat /\ stopped \in Nat
      /\ IsFiniteSet(Paid) /\ Cardinality(Paid) \in Nat
  BY CountsFinite DEF Inv, RowsTyped, RestTyped
<1>2. CASE Owing
  <2>1. PICK r \in Requests : req[r].pc = "created" /\ req[r].inv # 0
    BY <1>2 DEF Owing
  <2> DEFINE k == req[r].inv
  <2>2. k \notin Used /\ Used \cup {k} \in SUBSET Paid
    <3>1. k \in DOMAIN invoices /\ invoices[k].st = "paid" /\ invoices[k].chk = 0
      BY <2>1 DEF Inv, Submitting, HeldBy, Pays, Locks
    <3> QED
      BY <3>1 DEF Used, Paid
  <2>3. Cardinality(Used \cup {k}) = Cardinality(Used) + 1
    BY <1>1, <2>2, FS_AddElement
  <2>4. Cardinality(Used \cup {k}) <= Cardinality(Paid)
    BY <1>1, <2>2, FS_Subset
  <2>5. Cardinality(Billed) <= Cardinality(Paid) + stopped
    <3> HIDE DEF Owing, Used, Billed, Paid
    <3> QED
      BY <1>1, <1>2, <2>3, <2>4 DEF Counted
  <2> QED
    BY <2>5 DEF BilledWasPaid, Billed, Paid
<1>3. CASE ~Owing
  <2>1. Used \in SUBSET Paid
    BY DEF Used, Paid
  <2>2. Cardinality(Used) <= Cardinality(Paid)
    BY <1>1, <2>1, FS_Subset
  <2>3. Cardinality(Billed) <= Cardinality(Paid) + stopped
    <3> HIDE DEF Owing, Used, Billed, Paid
    <3> QED
      BY <1>1, <1>3, <2>2 DEF Counted
  <2> QED
    BY <2>3 DEF BilledWasPaid, Billed, Paid
<1> QED
  BY <1>2, <1>3

\* "SpendFeeInvoice records the check an invoice bought. It pays for no other" (money_store.go): the provider bills
\* for no more checks than were paid for and restarts cost, for any requests, decisions and stops.
THEOREM APaymentBuysOneCheck == Spec => []BilledWasPaid
<1>1. Inv /\ Counted /\ [Next]_vars => Inv' /\ Counted'
  BY InvNext, CountNext
<1>2. Inv /\ Counted => BilledWasPaid
  BY CountEnough
<1> QED
  BY InvStart, CountStart, <1>1, <1>2, PTL DEF Spec

-----------------------------------------------------------------------------
(* The policy server follows the claims.                                    *)

\* The policy server answers every call.
Answered == budget.down = 0

\* catMu: one handler at a time is between projecting the claims and posting the list.
OneWriter ==
    /\ \A a, b \in Arrivals : adj[a].pc = "post" /\ adj[b].pc = "post" => a = b
    /\ \A a \in Arrivals : adj[a].pc = "post" => stmt.pc # "post" /\ cron.pc # "post"
    /\ ~(stmt.pc = "post" /\ cron.pc = "post")

\* A list that admits is on its way, and a refusal that will take it away.
WillGive    == \/ \E a \in Arrivals : adj[a].pc = "post" /\ adj[a].gives
               \/ stmt.pc = "post" /\ stmt.gives
               \/ cron.pc = "post" /\ cron.gives
WillTake(a) == \/ adj[a].pc \in {"freeze", "stamp"} /\ Said(a) = "reject" /\ checks[adj[a].chk].of = "self"
               \/ adj[a].pc = "post" /\ ~adj[a].gives
Taking      == \E a \in Arrivals : WillTake(a)

Follows  == stopped = 0 /\ claims.st = "refused" /\ (carried \/ WillGive) => Taking
Followed == budget.down = 0 /\ OneWriter /\ Follows

Following == OneWriter' /\ Follows'

LEMMA DownNever == ASSUME Inv, budget.down = 0, [Next]_vars PROVE budget'.down = 0 /\ ~Spent("down")
<1>1. ~Spent("down")
  BY DEF Spent
<1>a. SUFFICES budget'.down = 0
  BY <1>1
<1>2. ASSUME NEW k \in {"check", "pay", "crash", "reorg", "state", "expire", "console"}, Spent(k) PROVE budget'.down = 0
  <2>1. budget \in Counts /\ budget' = [budget EXCEPT ![k] = budget[k] - 1] /\ k # "down"
    BY <1>2 DEF Spent, Inv, RestTyped
  <2> QED
    BY <2>1 DEF Counts
<1>3. CASE UNCHANGED budget
  BY <1>3
<1>4. CASE UNCHANGED vars \/ Crash \/ Callback \/ Poll \/ StateBegin \/ Expire
  BY <1>2, <1>3, <1>4 DEF vars, Crash, Callback, Poll, StateBegin, Expire
<1>5. CASE StatementStep \/ ExpiryStep \/ HoldStep
  BY <1>1, <1>3, <1>5 DEF StatementStep, StateWrite, StateStamp, StateDone, ExpiryStep, ExpiryBegin, ExpiryStamp, ExpiryDone,
     HoldStep, HoldRecord, HoldUnfreeze, HoldClear
<1>6. ASSUME NEW s \in Subjects, Pay(s) PROVE budget'.down = 0
  BY <1>2, <1>6 DEF Pay
<1>7. ASSUME NEW r \in Requests, SubmitIdentity(r) \/ SubmitBusiness(r) \/ RequestStep(r) PROVE budget'.down = 0
  BY <1>1, <1>2, <1>3, <1>7 DEF SubmitIdentity, SubmitBusiness, RequestStep, Gate, Unregistered, ClaimsSubmitted, Provision,
     Recorded, Created, SpendFee
<1>8. ASSUME NEW a \in Arrivals, DecisionStep(a) PROVE budget'.down = 0
  BY <1>1, <1>3, <1>8 DEF DecisionStep, Applied, Freezes, Unapplied, StampBegin, Stamped, Closes
<1>9. ASSUME NEW s \in Subs, Reorg(s) \/ Reconfirm(s) \/ HoldFreeze(s) \/ HoldLift(s) PROVE budget'.down = 0
  BY <1>1, <1>2, <1>3, <1>9 DEF Reorg, Reconfirm, HoldFreeze, HoldLift
<1>10. ASSUME NEW on \in BOOLEAN, ConsoleFreeze(on) PROVE budget'.down = 0
  BY <1>2, <1>10 DEF ConsoleFreeze
<1> QED
  BY <1>1, <1>4, <1>5, <1>6, <1>7, <1>8, <1>9, <1>10 DEF Next

\* The writers of lists: what they do beside everything else.
Still == UNCHANGED <<adj, stmt, cron, carried, stopped>>

LEMMA TakeKept ==
    ASSUME Inv, Grown, NEW a \in Arrivals, adj'[a] = adj[a], WillTake(a)
    PROVE  WillTake(a)'
<1>1. CarriedOut(a)
  BY DEF Inv, Adjudicating
<1> QED
  BY <1>1 DEF WillTake, CarriedOut, Grown, Said

LEMMA StillFollows ==
    ASSUME Inv, Grown, OneWriter, Follows, Still, claims'.st = "refused" => claims.st = "refused"
    PROVE  OneWriter' /\ Follows'
<1>1. Taking => Taking'
  BY TakeKept DEF Taking, Still
<1> QED
  BY <1>1 DEF OneWriter, Follows, Still, WillGive

\* What one decision does.
LEMMA AdjMoves ==
    ASSUME Inv, NEW a \in Arrivals, NEW rec, SetAdj(a, rec)
    PROVE  adj'[a] = rec /\ \A b \in Arrivals : b # a => adj'[b] = adj[b]
  BY DEF Inv, AdjTyped, SetAdj

\* A decision that neither posts a list nor promised to take one.
LEMMA DecideFollows ==
    ASSUME Inv, Grown, OneWriter, Follows, NEW a \in Arrivals, NEW rec, SetAdj(a, rec), rec.pc # "post", adj[a].pc # "post",
           ~WillTake(a), UNCHANGED <<stmt, cron, carried, stopped>>, claims'.st = "refused" => claims.st = "refused"
    PROVE  OneWriter' /\ Follows'
<1>1. adj'[a] = rec /\ \A b \in Arrivals : b # a => adj'[b] = adj[b]
  BY AdjMoves
<1>2. OneWriter' /\ (WillGive' => WillGive)
  BY <1>1 DEF OneWriter, WillGive
<1>3. Taking => Taking'
  BY <1>1, TakeKept DEF Taking
<1> QED
  BY <1>2, <1>3 DEF Follows

LEMMA AppliedFollows ==
    ASSUME Inv, Grown, OneWriter, Follows, NEW a \in Arrivals, Applied(a)
    PROVE  OneWriter' /\ Follows'
<1> DEFINE n == adj[a].chk
           d == Said(a)
           self == checks[n].of = "self"
           p == CASE d = "reject" -> "freeze" [] d = "clear" /\ self -> "stamp" [] OTHER -> "close"
           on == [adj[a] EXCEPT !.pc = p]
<1>1. /\ adj[a] \in AdjStates /\ adj[a].pc = "picked" /\ SetAdj(a, on) /\ n \in DOMAIN checks
      /\ UNCHANGED <<checks, stmt, cron, carried, stopped>>
      /\ claims' = IF self THEN [claims EXCEPT !.st = Verdict(d)] ELSE claims
  BY DEF Applied, Inv, AdjTyped, Adjudicating, CarriedOut, server, chain
<1>2. (p = "freeze" <=> d = "reject") /\ p # "post"
  <2>1. CASE d = "reject"
    BY <2>1
  <2>2. CASE d # "reject"
    BY <2>2
  <2> QED
    BY <2>1, <2>2
<1> HIDE DEF p
<1>3. on.pc = p /\ on.chk = n
  BY <1>1 DEF AdjStates
<1> HIDE DEF on
<1>4. adj'[a] = on /\ \A b \in Arrivals : b # a => adj'[b] = adj[b]
  BY <1>1, AdjMoves
<1>5. ~WillTake(a)
  BY <1>1 DEF WillTake
<1>6. CASE d = "reject" /\ self
  <2>1. Taking'
    BY <1>1, <1>2, <1>3, <1>4, <1>6 DEF Taking, WillTake, Said
  <2>2. OneWriter'
    BY <1>1, <1>2, <1>3, <1>4 DEF OneWriter
  <2> QED
    BY <2>1, <2>2 DEF Follows
<1>7. CASE ~(d = "reject" /\ self)
  <2>1. claims'.st = "refused" => claims.st = "refused"
    <3>1. CASE self
      <4>1. d # "reject" => Verdict(d) # "refused"
        <5>1. CASE d = "clear"
          BY <5>1 DEF Verdict
        <5>2. CASE d # "clear"
          BY <5>2 DEF Verdict
        <5> QED
          BY <5>1, <5>2
      <4>2. claims'.st = Verdict(d)
        BY <1>1, <3>1 DEF Inv, RowsTyped, ClaimRows
      <4> QED
        BY <1>7, <3>1, <4>1, <4>2
    <3>2. CASE ~self
      BY <1>1, <3>2
    <3> QED
      BY <3>1, <3>2
  <2> QED
    BY <1>1, <1>2, <1>3, <1>5, <2>1, DecideFollows
<1> QED
  BY <1>6, <1>7

LEMMA FreezesFollows ==
    ASSUME Inv, Grown, OneWriter, Follows, NEW a \in Arrivals, Freezes(a)
    PROVE  OneWriter' /\ Follows'
<1> DEFINE self == checks[adj[a].chk].of = "self"
           on == [adj[a] EXCEPT !.pc = IF self THEN "stamp" ELSE "close"]
<1>1. /\ adj[a] \in AdjStates /\ adj[a].pc = "freeze" /\ SetAdj(a, on)
      /\ UNCHANGED <<claims, checks, stmt, cron, carried, stopped>>
  BY DEF Freezes, Inv, AdjTyped, rows, chain
<1>2. on.chk = adj[a].chk /\ on.pc = IF self THEN "stamp" ELSE "close"
  BY <1>1 DEF AdjStates
<1> HIDE DEF on
<1>3. adj'[a] = on /\ \A b \in Arrivals : b # a => adj'[b] = adj[b]
  BY <1>1, AdjMoves
<1>4. CASE self
  <2>1. OneWriter' /\ (WillGive' => WillGive)
    BY <1>1, <1>2, <1>3 DEF OneWriter, WillGive
  <2>2. WillTake(a) => WillTake(a)'
    BY <1>1, <1>2, <1>3, <1>4 DEF WillTake, Said
  <2>3. Taking => Taking'
    BY <1>3, <2>2, TakeKept DEF Taking
  <2> QED
    BY <1>1, <2>1, <2>3 DEF Follows
<1>5. CASE ~self
  <2>1. ~WillTake(a)
    BY <1>1, <1>5 DEF WillTake
  <2> QED
    BY <1>1, <1>2, <1>5, <2>1, DecideFollows
<1> QED
  BY <1>4, <1>5

LEMMA StampFollows ==
    ASSUME Inv, Grown, OneWriter, Follows, NEW a \in Arrivals, StampBegin(a)
    PROVE  OneWriter' /\ Follows'
<1> DEFINE g == Gives(Said(a) = "clear")
           on == [adj[a] EXCEPT !.pc = "post", !.gives = g]
<1>1. /\ adj[a] \in AdjStates /\ SetAdj(a, on) /\ Holding = {}
      /\ UNCHANGED <<claims, checks, stmt, cron, carried, stopped>>
  BY DEF StampBegin, Inv, AdjTyped, rows, server, chain
<1>2. claims.st = "refused" => ~g
  BY DEF Gives, Live
<1> HIDE DEF g
<1>3. on.pc = "post" /\ on.gives = g
  BY <1>1 DEF AdjStates
<1> HIDE DEF on
<1>4. adj'[a] = on /\ \A b \in Arrivals : b # a => adj'[b] = adj[b]
  BY <1>1, AdjMoves
<1>5. (\A b \in Arrivals : adj[b].pc # "post") /\ stmt.pc # "post" /\ cron.pc # "post"
  BY <1>1 DEF Holding
<1>6. OneWriter'
  BY <1>1, <1>4, <1>5 DEF OneWriter
<1>7. claims.st = "refused" => Taking'
  BY <1>2, <1>3, <1>4 DEF Taking, WillTake
<1> QED
  BY <1>1, <1>6, <1>7 DEF Follows

LEMMA StampedFollows ==
    ASSUME Inv, Grown, OneWriter, Follows, NEW a \in Arrivals, Stamped(a)
    PROVE  OneWriter' /\ Follows'
<1> DEFINE on == [adj[a] EXCEPT !.pc = "close"]
<1>1. /\ adj[a] \in AdjStates /\ adj[a].pc = "post" /\ SetAdj(a, on) /\ carried' = adj[a].gives
      /\ UNCHANGED <<claims, checks, stmt, cron, stopped>>
  BY DEF Stamped, Inv, AdjTyped, rows, chain
<1>2. on.pc = "close"
  BY <1>1 DEF AdjStates
<1> HIDE DEF on
<1>3. adj'[a] = on /\ \A b \in Arrivals : b # a => adj'[b] = adj[b]
  BY <1>1, AdjMoves
<1>4. OneWriter' /\ ~WillGive'
  BY <1>1, <1>2, <1>3 DEF OneWriter, WillGive
<1>5. CASE adj[a].gives
  <2>1. ~WillTake(a) /\ WillGive
    BY <1>1, <1>5 DEF WillTake, WillGive
  <2>2. Taking => Taking'
    BY <1>3, <2>1, TakeKept DEF Taking
  <2> QED
    BY <1>1, <1>4, <2>1, <2>2 DEF Follows
<1>6. CASE ~adj[a].gives
  BY <1>1, <1>4, <1>6 DEF Follows
<1> QED
  BY <1>5, <1>6

LEMMA WriterFollows ==
    ASSUME Inv, Grown, OneWriter, Follows, ~Spent("down"), StatementStep \/ ExpiryStep
    PROVE  OneWriter' /\ Follows'
<1>1. UNCHANGED <<adj, checks, stopped>> /\ stmt \in Writers /\ cron \in Writers
  BY DEF StatementStep, StateWrite, StateStamp, StateDone, ExpiryStep, ExpiryBegin, ExpiryStamp, ExpiryDone, rows, chain, Inv, RestTyped
<1>2. Taking => Taking'
  BY <1>1, TakeKept DEF Taking
<1>3. CASE StateWrite
  <2>1. claims'.st = "verified" /\ stmt'.pc = "stamp" /\ UNCHANGED cron
    BY <1>3, WritingTyped DEF StateWrite, Inv, RowsTyped, ClaimRows
  <2> QED
    BY <1>1, <2>1 DEF OneWriter, Follows
<1>4. CASE ExpiryBegin
  <2>1. cron'.pc = "stamp" /\ UNCHANGED <<claims, carried, stmt>>
    BY <1>4, WritingTyped DEF ExpiryBegin, rows, server
  <2> QED
    BY <1>1, <1>2, <2>1 DEF OneWriter, Follows, WillGive
<1>5. CASE StateStamp
  <2>1. stmt'.pc = "post" /\ (stmt'.gives <=> Live) /\ UNCHANGED <<claims, carried, cron>> /\ Holding = {}
    BY <1>5, WritingTyped DEF StateStamp, rows, server
  <2>2. (\A b \in Arrivals : adj[b].pc # "post") /\ stmt.pc # "post" /\ cron.pc # "post"
    BY <2>1 DEF Holding
  <2> QED
    BY <1>1, <1>2, <2>1, <2>2 DEF OneWriter, Follows, WillGive, Live
<1>6. CASE ExpiryStamp
  <2>1. cron'.pc = "post" /\ (cron'.gives <=> Live) /\ UNCHANGED <<claims, carried, stmt>> /\ Holding = {}
    BY <1>6, WritingTyped DEF ExpiryStamp, rows, server
  <2>2. (\A b \in Arrivals : adj[b].pc # "post") /\ stmt.pc # "post" /\ cron.pc # "post"
    BY <2>1 DEF Holding
  <2> QED
    BY <1>1, <1>2, <2>1, <2>2 DEF OneWriter, Follows, WillGive, Live
<1>7. CASE StateDone
  <2>1. stmt.pc = "post" /\ stmt'.pc = "idle" /\ carried' = stmt.gives /\ UNCHANGED <<claims, cron>>
    BY <1>7, WritingTyped DEF StateDone, rows
  <2> QED
    BY <1>1, <1>2, <2>1 DEF OneWriter, Follows, WillGive
<1>8. CASE ExpiryDone
  <2>1. cron.pc = "post" /\ cron'.pc = "idle" /\ carried' = cron.gives /\ UNCHANGED <<claims, stmt>>
    BY <1>8, WritingTyped DEF ExpiryDone, rows
  <2> QED
    BY <1>1, <1>2, <2>1 DEF OneWriter, Follows, WillGive
<1> QED
  BY <1>3, <1>4, <1>5, <1>6, <1>7, <1>8 DEF StatementStep, ExpiryStep

LEMMA FollowedNext == ASSUME Inv, Grown, Followed, [Next]_vars PROVE Followed'
<1>0. budget'.down = 0 /\ ~Spent("down") /\ OneWriter /\ Follows
  BY DownNever DEF Followed
<1>a. SUFFICES Following
  BY <1>0 DEF Following, Followed
<1>1. ASSUME Still, claims'.st = "refused" => claims.st = "refused" PROVE Following
  BY <1>0, <1>1, StillFollows DEF Following
<1>2. CASE UNCHANGED vars
  BY <1>1, <1>2 DEF vars, rows, server, procs, Still
<1>3. CASE Crash
  <2>1. stopped' # 0
    BY <1>3 DEF Crash, Inv, RestTyped
  <2>2. OneWriter'
    BY <1>3, DecidingTyped, WritingTyped DEF Crash, OneWriter
  <2> QED
    BY <2>1, <2>2, <1>0 DEF Follows, Following
<1>4. ASSUME NEW a \in Arrivals, NEW i, adj[a].pc = "idle", SetAdj(a, [Deciding EXCEPT !.pc = "picked", !.chk = i]),
             UNCHANGED <<claims, carried, stmt, cron, stopped>>
      PROVE  Following
  <2> DEFINE on == [Deciding EXCEPT !.pc = "picked", !.chk = i]
  <2>1. on.pc = "picked"
    BY DEF Deciding
  <2> HIDE DEF on
  <2>2. SetAdj(a, on) /\ ~WillTake(a)
    BY <1>4 DEF on, WillTake
  <2> QED
    BY <1>0, <1>4, <2>1, <2>2, DecideFollows DEF Following
<1>5. CASE Callback \/ Poll
  BY <1>4, <1>5 DEF Callback, Poll, Arrivals, rows, server, chain
<1>6. ASSUME NEW a \in Arrivals, DecisionStep(a) PROVE Following
  <2>1. CASE Closes(a)
    <3>1. SetAdj(a, Deciding) /\ ~WillTake(a) /\ adj[a].pc # "post" /\ UNCHANGED <<claims, carried, stmt, cron, stopped>>
      BY <2>1 DEF Closes, WillTake, server, chain
    <3> QED
      BY <1>0, <3>1, DecidingTyped, DecideFollows DEF Following
  <2> QED
    BY <1>0, <1>6, <2>1, AppliedFollows, FreezesFollows, StampFollows, StampedFollows DEF Following, DecisionStep, Unapplied
<1>7. CASE StatementStep \/ ExpiryStep
  BY <1>0, <1>7, WriterFollows DEF Following
<1>8. CASE StateBegin
  <2>1. UNCHANGED <<adj, cron, carried, stopped, claims, checks>> /\ stmt'.pc = "read" /\ stmt.pc = "idle"
    BY <1>8, WritingTyped DEF StateBegin, rows, server, chain
  <2>2. Taking => Taking'
    BY <2>1, TakeKept DEF Taking
  <2> QED
    BY <1>0, <2>1, <2>2 DEF Following, OneWriter, Follows, WillGive
<1>9. CASE Expire
  BY <1>1, <1>9 DEF Expire, server, chain, procs, Still, Inv, RowsTyped, ClaimRows
<1>10. CASE HoldStep
  BY <1>1, <1>10 DEF HoldStep, HoldRecord, HoldUnfreeze, HoldClear, rows, server, chain, Still
<1>11. ASSUME NEW s \in Subjects, Pay(s) PROVE Following
  BY <1>1, <1>11 DEF Pay, server, chain, procs, Still
<1>12. ASSUME NEW r \in Requests, SubmitIdentity(r) \/ SubmitBusiness(r) \/ RequestStep(r) PROVE Following
  <2>1. Still /\ (claims' = claims \/ claims'.st = "submitted")
    BY <1>12 DEF SubmitIdentity, SubmitBusiness, RequestStep, Gate, Unregistered, ClaimsSubmitted, Provision, Recorded,
       Created, SpendFee, rows, server, chain, Still
  <2> QED
    BY <1>1, <2>1
<1>13. ASSUME NEW s \in Subs, Reorg(s) \/ Reconfirm(s) \/ HoldFreeze(s) \/ HoldLift(s) PROVE Following
  BY <1>1, <1>13 DEF Reorg, Reconfirm, HoldFreeze, HoldLift, rows, server, chain, procs, Still
<1>14. ASSUME NEW on \in BOOLEAN, ConsoleFreeze(on) PROVE Following
  BY <1>1, <1>14 DEF ConsoleFreeze, rows, chain, procs, Still
<1> QED
  BY <1>2, <1>3, <1>5, <1>6, <1>7, <1>8, <1>9, <1>10, <1>11, <1>12, <1>13, <1>14 DEF Next

\* "openampd category writes replace the whole list, so two concurrent writers on one AID would race" (catqueue.go):
\* with every call answered, no order of decisions, statements, expiries and submissions leaves the list of a refused
\* account at the policy server.
THEOREM ARefusedAccountIsNotAdmitted == Spec /\ Answered => []NothingBeyondClaims
<1>1. Init /\ Answered => Followed
  <2> SUFFICES ASSUME Init, Answered PROVE Followed
    OBVIOUS
  <2>1. budget.down = 0 /\ claims.st # "refused"
    BY DEF Init, Answered
  <2>2. OneWriter
    BY DecidingTyped, WritingTyped DEF Init, OneWriter
  <2> QED
    BY <2>1, <2>2 DEF Followed, Follows
<1>2. Inv /\ Followed /\ [Next]_vars => Inv' /\ Followed'
  BY InvNext, FollowedNext
<1>3. Followed => NothingBeyondClaims
  BY DEF Followed, Follows, Taking, WillTake, NothingBeyondClaims, Idle
<1> QED
  BY InvStart, <1>1, <1>2, <1>3, PTL DEF Spec
=============================================================================
