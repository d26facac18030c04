------------------------------ MODULE Accounts -------------------------------
(***************************************************************************)
(* Which SeqPal ID a key signs in to.  A key is a wallet's descriptor or   *)
(* the key of an enclave; an ID is named after the key it was founded      *)
(* with, and may be held in more wallets and in one enclave.  Each         *)
(* statement of the database is a step.                                    *)
(* Source: auth.go, wallet_auth.go, wallets.go, wallets_store.go,          *)
(* store.go (challenges, accounts, account_wallets).                       *)
(***************************************************************************)
EXTENDS Naturals, FiniteSets

CONSTANTS Wallets, Enclaves,   \* the keys
          Visits,              \* requests in flight together
          Torn                 \* steps a stop of the process may fall before

VARIABLES
    accounts,   \* accounts: the enclave each has in its xonly column, or none
    wallets,    \* account_wallets: owner of each key, or none
    proofs,     \* challenges signed and not yet used, by key
    visits,     \* the requests in flight
    answer,     \* the ID a key last signed in to, or none since it was unlinked
    budget

avars == <<accounts, wallets, proofs, visits, answer>>

Keys   == Wallets \cup Enclaves
None   == "none"
Absent == "absent"
Nobody == [pc |-> "idle"]

Spent(k) == budget[k] > 0 /\ budget' = [budget EXCEPT ![k] = @ - 1]

Init ==
    /\ accounts = [k \in Keys |-> Absent] /\ wallets = [k \in Keys |-> None]
    /\ proofs = [k \in Keys |-> 0] /\ visits = [v \in Visits |-> Nobody]
    /\ answer = [k \in Keys |-> None]

Exists(a)   == accounts[a] # Absent
HeldIn(a)   == {k \in Keys : wallets[k] = a}
XOnlyOf(k)  == {a \in Keys : accounts[a] = k}     \* the index on accounts.xonly keeps it a singleton
HasEnclave(a) == accounts[a] \in Enclaves \/ HeldIn(a) \cap Enclaves # {}

At(v, pc)   == visits[v].pc = pc
Goes(v, pc) == visits' = [visits EXCEPT ![v].pc = pc]
Leaves(v)   == visits' = [visits EXCEPT ![v] = Nobody]
Key(v)      == visits[v].key
Owner(v)    == visits[v].aid
Comes(v, op, k, a, pc) ==
    /\ At(v, "idle") /\ Spent("visit")
    /\ visits' = [visits EXCEPT ![v] = [pc |-> pc, op |-> op, key |-> k, aid |-> a]]
    /\ UNCHANGED <<accounts, wallets, proofs, answer>>

\* CreateChallenge, and the holder of the key signs it.
Challenge(k) ==
    /\ Spent("challenge") /\ proofs' = [proofs EXCEPT ![k] = @ + 1]
    /\ UNCHANGED <<accounts, wallets, visits, answer>>

\* ConsumeChallenge: one use, however many requests present it.
Consumed(k) == proofs[k] > 0 /\ proofs' = [proofs EXCEPT ![k] = @ - 1]

Prove(v, before, after) ==
    /\ At(v, before)
    /\ \/ Consumed(Key(v)) /\ Goes(v, after)
       \/ proofs[Key(v)] = 0 /\ Leaves(v) /\ UNCHANGED proofs
    /\ UNCHANGED <<accounts, wallets, answer, budget>>

\* A check on the way to a write: on, or out with a refusal.
Checks(v, before, passes, after) ==
    /\ At(v, before)
    /\ IF passes THEN Goes(v, after) ELSE Leaves(v)
    /\ UNCHANGED <<accounts, wallets, proofs, answer, budget>>

\* A row of account_wallets, if the indexes take it.
Insertable(k, a) == wallets[k] = None /\ (k \in Enclaves => HeldIn(a) \cap Enclaves = {})
Inserted(k, a) == wallets' = IF Insertable(k, a) THEN [wallets EXCEPT ![k] = a] ELSE wallets

OpenSession(v, a) ==
    /\ answer' = [answer EXCEPT ![Key(v)] = a] /\ Leaves(v)

-----------------------------------------------------------------------------
(* Founding an ID and signing in.                                          *)

Register(v, k) == Comes(v, "register", k, k, "register")

\* A wallet asks for a row of another ID as well; an enclave relies on the index of accounts.
UnregisteredUnasked(k) == ~Exists(k)
Unregistered(k)        == ~Exists(k) /\ (k \in Wallets => wallets[k] = None)

CreateAccount(v) ==
    /\ At(v, "create")
    /\ IF Exists(Key(v)) \/ (Key(v) \in Enclaves /\ XOnlyOf(Key(v)) # {})
       THEN Leaves(v) /\ UNCHANGED accounts
       ELSE /\ Goes(v, "first")
            /\ accounts' = [accounts EXCEPT ![Key(v)] = IF Key(v) \in Enclaves THEN Key(v) ELSE None]
    /\ UNCHANGED <<wallets, proofs, answer, budget>>

\* A row the indexes refuse is only noted.
FirstWallet(v) ==
    /\ At(v, "first") /\ Inserted(Key(v), Key(v)) /\ Goes(v, "in")
    /\ UNCHANGED <<accounts, proofs, answer, budget>>

Registered(v) ==
    /\ At(v, "in") /\ OpenSession(v, Key(v))
    /\ UNCHANGED <<accounts, wallets, proofs, budget>>

Login(v, k) == Comes(v, "login", k, k, "login")

\* AccountByDescriptor or AccountByEnclaveKey, then the ID the key itself names.
SignedIn(v) ==
    /\ At(v, "find")
    /\ IF wallets[Key(v)] # None THEN OpenSession(v, wallets[Key(v)])
       ELSE IF Exists(Key(v)) THEN OpenSession(v, Key(v))
       ELSE Leaves(v) /\ UNCHANGED answer
    /\ UNCHANGED <<accounts, wallets, proofs, budget>>

-----------------------------------------------------------------------------
(* Further wallets of an ID, by somebody signed in to it.                  *)

Link(v, k, a)   == Exists(a) /\ Comes(v, "link", k, a, IF k \in Wallets THEN "wallet" ELSE "enclave")
Attach(v, k, a) == k \in Enclaves /\ Exists(a) /\ Comes(v, "attach", k, a, "attach")

Free(k, a) == /\ wallets[k] = None
              /\ ~Exists(k) \/ k = a
              /\ k \in Enclaves => XOnlyOf(k) \subseteq {a}

InsertWallet(v) ==
    /\ At(v, "insert") /\ Inserted(Key(v), Owner(v))
    /\ IF Insertable(Key(v), Owner(v)) /\ Key(v) \in Enclaves THEN Goes(v, "column") ELSE Leaves(v)
    /\ UNCHANGED <<accounts, proofs, answer, budget>>

\* AttachEnclave: only an ID founded as a wallet, and only a key no other ID has.
Attached(k, a) == accounts' = IF accounts[a] = None /\ XOnlyOf(k) = {}
                              THEN [accounts EXCEPT ![a] = k] ELSE accounts

LinkColumn(v) ==
    /\ At(v, "column") /\ Attached(Key(v), Owner(v)) /\ Leaves(v)
    /\ UNCHANGED <<wallets, proofs, answer, budget>>

AttachColumn(v) ==
    /\ At(v, "attached") /\ Attached(Key(v), Owner(v))
    /\ IF accounts[Owner(v)] = None /\ XOnlyOf(Key(v)) # {} THEN Leaves(v) ELSE Goes(v, "row")
    /\ UNCHANGED <<wallets, proofs, answer, budget>>

AttachRow(v) ==
    /\ At(v, "row") /\ Inserted(Key(v), Owner(v)) /\ Leaves(v)
    /\ UNCHANGED <<accounts, proofs, answer, budget>>

\* Never the enclave, and never the last.
Unlink(v, k) ==
    /\ k \in Wallets /\ wallets[k] # None /\ Cardinality(HeldIn(wallets[k])) > 1
    /\ Comes(v, "unlink", k, wallets[k], "unlink")

Delete(v) ==
    /\ At(v, "unlink")
    /\ IF wallets[Key(v)] = Owner(v)
       THEN wallets' = [wallets EXCEPT ![Key(v)] = None] /\ answer' = [answer EXCEPT ![Key(v)] = None]
       ELSE UNCHANGED <<wallets, answer>>
    /\ Leaves(v) /\ UNCHANGED <<accounts, proofs, budget>>

-----------------------------------------------------------------------------
Crash ==
    /\ Spent("crash")
    /\ \A v \in Visits : visits[v].pc \in Torn \cup {"idle"}
    /\ visits' = [v \in Visits |-> Nobody]
    /\ UNCHANGED <<accounts, wallets, proofs, answer>>

Visit(v) ==
    \/ \E k \in Keys : Register(v, k) \/ Login(v, k) \/ Unlink(v, k)
    \/ \E k, a \in Keys : Link(v, k, a) \/ Attach(v, k, a)
    \/ Prove(v, "register", "unknown")
    \/ Checks(v, "unknown", Unregistered(Key(v)), "create")
    \/ CreateAccount(v) \/ FirstWallet(v) \/ Registered(v)
    \/ Prove(v, "login", "find") \/ SignedIn(v)
    \/ Checks(v, "wallet", Free(Key(v), Owner(v)), "prove") \/ Prove(v, "prove", "insert")
    \/ Checks(v, "enclave", ~HasEnclave(Owner(v)), "claim") \/ Prove(v, "claim", "free")
    \/ Checks(v, "free", Free(Key(v), Owner(v)), "insert")
    \/ InsertWallet(v) \/ LinkColumn(v)
    \/ Checks(v, "attach", ~HasEnclave(Owner(v)), "own") \/ Prove(v, "own", "mine")
    \/ Checks(v, "mine", ~Exists(Key(v)) /\ XOnlyOf(Key(v)) = {}, "attached")
    \/ AttachColumn(v) \/ AttachRow(v)
    \/ Delete(v)

Next == (\E k \in Keys : Challenge(k)) \/ (\E v \in Visits : Visit(v)) \/ Crash

-----------------------------------------------------------------------------
\* A key that signed in to an ID signs in to no other, unless it was unlinked in between: no order
\* of founding, linking, attaching and unlinking makes two identities of one key
\* (handleWalletChallenge: "registering it then made a second identity for one wallet").
OneAnswer ==
    [][\A k \in Keys : answer[k] # None /\ answer'[k] # None => answer'[k] = answer[k]]_<<avars, budget>>
=============================================================================
