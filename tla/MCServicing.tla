---------------------------- MODULE MCServicing ----------------------------
(* Instances of distributions, refunds and payments to wallets for TLC.     *)
EXTENDS Servicing, TLC

CONSTANTS x, y, z

\* z is a second subscription of y's account, with its key; no balance of record is z's.
Accounts == x :> "ann" @@ y :> "bob" @@ z :> "bob"
Keys     == x :> "k1" @@ y :> "k2" @@ z :> "k2"
Ranks    == x :> 1 @@ y :> 2 @@ z :> 3
Mandates == x :> "ok" @@ y :> "ok" @@ z :> "none"
Rates    == x :> 1500 @@ y :> 0 @@ z :> 0
Paid     == [s \in Payees |-> 5]

\* y sells to x between two readings.
Readings == {x :> 1 @@ y :> 2 @@ z :> 0, x :> 2 @@ y :> 1 @@ z :> 0}
=============================================================================
