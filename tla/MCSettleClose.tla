--------------------------- MODULE MCSettleClose ---------------------------
(* Instances of the close on the other rails for TLC.                       *)
EXTENDS SettleClose, TLC

CONSTANTS s1, s2, ann, bob

Apart    == s1 :> ann @@ s2 :> bob
Together == s1 :> ann @@ s2 :> ann
InOrder  == s1 :> 1 @@ s2 :> 2

Mixed   == s1 :> "usdx" @@ s2 :> "btc"

Eight == [s \in Subs |-> 8]
One   == [s \in Subs |-> 1]
\* Half of the money each day, at most three quarters, at least 2 in dollars.
Minimum == [r \in {"usdx", "btc"} |-> IF r = "usdx" THEN 2 ELSE 0]
=============================================================================
