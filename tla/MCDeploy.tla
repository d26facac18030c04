------------------------------ MODULE MCDeploy ------------------------------
(* Instances of the deployment for TLC.                                      *)
EXTENDS Deploy, TLC

CONSTANTS i1, i2, r1, r2, c1, c2

Tickers == [t \in {"t1", "t2"} |-> IF t = "t1" THEN "ONE" ELSE "TWO"]
Few(a, s, l, b, o) == [ask |-> a, crash |-> s, lost |-> l, block |-> b, reorg |-> o]

\* Two deploys, of one issuance or of two, with a restart and an unanswered call; one whose
\* transaction is mined and reorganised away twice, around a restart.
Mixtures == {Few(2, 1, 1, 0, 0), Few(1, 1, 0, 3, 2)}
=============================================================================
