--------------------------- MODULE MCVerification ---------------------------
(* Instances of the verification of one account and one entity for TLC.     *)
EXTENDS Verification, TLC

CONSTANTS r1, r2

Few(c, p, s, d, r, t, e, f) ==
    [check |-> c, pay |-> p, crash |-> s, down |-> d, reorg |-> r, state |-> t, expire |-> e, console |-> f]

\* A restart, or an unanswered call, among two submissions; a statement around one; a
\* reorganisation around one; a statement with an expiry; a reorganisation with a freeze
\* by the owner, an unanswered call and an expiry.
Mixtures == {Few(2, 1, 1, 0, 0, 0, 0, 0), Few(2, 1, 0, 1, 0, 0, 0, 0), Few(1, 1, 0, 0, 0, 1, 0, 0),
             Few(1, 1, 0, 0, 1, 0, 0, 0), Few(0, 0, 0, 0, 0, 1, 1, 0), Few(0, 0, 0, 1, 1, 0, 1, 1)}
=============================================================================
