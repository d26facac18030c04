----------------------------- MODULE MCPlatform ------------------------------
(* Instances of the platform's other parts for TLC.                         *)
EXTENDS Platform, TLC

CONSTANTS t1, t2, c1, c2, m1, b1, b2, p1, p2, d1, d2, k1, v1, q1, q2

Kept == {"click", "overlap", "wallet", "mint", "redeem", "unread", "lost", "crash",
         "quote", "deposit", "visit", "challenge", "reissue", "move", "index", "dividend", "vote", "claim", "refuse"}
May(which, f) == [part |-> which, may |-> [k \in Kept |-> IF k \in DOMAIN f THEN f[k] ELSE 0]]

Mixtures ==
    {May("market", [click |-> 3, overlap |-> 1, wallet |-> 1, lost |-> 1]),
     May("market", [click |-> 3, overlap |-> 1, lost |-> 1, crash |-> 1]),
     May("market", [click |-> 2, overlap |-> 1, wallet |-> 1, lost |-> 1, crash |-> 1]),
     May("market", [click |-> 3, lost |-> 1, unread |-> 1, crash |-> 1]),
     May("market", [click |-> 2, wallet |-> 1, lost |-> 1, unread |-> 1, crash |-> 1]),
     May("market", [redeem |-> 4, mint |-> 2, lost |-> 1, crash |-> 1]),
     May("market", [redeem |-> 4, lost |-> 1, unread |-> 1]),
     May("fees", [quote |-> 3, deposit |-> 2, crash |-> 1]),
     May("accounts", [visit |-> 5, challenge |-> 5, crash |-> 1]),
     May("actions", [dividend |-> 1, reissue |-> 1, claim |-> 2, crash |-> 1]),
     May("actions", [dividend |-> 1, move |-> 2, claim |-> 1, crash |-> 1]),
     May("actions", [dividend |-> 1, claim |-> 1, refuse |-> 2, crash |-> 2]),
     May("actions", [dividend |-> 1, claim |-> 1, lost |-> 1, unread |-> 1, crash |-> 1]),
     May("actions", [vote |-> 1, reissue |-> 1, move |-> 1, index |-> 2, claim |-> 2])}

\* Three units are issued in one coin, which may split and join again; one more may be reissued.
Graph   == [mint |-> {}, again |-> {}, split |-> {"x"}, join |-> {"a", "b"}]
Coins   == [mint |-> {"x"}, again |-> {"r"}, split |-> {"a", "b"}, join |-> {"c"}]
Units   == [x |-> 3, r |-> 1, a |-> 1, b |-> 2, c |-> 3]
Holder  == [x |-> "h1", r |-> "h1", a |-> "h1", b |-> "h2", c |-> "h2"]
Percent == [h1 |-> 0, h2 |-> 30]
=============================================================================
