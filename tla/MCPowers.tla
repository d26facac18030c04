------------------------------ MODULE MCPowers ------------------------------
(* Instances of an issuer's powers for TLC.                                 *)
EXTENDS Powers, TLC

CONSTANTS p1, p2

Kept == {"change", "lost", "crash", "ask", "run", "try", "node", "wish", "overlap"}
May(which, f) == [power |-> which, may |-> [k \in Kept |-> IF k \in DOMAIN f THEN f[k] ELSE 0]]

\* Three changes of the rules, with faults or overtaken; a runbook tried twice beside two console
\* requests; two operations of a freeze, or three around a restart of the node; two changes of a
\* list together, or one published again after a lost answer and a stop.
Mixtures ==
    {May("rules",   [change |-> 3, lost |-> 1, crash |-> 1]),
     May("reclaim", [ask |-> 2, run |-> 2, lost |-> 1, crash |-> 1]),
     May("freeze",  [ask |-> 2, try |-> 2, lost |-> 1, crash |-> 1]),
     May("freeze",  [ask |-> 3, try |-> 3, node |-> 1]),
     May("lists",   [change |-> 2, try |-> 2, wish |-> 1]),
     May("lists",   [change |-> 1, try |-> 3, wish |-> 1, lost |-> 1, crash |-> 1])}

\* A change overtaken by another while the cron holds a copy of it, and an unanswered call.
Overtaken == {May("rules", [change |-> 3, lost |-> 1, overlap |-> 2])}
=============================================================================
