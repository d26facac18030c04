-------------------------------- MODULE Rules --------------------------------
(***************************************************************************)
(* Changes of an asset's policy rules: the intent is recorded, the rules   *)
(* are posted to the policy server, read back, and an amendment naming     *)
(* what was read joins the chain; a cron finishes what was interrupted.    *)
(*                                                                          *)
(* A change and the cron hold rulesMu of the asset while they work on it.  *)
(* The cron takes its list of unfinished changes before the lock.          *)
(***************************************************************************)
EXTENDS Integers, Sequences, SequencesExt

CONSTANTS
    RuleSets,   \* what an issuer may publish, the empty rule set among it
    Empty,      \* no rules at all
    Callers     \* changes that may be in flight at once

RulesAssumption == Empty \in RuleSets

VARIABLES
    onchain,    \* the rules the policy server enforces
    muts,       \* RulesMutation rows, oldest first
    amends,     \* the new_rules_hash of each Amendment, in order
    rproc,      \* the changes in flight, and the cron
    rtodo,      \* copies of rows the cron has yet to work on
    budget

rows  == <<onchain, muts, amends>>
rvars == <<onchain, muts, amends, rproc, rtodo>>

Cron  == "cron"
Procs == Callers \cup {Cron}
Rest  == [pc |-> "idle", row |-> 0, read |-> Empty]
Spent(what) == budget[what] > 0 /\ budget' = [budget EXCEPT ![what] = @ - 1]
SpentBoth(a, b) == budget[a] > 0 /\ budget[b] > 0 /\ budget' = [budget EXCEPT ![a] = @ - 1, ![b] = @ - 1]

Init ==
    /\ onchain \in RuleSets
    /\ muts = <<>> /\ amends = <<>>
    /\ rproc = [p \in Procs |-> Rest] /\ rtodo = <<>>

Locked      == \E p \in Procs : rproc[p].pc # "idle"
Go(p, pc)   == rproc' = [rproc EXCEPT ![p].pc = pc]
End(p)      == rproc' = [rproc EXCEPT ![p] = Rest]
Mark(p, st) == muts' = [muts EXCEPT ![rproc[p].row].state = st]

\* Replacing a rule set that can be read with nothing is refused.
MayReplace(v) == v # Empty \/ onchain = Empty

Intend(p, v) ==
    /\ p # Cron /\ ~Locked /\ MayReplace(v)
    /\ IF rtodo = <<>> THEN Spent("change") ELSE SpentBoth("change", "overlap")
    /\ muts' = Append(muts, [rules |-> v, state |-> "pending"])
    /\ rproc' = [rproc EXCEPT ![p] = [Rest EXCEPT !.pc = "post", !.row = Len(muts) + 1]]
    /\ UNCHANGED <<onchain, amends, rtodo>>

Post(p) ==
    /\ rproc[p].pc = "post"
    /\ onchain' = muts[rproc[p].row].rules
    /\ Go(p, "posted")
    /\ UNCHANGED <<muts, amends, rtodo, budget>>

\* Refused, or not answered, in which case the rules may be in force.
PostFails(p) ==
    /\ rproc[p].pc = "post" /\ Spent("lost")
    /\ onchain' \in {onchain, muts[rproc[p].row].rules}
    /\ End(p)
    /\ UNCHANGED <<muts, amends, rtodo>>

Posted(p) ==
    /\ rproc[p].pc = "posted" /\ Mark(p, "rules_posted") /\ Go(p, "read")
    /\ UNCHANGED <<onchain, amends, rtodo, budget>>

ReadIntended(p) == muts[rproc[p].row].rules      \* mutant: the rules asked for, not those in force
Read(p)         == onchain
ReadBack(p) ==
    /\ rproc[p].pc = "read"
    /\ rproc' = [rproc EXCEPT ![p].pc = "amend", ![p].read = Read(p)]
    /\ UNCHANGED <<rows, rtodo, budget>>
ReadFails(p) ==
    /\ rproc[p].pc = "read" /\ Spent("lost") /\ End(p)
    /\ UNCHANGED <<rows, rtodo>>

Amend(p) ==
    /\ rproc[p].pc = "amend"
    /\ amends' = Append(amends, rproc[p].read) /\ Go(p, "close")
    /\ UNCHANGED <<onchain, muts, rtodo, budget>>
Close(p) ==
    /\ rproc[p].pc = "close" /\ Mark(p, "complete") /\ End(p)
    /\ UNCHANGED <<onchain, amends, rtodo, budget>>

\* The unfinished changes, oldest first, as they are now.  ("overlap" bounds how often a change and
\* a list of the cron are under way together.)
Unfinished == {n \in DOMAIN muts : muts[n].state # "complete"}
Listed == [n \in DOMAIN muts |-> [row |-> n, state |-> muts[n].state]]
List ==
    /\ rproc[Cron] = Rest /\ rtodo = <<>> /\ Unfinished # {}
    /\ IF Locked THEN Spent("overlap") ELSE UNCHANGED budget
    /\ rtodo' = SelectSeq(Listed, LAMBDA c : c.state # "complete")
    /\ UNCHANGED <<rows, rproc>>

\* A copy that says pending is posted again, whatever the row says by now.
Take ==
    /\ rtodo # <<>> /\ ~Locked
    /\ rproc' = [rproc EXCEPT ![Cron] =
                  [Rest EXCEPT !.row = Head(rtodo).row,
                               !.pc = IF Head(rtodo).state = "pending" THEN "post" ELSE "read"]]
    /\ rtodo' = Tail(rtodo)
    /\ UNCHANGED <<rows, budget>>

Crash ==
    /\ Spent("crash") /\ rproc' = [p \in Procs |-> Rest] /\ rtodo' = <<>>
    /\ UNCHANGED rows

Step(p) == Post(p) \/ Posted(p) \/ ReadBack(p) \/ Amend(p) \/ Close(p)
Next ==
    \/ \E p \in Procs : Step(p) \/ PostFails(p) \/ ReadFails(p) \/ \E v \in RuleSets : Intend(p, v)
    \/ List \/ Take \/ Crash

\* "GET /v1/assets/{id} rules ALWAYS equals the head of the anchored amendment chain"
\* (rulesmutation.go:20): once nobody changes anything, every change is finished and the last
\* amendment names the rules in force, whatever restarts and unanswered calls left behind and
\* whichever old change the cron posted again.
HeadFollows == <>[](Unfinished = {} /\ (amends # <<>> => Last(amends) = onchain))
=============================================================================
