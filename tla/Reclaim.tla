------------------------------- MODULE Reclaim -------------------------------
(***************************************************************************)
(* Taking back a holder's tokens, from the console or as a step of the     *)
(* runbook that makes an investor whole who lost a key: sweep everything   *)
(* the old account holds, deliver as much to the new one.                  *)
(*                                                                          *)
(* A sweep holds clawMu of asset and holder; a runbook holds redeliverMu   *)
(* of its two accounts.  The issuer's key is the issuer's own (External:   *)
(* build, then complete with its signatures) or one the policy server      *)
(* keeps (a single call, found again in the public log).                   *)
(***************************************************************************)
EXTENDS Integers, Sequences, FiniteSetsExt

CONSTANTS
    Olds,       \* accounts whose key is lost
    News,       \* accounts they may be re-delivered to
    Reasons,    \* reasons given for a sweep
    Operators,  \* requests that may be in flight at once
    Settled     \* whether what a runbook sent is confirmed before the next one looks

ReclaimAssumption == Settled \in BOOLEAN /\ "none" \notin Olds \cup News

VARIABLES
    external,   \* Issuance.IssuerExternal
    bal,        \* units an old account holds, at the policy server
    source,     \* units in the enclave re-deliveries come from
    builds,     \* sweeps the policy server built: those of an issuer key of its own are made at once
    claws,      \* Clawback rows, oldest first
    rds,        \* Redelivery rows by old and new account, or none
    sent,       \* transfers made for a re-delivery
    arrived,    \*   and those that are confirmed
    oproc,      \* the requests in flight
    budget

server == <<bal, source, builds, sent, arrived>>

Pairs   == Olds \X News
None    == [state |-> "none"]
NoRow   == [state |-> "none", holder |-> "none", reason |-> "none", atoms |-> 0, build |-> 0]
Away    == [pc |-> "idle", pair |-> <<"none", "none">>, holder |-> "none", reason |-> "none",
            n |-> 0, copy |-> NoRow, before |-> 0]
Spent(what) == budget[what] > 0 /\ budget' = [budget EXCEPT ![what] = @ - 1]

Init ==
    /\ external \in BOOLEAN
    /\ bal \in [Olds -> {0, 1}] /\ source = 2
    /\ builds = <<>> /\ claws = <<>>
    /\ rds = [r \in Pairs |-> None]
    /\ sent = [r \in Pairs |-> 0] /\ arrived = [r \in Pairs |-> 0]
    /\ oproc = [p \in Operators |-> Away]

Holds(n) == FoldSet(LAMBDA o, k : k + arrived[<<o, n>>], 0, Olds)    \* confirmed balance of a new account

Runs(p)    == oproc[p].pair \in Pairs
To(p, pc)  == oproc' = [oproc EXCEPT ![p].pc = pc]
End(p)     == oproc' = [oproc EXCEPT ![p] = Away]
After(p)   == IF Runs(p) THEN "swept?" ELSE "idle"
\* The sweep is settled with row n: a runbook goes on, a console request is answered.
Return(p, n, row) ==
    oproc' = [oproc EXCEPT ![p] = IF Runs(p) THEN [@ EXCEPT !.pc = "noting", !.n = n, !.copy = row] ELSE Away]
Sweeping(o) == \E p \in Operators : oproc[p].holder = o /\ oproc[p].pc \in {"built", "sealing", "sealed", "posting"}
Newest(S)   == CHOOSE n \in S : \A m \in S : m <= n
RowsOf(o, st) == {n \in DOMAIN claws : claws[n].holder = o /\ claws[n].state = st}

--------------------------------------------------------------------------
(* Requests.                                                               *)

Console(p, o, why) ==
    /\ oproc[p] = Away /\ Spent("ask")
    /\ oproc' = [oproc EXCEPT ![p] = [Away EXCEPT !.pc = "claw", !.holder = o, !.reason = why]]
    /\ UNCHANGED <<external, server, claws, rds>>

\* The row is read before the lock.
ConsoleComplete(p, n) ==
    /\ oproc[p] = Away /\ claws[n].state = "awaiting_signature" /\ Spent("ask")
    /\ oproc' = [oproc EXCEPT ![p] = [Away EXCEPT !.pc = "seal", !.holder = claws[n].holder, !.n = n, !.copy = claws[n]]]
    /\ UNCHANGED <<external, server, claws, rds>>

Resumes(st) == CASE st \in {"none", "created"} -> "before"
                 [] st = "awaiting_clawback_sig" -> "sign"
                 [] st = "clawed" -> "deliver"
                 [] st = "redelivered" -> "account"
Runbook(p, r, why) ==
    /\ oproc[p] = Away /\ rds[r].state # "complete" /\ Spent("run")
    /\ \A q \in Operators : oproc[q].pair # r
    /\ rds' = IF rds[r] = None THEN [rds EXCEPT ![r] = [state |-> "created", swept |-> 0, claw |-> 0, before |-> 0]] ELSE rds
    /\ oproc' = [oproc EXCEPT ![p] = [Away EXCEPT !.pc = Resumes(rds[r].state), !.pair = r, !.holder = r[1], !.reason = why]]
    /\ UNCHANGED <<external, server, claws>>

--------------------------------------------------------------------------
(* The sweep.                                                              *)

Insert(p, row) == claws' = Append(claws, row) /\ Return(p, Len(claws) + 1, row)
Row(p, st, atoms, build) ==
    [holder |-> oproc[p].holder, reason |-> oproc[p].reason, state |-> st, atoms |-> atoms, build |-> build]
\* A sweep of a server-held key whose row still says sweeping, and its entry in the public log.
InLog(p) == {b \in DOMAIN builds : builds[b].holder = oproc[p].holder /\ builds[b].reason = oproc[p].reason}
Inflight(p)  == ~external /\ RowsOf(oproc[p].holder, "sweeping") # {}
Found(p) ==
    /\ oproc[p].pc = "claw" /\ ~Sweeping(oproc[p].holder) /\ Inflight(p) /\ InLog(p) # {}
    /\ LET n == Newest(RowsOf(oproc[p].holder, "sweeping"))
           row == [claws[n] EXCEPT !.state = "swept", !.atoms = builds[Newest(InLog(p))].atoms]
       IN  claws' = [claws EXCEPT ![n] = row] /\ Return(p, n, row)
    /\ UNCHANGED <<external, server, rds, budget>>

\* Nothing is left: the newest sweep of the holder, whatever it was for, or an empty one.
Nothing(p) ==
    /\ oproc[p].pc = "claw" /\ ~Sweeping(oproc[p].holder) /\ bal[oproc[p].holder] = 0
    /\ ~(Inflight(p) /\ InLog(p) # {})
    /\ LET S == RowsOf(oproc[p].holder, "swept")
       IN  IF S = {} THEN Insert(p, Row(p, "empty", 0, 0))
           ELSE Return(p, Newest(S), claws[Newest(S)]) /\ UNCHANGED claws
    /\ UNCHANGED <<external, server, rds, budget>>

Resume(p) ==
    /\ external /\ oproc[p].pc = "claw" /\ ~Sweeping(oproc[p].holder) /\ bal[oproc[p].holder] # 0
    /\ RowsOf(oproc[p].holder, "awaiting_signature") # {}
    /\ LET n == Newest(RowsOf(oproc[p].holder, "awaiting_signature")) IN Return(p, n, claws[n])
    /\ UNCHANGED <<external, server, claws, rds, budget>>

Built(p, done) == [holder |-> oproc[p].holder, reason |-> oproc[p].reason, atoms |-> bal[oproc[p].holder], done |-> done]
Build(p) ==
    /\ external /\ oproc[p].pc = "claw" /\ ~Sweeping(oproc[p].holder) /\ bal[oproc[p].holder] # 0
    /\ RowsOf(oproc[p].holder, "awaiting_signature") = {}
    /\ builds' = Append(builds, Built(p, FALSE))
    /\ \/ To(p, "built") /\ UNCHANGED budget
       \/ End(p) /\ Spent("lost")
    /\ UNCHANGED <<external, bal, source, sent, arrived, claws, rds>>
BuildRecord(p) ==
    /\ oproc[p].pc = "built"
    /\ Insert(p, Row(p, "awaiting_signature", builds[Len(builds)].atoms, Len(builds)))
    /\ UNCHANGED <<external, server, rds, budget>>

Seal(p) ==
    /\ oproc[p].pc = "seal" /\ ~Sweeping(oproc[p].holder)
    /\ IF oproc[p].copy.state = "swept" THEN Return(p, oproc[p].n, oproc[p].copy) ELSE To(p, "sealing")
    /\ UNCHANGED <<external, server, claws, rds, budget>>
\* The policy server completes a build once and answers the same again.  The holder's coins may be gone.
Completes(b) == builds[b].done \/ bal[builds[b].holder] = builds[b].atoms
Complete(p) ==
    /\ oproc[p].pc = "sealing" /\ Completes(oproc[p].copy.build)
    /\ builds' = [builds EXCEPT ![oproc[p].copy.build].done = TRUE]
    /\ bal' = IF builds[oproc[p].copy.build].done THEN bal ELSE [bal EXCEPT ![oproc[p].holder] = 0]
    /\ \/ To(p, "sealed") /\ UNCHANGED budget
       \/ End(p) /\ Spent("lost")
    /\ UNCHANGED <<external, source, sent, arrived, claws, rds>>
CompleteRefused(p) ==
    /\ oproc[p].pc = "sealing" /\ ~Completes(oproc[p].copy.build) /\ End(p)
    /\ UNCHANGED <<external, server, claws, rds, budget>>
SealRecord(p) ==
    /\ oproc[p].pc = "sealed"
    /\ LET row == [oproc[p].copy EXCEPT !.state = "swept"]
       IN  claws' = [claws EXCEPT ![oproc[p].n] = row] /\ Return(p, oproc[p].n, row)
    /\ UNCHANGED <<external, server, rds, budget>>

\* The row comes before the call; a row an earlier call left is used again.
SweepBegin(p) ==
    /\ ~external /\ oproc[p].pc = "claw" /\ ~Sweeping(oproc[p].holder) /\ bal[oproc[p].holder] # 0
    /\ ~(Inflight(p) /\ InLog(p) # {})
    /\ LET S == RowsOf(oproc[p].holder, "sweeping")
           row == Row(p, "sweeping", bal[oproc[p].holder], 0)
           n == IF S = {} THEN Len(claws) + 1 ELSE Newest(S)
       IN  /\ claws' = IF S = {} THEN Append(claws, row) ELSE claws
           /\ oproc' = [oproc EXCEPT ![p].pc = "posting", ![p].n = n, ![p].copy = IF S = {} THEN row ELSE claws[n]]
    /\ UNCHANGED <<external, server, rds, budget>>
Sweep(p) ==
    /\ oproc[p].pc = "posting"
    /\ builds' = Append(builds, Built(p, TRUE)) /\ bal' = [bal EXCEPT ![oproc[p].holder] = 0]
    /\ To(p, "sealed")
    /\ UNCHANGED <<external, source, sent, arrived, claws, rds, budget>>
\* A failed sweep that is not in the log was not made.
SweepFails(p) ==
    /\ oproc[p].pc = "posting" /\ InLog(p) = {} /\ Spent("lost") /\ End(p)
    /\ claws' = [claws EXCEPT ![oproc[p].n].state = "failed"]
    /\ UNCHANGED <<external, server, rds>>

--------------------------------------------------------------------------
(* The runbook.                                                            *)

Before(p) ==
    /\ oproc[p].pc = "before"
    /\ oproc' = [oproc EXCEPT ![p].before = Holds(oproc[p].pair[2]), ![p].pc = "claw"]
    /\ UNCHANGED <<external, server, claws, rds, budget>>

Note(p) ==
    /\ oproc[p].pc = "noting"
    /\ LET c == oproc[p].copy
           open == rds[oproc[p].pair].state = "created"
           row == [state |-> IF c.state = "awaiting_signature" THEN "awaiting_clawback_sig" ELSE "clawed",
                   swept |-> IF c.state = "swept" THEN c.atoms ELSE 0, claw |-> oproc[p].n,
                   before |-> IF open THEN oproc[p].before ELSE rds[oproc[p].pair].before]
       IN  /\ rds' = [rds EXCEPT ![oproc[p].pair] = row]
           /\ IF c.state = "awaiting_signature" THEN End(p) ELSE To(p, "deliver")
    /\ UNCHANGED <<external, server, claws, budget>>

\* The issuer's signatures are with the request; without them it only asks for them again.
Sign(p) ==
    /\ oproc[p].pc = "sign"
    /\ \/ End(p)
       \/ LET n == rds[oproc[p].pair].claw
          IN  oproc' = [oproc EXCEPT ![p].pc = "seal", ![p].n = n, ![p].copy = claws[n]]
    /\ UNCHANGED <<external, server, claws, rds, budget>>

Set(p, st) == rds' = [rds EXCEPT ![oproc[p].pair].state = st]
WholeByHand(r) == FALSE                                  \* mutant: a retry does not look
Whole(r) == Holds(r[2]) >= rds[r].before + rds[r].swept

\* Nothing was swept; or an earlier attempt delivered; or the source can pay for it.
Deliver(p) ==
    LET r == oproc[p].pair IN
    /\ oproc[p].pc = "deliver"
    /\ \/ rds[r].swept = 0 /\ Set(p, "complete") /\ End(p)
       \/ rds[r].swept # 0 /\ Whole(r) /\ Set(p, "redelivered") /\ To(p, "account")
       \/ rds[r].swept # 0 /\ ~Whole(r) /\ UNCHANGED rds
          /\ IF source >= rds[r].swept THEN To(p, "transfer") ELSE End(p)
    /\ Settled => sent[r] = arrived[r]
    /\ UNCHANGED <<external, server, claws, budget>>
Transfer(p) ==
    LET r == oproc[p].pair IN
    /\ oproc[p].pc = "transfer"
    /\ sent' = [sent EXCEPT ![r] = @ + rds[r].swept] /\ source' = source - rds[r].swept
    /\ \/ To(p, "delivered") /\ UNCHANGED budget
       \/ End(p) /\ Spent("lost")
    /\ UNCHANGED <<external, bal, builds, arrived, claws, rds>>
TransferFails(p) ==
    /\ oproc[p].pc = "transfer" /\ Spent("lost") /\ End(p)
    /\ UNCHANGED <<external, server, claws, rds>>
Delivered(p) ==
    /\ oproc[p].pc = "delivered" /\ Set(p, "redelivered") /\ To(p, "account")
    /\ UNCHANGED <<external, server, claws, budget>>
Account(p) ==
    /\ oproc[p].pc = "account" /\ Set(p, "complete") /\ End(p)
    /\ UNCHANGED <<external, server, claws, budget>>

Confirm(r) ==
    /\ arrived[r] < sent[r] /\ arrived' = [arrived EXCEPT ![r] = sent[r]]
    /\ UNCHANGED <<external, bal, source, builds, sent, claws, rds, oproc, budget>>

Crash ==
    /\ Spent("crash") /\ oproc' = [p \in Operators |-> Away]
    /\ UNCHANGED <<external, server, claws, rds>>

Claw(p) ==
    \/ Found(p) \/ Nothing(p) \/ Resume(p) \/ Build(p) \/ BuildRecord(p)
    \/ Seal(p) \/ Complete(p) \/ CompleteRefused(p) \/ SealRecord(p)
    \/ SweepBegin(p) \/ Sweep(p) \/ SweepFails(p)
Redeliver(p) ==
    \/ Before(p) \/ Note(p) \/ Sign(p) \/ Deliver(p)
    \/ Transfer(p) \/ TransferFails(p) \/ Delivered(p) \/ Account(p)
Next ==
    \/ \E p \in Operators : Claw(p) \/ Redeliver(p)
    \/ \E p \in Operators, o \in Olds, why \in Reasons : Console(p, o, why)
    \/ \E p \in Operators, n \in DOMAIN claws : ConsoleComplete(p, n)
    \/ \E p \in Operators, r \in Pairs, why \in Reasons : Runbook(p, r, why)
    \/ Crash \/ \E r \in Pairs : Confirm(r)

\* "Every step is logged, idempotent, and reconciled" (redeliver.go:12): what was swept is
\* delivered once however often the runbook is stopped, left unanswered and run again beside
\* the console, and a finished one has delivered it.
RedeliveredOnce ==
    \A r \in Pairs : rds[r] # None =>
        /\ sent[r] <= rds[r].swept
        /\ rds[r].state \in {"redelivered", "complete"} => sent[r] = rds[r].swept
=============================================================================
