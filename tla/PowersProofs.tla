---------------------------- MODULE PowersProofs ----------------------------
(* What holds of an issuer's powers for every value of the constants.       *)
EXTENDS Powers, Integers, Sequences, FiniteSetTheorems, WellFoundedInduction, TLAPS

-----------------------------------------------------------------------------
(* Lists: what a change published is on the list it published.              *)

Preps   == [prev : Nat, keys : SUBSET Keys, done : BOOLEAN]
Pops    == [kind : {"freeze", "unfreeze"}, keys : SUBSET Keys, order : Papers, added : SUBSET Keys, prep : Nat,
            state : {"pending", "prepared", "published"}]
Wishes  == [key : Keys, state : {"pending", "approved", "refused", "included"}]
Editing == [pc : {"deciding"}, wish : Nat, state : {"approved", "refused"}]
Drawing == [pc : {"prepared"}, kind : {"freeze", "unfreeze"}, keys : SUBSET Keys, order : Papers,
            added : SUBSET Keys, prep : Nat]
Signing == [pc : {"signed", "publish", "published", "follow", "include"}, op : Nat]

ListsTyped ==
    /\ published \in [seq : Nat, keys : SUBSET Keys]
    /\ preps \in Seq(Preps) /\ pops \in Seq(Pops) /\ wish \in Seq(Wishes)
    /\ lreq \in [Handlers -> {L!Off} \cup Editing \cup Drawing \cup Signing]

\* A request holds numbers of rows that are there, and past the answer of the policy server, of a change made.
HeldBy(h) ==
    /\ lreq[h].pc = "deciding" => lreq[h].wish \in DOMAIN wish
    /\ lreq[h].pc = "prepared" => lreq[h].prep \in DOMAIN preps
    /\ lreq[h].pc \in {"signed", "publish", "published", "follow", "include"} => lreq[h].op \in DOMAIN pops
    /\ lreq[h].pc \in {"published", "follow", "include"} => preps[pops[lreq[h].op].prep].done
ListsHeld == (\A m \in DOMAIN pops : pops[m].prep \in DOMAIN preps) /\ \A h \in Handlers : HeldBy(h)

ListsInv == ListsTyped /\ ListsHeld /\ IncludedTrue

LEMMA ListsStart == Init => ListsInv
  BY DEF Init, L!Init, ListsInv, ListsTyped, ListsHeld, HeldBy, IncludedTrue, L!IncludedTrue, L!Off

\* Rows are added at the end, and changed in place.
LEMMA Edited ==
    ASSUME NEW T, NEW s \in Seq(T), NEW n \in DOMAIN s, NEW e \in T
    PROVE  LET t == [s EXCEPT ![n] = e]
           IN  t \in Seq(T) /\ DOMAIN t = DOMAIN s /\ t[n] = e /\ \A m \in DOMAIN s : m # n => t[m] = s[m]
  OBVIOUS

LEMMA Added ==
    ASSUME NEW T, NEW s \in Seq(T), NEW e \in T
    PROVE  LET t == Append(s, e)
           IN  /\ t \in Seq(T) /\ DOMAIN t = DOMAIN s \cup {Len(s) + 1} /\ Len(s) + 1 \notin DOMAIN s
               /\ t[Len(s) + 1] = e /\ \A m \in DOMAIN s : t[m] = s[m]
  OBVIOUS

\* What a step does to one request, and nothing to the others.
Moved(h, r) == lreq'[h] = r /\ \A g \in Handlers : g # h => lreq'[g] = lreq[g]

LEMMA ListsMoved ==
    ASSUME ListsTyped, NEW h \in Handlers, NEW r \in {L!Off} \cup Editing \cup Drawing \cup Signing,
           lreq' = [lreq EXCEPT ![h] = r]
    PROVE  lreq' \in [Handlers -> {L!Off} \cup Editing \cup Drawing \cup Signing] /\ Moved(h, r)
  BY DEF ListsTyped, Moved

\* No row goes away, no change made is undone, and no operation becomes another.
Grown ==
    /\ DOMAIN wish \subseteq DOMAIN wish' /\ DOMAIN preps \subseteq DOMAIN preps' /\ DOMAIN pops \subseteq DOMAIN pops'
    /\ \A k \in DOMAIN preps : preps[k].done => preps'[k].done
    /\ \A m \in DOMAIN pops : pops'[m].kind = pops[m].kind /\ pops'[m].added = pops[m].added /\ pops'[m].prep = pops[m].prep

LEMMA ListsKept ==
    ASSUME ListsHeld, Grown, NEW h \in Handlers, NEW r, Moved(h, r), HeldBy(h)',
           \A m \in DOMAIN pops' : pops'[m].prep \in DOMAIN preps'
    PROVE  ListsHeld'
<1> SUFFICES ASSUME NEW g \in Handlers, g # h PROVE HeldBy(g)'
  BY DEF ListsHeld
<1>1. HeldBy(g) /\ lreq'[g] = lreq[g]
  BY DEF ListsHeld, Moved
<1>2. lreq[g].op \in DOMAIN pops => pops[lreq[g].op].prep \in DOMAIN preps
  BY DEF ListsHeld
<1> QED
  BY <1>1, <1>2 DEF HeldBy, Grown

LEMMA IncludedKept ==
    ASSUME ListsHeld, IncludedTrue, Grown,
           \A n \in DOMAIN wish' : wish'[n].state = "included" =>
               n \in DOMAIN wish /\ wish[n].state = "included" /\ wish'[n].key = wish[n].key,
           \A m \in DOMAIN pops' : pops'[m].state = "published" =>
               m \in DOMAIN pops /\ (pops[m].state = "published" \/ preps'[pops'[m].prep].done)
    PROVE  IncludedTrue'
<1>1. \A m \in DOMAIN pops : pops[m].prep \in DOMAIN preps
  BY DEF ListsHeld
<1>2. \A m \in DOMAIN pops : preps[pops[m].prep].done => preps'[pops'[m].prep].done
  BY <1>1 DEF Grown
<1> QED
  BY <1>2 DEF IncludedTrue, L!IncludedTrue, Grown

LEMMA ListsKinds ==
    ASSUME ListsTyped, NEW h \in Handlers
    PROVE  /\ lreq[h].pc = "deciding" => lreq[h] \in Editing
           /\ lreq[h].pc = "prepared" => lreq[h] \in Drawing
           /\ lreq[h].pc \in {"signed", "publish", "published", "follow", "include"} => lreq[h] \in Signing
<1>1. lreq[h] \in {L!Off} \cup Editing \cup Drawing \cup Signing
  BY DEF ListsTyped
<1>2. lreq[h] = L!Off => lreq[h].pc = "idle"
  BY DEF L!Off
<1> QED
  BY <1>1, <1>2 DEF Editing, Drawing, Signing

LEMMA ListsDecide == ASSUME ListsInv, NEW h \in Handlers, L!Decide(h) PROVE ListsInv'
<1>1. lreq[h] \in Editing
  BY ListsKinds DEF ListsInv, L!Decide
<1> DEFINE n == lreq[h].wish
           w == [wish[n] EXCEPT !.state = lreq[h].state]
<1>2. UNCHANGED <<published, preps, pops>> /\ lreq' = [lreq EXCEPT ![h] = L!Off]
  BY DEF L!Decide, L!End, L!server
<1>3. n \in DOMAIN wish /\ wish \in Seq(Wishes)
  BY <1>1 DEF ListsInv, ListsTyped, ListsHeld, HeldBy, Editing
<1>4. wish' = [wish EXCEPT ![n] = w] /\ w \in Wishes /\ w.state # "included"
  <2>1. wish[n] \in Wishes
    BY <1>3
  <2> QED
    BY <1>1, <1>3, <2>1 DEF L!Decide, Editing, Wishes
<1> HIDE DEF n, w
<1>5. wish' \in Seq(Wishes) /\ DOMAIN wish' = DOMAIN wish /\ wish'[n] = w /\ \A m \in DOMAIN wish : m # n => wish'[m] = wish[m]
  BY <1>3, <1>4, Edited
<1>6. lreq' \in [Handlers -> {L!Off} \cup Editing \cup Drawing \cup Signing] /\ Moved(h, L!Off)
  BY <1>2, ListsMoved DEF ListsInv
<1>7. ListsTyped'
  BY <1>2, <1>5, <1>6 DEF ListsInv, ListsTyped
<1>8. Grown
  BY <1>2, <1>5 DEF Grown
<1>9. ListsHeld'
  <2>1. HeldBy(h)'
    BY <1>6 DEF HeldBy, Moved, L!Off
  <2>2. \A m \in DOMAIN pops' : pops'[m].prep \in DOMAIN preps'
    BY <1>2 DEF ListsInv, ListsHeld
  <2> QED
    BY <1>6, <1>8, <2>1, <2>2, ListsKept DEF ListsInv
<1>10. IncludedTrue'
  BY <1>2, <1>4, <1>5, <1>8, IncludedKept DEF ListsInv, IncludedTrue, L!IncludedTrue
<1> QED
  BY <1>7, <1>9, <1>10 DEF ListsInv

LEMMA ListsRecord == ASSUME ListsInv, NEW h \in Handlers, L!Record(h) PROVE ListsInv'
<1>1. lreq[h] \in Drawing
  BY ListsKinds DEF ListsInv, L!Record
<1> DEFINE e == [kind |-> lreq[h].kind, keys |-> lreq[h].keys, order |-> lreq[h].order,
                 added |-> lreq[h].added, prep |-> lreq[h].prep, state |-> "pending"]
<1>2. UNCHANGED <<published, preps, wish>> /\ lreq' = [lreq EXCEPT ![h] = L!Off] /\ pops' = Append(pops, e)
  BY DEF L!Record, L!End, L!server
<1>3. e \in Pops /\ e.prep \in DOMAIN preps /\ e.state # "published"
  <2>1. e \in Pops
    BY <1>1 DEF Drawing, Pops
  <2> QED
    BY <1>1, <2>1 DEF ListsInv, ListsHeld, HeldBy, Drawing
<1> HIDE DEF e
<1>4. /\ pops' \in Seq(Pops) /\ DOMAIN pops' = DOMAIN pops \cup {Len(pops) + 1} /\ Len(pops) + 1 \notin DOMAIN pops
      /\ pops'[Len(pops) + 1] = e /\ \A m \in DOMAIN pops : pops'[m] = pops[m]
  BY <1>2, <1>3, Added DEF ListsInv, ListsTyped
<1>5. lreq' \in [Handlers -> {L!Off} \cup Editing \cup Drawing \cup Signing] /\ Moved(h, L!Off)
  BY <1>2, ListsMoved DEF ListsInv
<1>6. ListsTyped'
  BY <1>2, <1>4, <1>5 DEF ListsInv, ListsTyped
<1>7. Grown
  BY <1>2, <1>4 DEF Grown
<1>8. ListsHeld'
  <2>1. HeldBy(h)'
    BY <1>5 DEF HeldBy, Moved, L!Off
  <2>2. \A m \in DOMAIN pops' : pops'[m].prep \in DOMAIN preps'
    BY <1>2, <1>3, <1>4 DEF ListsInv, ListsHeld
  <2> QED
    BY <1>5, <1>7, <2>1, <2>2, ListsKept DEF ListsInv
<1>9. IncludedTrue'
  BY <1>2, <1>3, <1>4, <1>7, IncludedKept DEF ListsInv, IncludedTrue, L!IncludedTrue
<1> QED
  BY <1>6, <1>8, <1>9 DEF ListsInv

\* The state of the operation a request completes is set, to published only when its change was made.
LEMMA ListsMark ==
    ASSUME ListsInv, NEW h \in Handlers, NEW st \in {"prepared", "published"}, NEW pc \in {"publish", "follow"},
           lreq[h] \in Signing, pc = "follow" \/ st = "published" => lreq[h].pc = "published",
           pops' = [pops EXCEPT ![lreq[h].op].state = st], lreq' = [lreq EXCEPT ![h].pc = pc],
           UNCHANGED <<published, preps, wish>>
    PROVE  ListsInv'
<1> DEFINE n == lreq[h].op
           e == [pops[n] EXCEPT !.state = st]
           r == [lreq[h] EXCEPT !.pc = pc]
<1>1. n \in DOMAIN pops /\ pops \in Seq(Pops)
  BY DEF ListsInv, ListsTyped, ListsHeld, HeldBy, Signing
<1>2. pops[n] \in Pops
  BY <1>1
<1>3. e \in Pops /\ e.kind = pops[n].kind /\ e.added = pops[n].added /\ e.prep = pops[n].prep /\ e.state = st
  BY <1>2 DEF Pops
<1>4. r \in Signing /\ r.op = n /\ r.pc = pc
  BY DEF Signing
<1>5. (pc = "follow" \/ st = "published") => preps[e.prep].done
  BY <1>3 DEF ListsInv, ListsHeld, HeldBy
<1>6. pops' = [pops EXCEPT ![n] = e] /\ lreq' = [lreq EXCEPT ![h] = r]
  BY <1>1 DEF ListsInv, ListsTyped
<1> HIDE DEF n, e, r
<1>7. pops' \in Seq(Pops) /\ DOMAIN pops' = DOMAIN pops /\ pops'[n] = e /\ \A m \in DOMAIN pops : m # n => pops'[m] = pops[m]
  <2>1. e \in Pops /\ pops' = [pops EXCEPT ![n] = e]
    BY <1>3, <1>6
  <2>2. LET t == [pops EXCEPT ![n] = e]
        IN  t \in Seq(Pops) /\ DOMAIN t = DOMAIN pops /\ t[n] = e /\ \A m \in DOMAIN pops : m # n => t[m] = pops[m]
    BY <1>1, <2>1, Edited, Zenon
  <2> QED
    BY <2>1, <2>2
<1>8. lreq' \in [Handlers -> {L!Off} \cup Editing \cup Drawing \cup Signing] /\ Moved(h, r)
  BY <1>4, <1>6, ListsMoved DEF ListsInv
<1>9. Grown
  BY <1>3, <1>7 DEF Grown
<1>10. ListsTyped'
  BY <1>7, <1>8 DEF ListsInv, ListsTyped
<1>11. ListsHeld'
  <2>1. HeldBy(h)'
    BY <1>1, <1>4, <1>5, <1>7, <1>8 DEF HeldBy, Moved
  <2>2. \A m \in DOMAIN pops' : pops'[m].prep \in DOMAIN preps'
    BY <1>7, <1>9 DEF ListsInv, ListsHeld, Grown
  <2> QED
    BY <1>8, <1>9, <2>1, <2>2, ListsKept DEF ListsInv
<1>12. IncludedTrue'
  <2>1. \A m \in DOMAIN pops' : pops'[m].state = "published" =>
            m \in DOMAIN pops /\ (pops[m].state = "published" \/ preps'[pops'[m].prep].done)
    BY <1>1, <1>3, <1>5, <1>7
  <2> QED
    BY <1>9, <2>1, IncludedKept DEF ListsInv
<1> QED
  BY <1>10, <1>11, <1>12 DEF ListsInv

LEMMA ListsPublish == ASSUME ListsInv, NEW h \in Handlers, L!Publish(h) PROVE ListsInv'
<1>1. lreq[h] \in Signing /\ lreq[h].pc = "publish"
  BY ListsKinds DEF ListsInv, L!Publish
<1> DEFINE n == pops[lreq[h].op].prep
           p == preps[n]
           e == [p EXCEPT !.done = TRUE]
<1>2. n \in DOMAIN preps /\ preps \in Seq(Preps) /\ lreq[h].op \in DOMAIN pops
  BY <1>1 DEF ListsInv, ListsTyped, ListsHeld, HeldBy
<1>3. p \in Preps
  BY <1>2
<1>4. e \in Preps /\ e.done
  BY <1>3 DEF Preps
<1>5. /\ UNCHANGED <<pops, wish, shown>> /\ preps' = [preps EXCEPT ![n] = e]
      /\ published' = IF p.done THEN published ELSE [seq |-> p.prev + 1, keys |-> p.keys]
      /\ lreq' = [lreq EXCEPT ![h].pc = "published"] \/ lreq' = [lreq EXCEPT ![h] = L!Off]
  BY DEF L!Publish, L!Op, L!At, L!End, L!lrows
<1>6. published' \in [seq : Nat, keys : SUBSET Keys]
  <2>1. p.prev + 1 \in Nat /\ p.keys \in SUBSET Keys
    BY <1>3 DEF Preps
  <2>2. published \in [seq : Nat, keys : SUBSET Keys]
    BY DEF ListsInv, ListsTyped
  <2> QED
    BY <1>5, <2>1, <2>2
<1> HIDE DEF n, p, e
<1>7. preps' \in Seq(Preps) /\ DOMAIN preps' = DOMAIN preps /\ preps'[n] = e /\ \A m \in DOMAIN preps : m # n => preps'[m] = preps[m]
  BY <1>2, <1>4, <1>5, Edited
<1>8. Grown
  BY <1>4, <1>5, <1>7 DEF Grown
<1> DEFINE r == [lreq[h] EXCEPT !.pc = "published"]
<1>9. r \in Signing /\ r.op = lreq[h].op /\ r.pc = "published"
  BY <1>1 DEF Signing
<1>10. lreq' = [lreq EXCEPT ![h] = r] \/ lreq' = [lreq EXCEPT ![h] = L!Off]
  BY <1>5 DEF ListsInv, ListsTyped
<1> HIDE DEF r
<1>11. PICK q \in {r, L!Off} : lreq' \in [Handlers -> {L!Off} \cup Editing \cup Drawing \cup Signing] /\ Moved(h, q)
  BY <1>9, <1>10, ListsMoved DEF ListsInv
<1>12. ListsTyped'
  BY <1>5, <1>6, <1>7, <1>11 DEF ListsInv, ListsTyped
<1>13. ListsHeld'
  <2>1. HeldBy(h)'
    <3>1. CASE q = r
      BY <1>2, <1>4, <1>5, <1>7, <1>9, <1>11, <3>1 DEF HeldBy, Moved, n
    <3>2. CASE q = L!Off
      BY <1>11, <3>2 DEF HeldBy, Moved, L!Off
    <3> QED
      BY <3>1, <3>2
  <2>2. \A m \in DOMAIN pops' : pops'[m].prep \in DOMAIN preps'
    BY <1>5, <1>7 DEF ListsInv, ListsHeld
  <2> QED
    BY <1>8, <1>11, <2>1, <2>2, ListsKept DEF ListsInv
<1>14. IncludedTrue'
  BY <1>5, <1>8, IncludedKept DEF ListsInv
<1> QED
  BY <1>12, <1>13, <1>14 DEF ListsInv

\* A request that only moves on, or ends, holding what it held.
LEMMA ListsTurn ==
    ASSUME ListsInv, NEW h \in Handlers, NEW r \in {L!Off} \cup Editing \cup Drawing \cup Signing,
           lreq' = [lreq EXCEPT ![h] = r], UNCHANGED <<published, preps, pops, wish>>, HeldBy(h)'
    PROVE  ListsInv'
<1>1. lreq' \in [Handlers -> {L!Off} \cup Editing \cup Drawing \cup Signing] /\ Moved(h, r)
  BY ListsMoved DEF ListsInv
<1>2. Grown
  BY DEF Grown
<1>3. ListsHeld'
  BY <1>1, <1>2, ListsKept DEF ListsInv, ListsHeld
<1>4. IncludedTrue'
  BY <1>2, IncludedKept DEF ListsInv
<1> QED
  BY <1>1, <1>3, <1>4 DEF ListsInv, ListsTyped

LEMMA ListsDraw ==
    ASSUME ListsInv, NEW h \in Handlers, NEW kind \in {"freeze", "unfreeze"}, NEW K \in SUBSET Keys, NEW o \in Papers,
           L!Prepare(h, kind, K, o)
    PROVE  ListsInv'
<1> DEFINE all == L!Changed(kind, K)
           e == [prev |-> published.seq, keys |-> all, done |-> FALSE]
           r == [pc |-> "prepared", kind |-> kind, keys |-> K, order |-> o,
                 added |-> all \ published.keys, prep |-> Len(preps) + 1]
<1>1. /\ UNCHANGED <<published, pops, wish, shown>>
      /\ preps' = Append(preps, e) /\ lreq' = [lreq EXCEPT ![h] = r]
  BY DEF L!Prepare, L!lrows
<1>2. published.seq \in Nat /\ published.keys \subseteq Keys /\ preps \in Seq(Preps)
  BY DEF ListsInv, ListsTyped
<1>3. all \subseteq Keys
  BY <1>2 DEF L!Changed
<1> HIDE DEF all
<1>4. e \in Preps /\ r \in Drawing /\ r.prep = Len(preps) + 1 /\ r.pc = "prepared"
  BY <1>2, <1>3 DEF Preps, Drawing
<1> HIDE DEF e, r
<1>5. /\ preps' \in Seq(Preps) /\ DOMAIN preps' = DOMAIN preps \cup {Len(preps) + 1}
      /\ \A m \in DOMAIN preps : preps'[m] = preps[m]
  BY <1>1, <1>2, <1>4, Added
<1>6. lreq' \in [Handlers -> {L!Off} \cup Editing \cup Drawing \cup Signing] /\ Moved(h, r)
  BY <1>1, <1>4, ListsMoved DEF ListsInv
<1>7. Grown
  BY <1>1, <1>5 DEF Grown
<1>8. HeldBy(h)'
  BY <1>4, <1>5, <1>6 DEF HeldBy, Moved
<1>9. ListsHeld'
  BY <1>1, <1>5, <1>6, <1>7, <1>8, ListsKept DEF ListsInv, ListsHeld
<1>10. IncludedTrue'
  BY <1>1, <1>7, IncludedKept DEF ListsInv
<1> QED
  BY <1>1, <1>5, <1>6, <1>9, <1>10 DEF ListsInv, ListsTyped

LEMMA ListsInclude == ASSUME ListsInv, NEW h \in Handlers, L!Include(h) PROVE ListsInv'
<1> DEFINE op == pops[lreq[h].op]
           w(n) == IF wish[n].key \in L!Included(h) /\ wish[n].state = "approved"
                   THEN [wish[n] EXCEPT !.state = "included"] ELSE wish[n]
<1>1. /\ lreq[h].pc = "include" /\ lreq' = [lreq EXCEPT ![h] = L!Off]
      /\ wish' = [n \in DOMAIN wish |-> w(n)] /\ UNCHANGED <<published, preps, pops, shown>>
  BY DEF L!Include, L!End, L!server
<1>2. wish \in Seq(Wishes)
  BY DEF ListsInv, ListsTyped
<1>3. \A n \in DOMAIN wish : /\ w(n) \in Wishes /\ w(n).key = wish[n].key
                             /\ w(n).state = "included" => wish[n].state = "included" \/ wish[n].key \in L!Included(h)
  <2> TAKE n \in DOMAIN wish
  <2>1. wish[n] \in Wishes
    BY <1>2
  <2> QED
    BY <2>1 DEF Wishes
<1> HIDE DEF w
<1>4. /\ DOMAIN wish' = DOMAIN wish /\ wish' \in Seq(Wishes)
      /\ \A n \in DOMAIN wish : wish'[n] = w(n)
  BY <1>1, <1>2, <1>3
<1>5. lreq' \in [Handlers -> {L!Off} \cup Editing \cup Drawing \cup Signing] /\ Moved(h, L!Off)
  BY <1>1, ListsMoved DEF ListsInv
<1>6. Grown
  BY <1>1, <1>4 DEF Grown
<1>7. HeldBy(h)'
  BY <1>5 DEF HeldBy, Moved, L!Off
<1>8. ListsHeld'
  BY <1>1, <1>5, <1>6, <1>7, ListsKept DEF ListsInv, ListsHeld
<1>9. IncludedTrue'
  <2>1. lreq[h].op \in DOMAIN pops /\ preps[op.prep].done
    BY <1>1 DEF ListsInv, ListsHeld, HeldBy
  <2>2. L!Included(h) # {} => op.kind = "unfreeze" /\ L!Included(h) = op.added
    BY DEF L!Included, L!Op
  <2>3. ASSUME NEW n \in DOMAIN wish', wish'[n].state = "included"
        PROVE  \E m \in DOMAIN pops : pops[m].kind = "unfreeze" /\ wish'[n].key \in pops[m].added /\ preps[pops[m].prep].done
    <3>1. CASE wish[n].state = "included"
      BY <1>3, <1>4, <2>3, <3>1 DEF ListsInv, IncludedTrue, L!IncludedTrue
    <3>2. CASE wish[n].key \in L!Included(h)
      BY <1>3, <1>4, <2>1, <2>2, <2>3, <3>2
    <3> QED
      BY <1>3, <1>4, <2>3, <3>1, <3>2
  <2> QED
    BY <1>1, <2>3 DEF ListsInv, IncludedTrue, L!IncludedTrue
<1> QED
  BY <1>1, <1>4, <1>5, <1>8, <1>9 DEF ListsInv, ListsTyped

LEMMA ListsAsk == ASSUME ListsInv, NEW k \in Keys, L!Ask(k) PROVE ListsInv'
<1> DEFINE e == [key |-> k, state |-> "pending"]
<1>1. wish' = Append(wish, e) /\ UNCHANGED <<published, preps, pops, shown, lreq>>
  BY DEF L!Ask, L!server
<1>2. e \in Wishes /\ e.state = "pending"
  BY DEF Wishes
<1> HIDE DEF e
<1>3. /\ wish' \in Seq(Wishes) /\ DOMAIN wish' = DOMAIN wish \cup {Len(wish) + 1}
      /\ wish'[Len(wish) + 1] = e /\ \A n \in DOMAIN wish : wish'[n] = wish[n]
  BY <1>1, <1>2, Added DEF ListsInv, ListsTyped
<1>4. Grown
  BY <1>1, <1>3 DEF Grown
<1>5. ListsTyped'
  BY <1>1, <1>3 DEF ListsInv, ListsTyped
<1>6. ListsHeld'
  BY <1>1, <1>3 DEF ListsInv, ListsHeld, HeldBy
<1>7. IncludedTrue'
  <2>1. \A n \in DOMAIN wish' : wish'[n].state = "included" =>
            n \in DOMAIN wish /\ wish[n].state = "included" /\ wish'[n].key = wish[n].key
    BY <1>2, <1>3
  <2> QED
    BY <1>1, <1>4, <2>1, IncludedKept DEF ListsInv
<1> QED
  BY <1>5, <1>6, <1>7 DEF ListsInv

LEMMA ListsCrash == ASSUME ListsInv, L!Crash PROVE ListsInv'
<1>1. lreq' = [h \in Handlers |-> L!Off] /\ UNCHANGED <<published, preps, pops, wish, shown>>
  BY DEF L!Crash, L!server, L!lrows
<1>2. ListsTyped'
  BY <1>1 DEF ListsInv, ListsTyped
<1>3. ListsHeld'
  BY <1>1 DEF ListsInv, ListsHeld, HeldBy, L!Off
<1>4. IncludedTrue'
  BY <1>1 DEF ListsInv, IncludedTrue, L!IncludedTrue
<1> QED
  BY <1>2, <1>3, <1>4 DEF ListsInv

LEMMA ListsNext == ASSUME ListsInv, L!Next PROVE ListsInv'
<1>1. ASSUME NEW h \in Handlers, L!Step(h) PROVE ListsInv'
  <2>1. CASE L!MarkPrepared(h)
    BY <2>1, ListsKinds, ListsMark DEF L!MarkPrepared, L!At, L!server, ListsInv
  <2>2. CASE L!MarkPublished(h)
    BY <2>2, ListsKinds, ListsMark DEF L!MarkPublished, L!At, L!server, ListsInv
  <2>3. CASE L!PublishRefused(h)
    <3>1. lreq' = [lreq EXCEPT ![h] = L!Off] /\ UNCHANGED <<published, preps, pops, wish, shown>>
      BY <2>3 DEF L!PublishRefused, L!End, L!server, L!lrows
    <3>2. HeldBy(h)'
      BY <3>1, ListsMoved DEF ListsInv, HeldBy, Moved, L!Off
    <3> QED
      BY <3>1, <3>2, ListsTurn
  <2>4. CASE L!Follow(h)
    <3> DEFINE r == [lreq[h] EXCEPT !.pc = "include"]
    <3>1. lreq[h] \in Signing /\ lreq[h].pc = "follow"
      BY <2>4, ListsKinds DEF ListsInv, L!Follow
    <3>2. r \in Signing /\ r.pc = "include" /\ r.op = lreq[h].op
      BY <3>1 DEF Signing
    <3>3. lreq' = [lreq EXCEPT ![h] = r] /\ UNCHANGED <<published, preps, pops, wish>>
      BY <2>4 DEF L!Follow, L!At, L!server
    <3> HIDE DEF r
    <3>4. HeldBy(h)'
      BY <3>1, <3>2, <3>3, ListsMoved DEF ListsInv, ListsHeld, HeldBy, Moved
    <3> QED
      BY <3>2, <3>3, <3>4, ListsTurn
  <2> QED
    BY <1>1, <2>1, <2>2, <2>3, <2>4, ListsDecide, ListsRecord, ListsPublish, ListsInclude DEF L!Step
<1>2. ASSUME NEW h \in Handlers, NEW n \in DOMAIN pops, L!CompleteBegin(h, n) PROVE ListsInv'
  <2> DEFINE r == [pc |-> "signed", op |-> n]
  <2>1. lreq' = [lreq EXCEPT ![h] = r] /\ UNCHANGED <<published, preps, pops, wish, shown>>
    BY <1>2 DEF L!CompleteBegin, L!server, L!lrows
  <2>2. r \in Signing
    BY DEF Signing, ListsInv, ListsTyped
  <2>3. HeldBy(h)'
    BY <2>1, <2>2, ListsMoved DEF ListsInv, HeldBy, Moved
  <2> QED
    BY <2>1, <2>2, <2>3, ListsTurn
<1>3. ASSUME NEW h \in Handlers, NEW n \in DOMAIN wish, NEW st \in {"approved", "refused"}, L!DecideBegin(h, n, st)
      PROVE  ListsInv'
  <2> DEFINE r == [pc |-> "deciding", wish |-> n, state |-> st]
  <2>1. lreq' = [lreq EXCEPT ![h] = r] /\ UNCHANGED <<published, preps, pops, wish, shown>>
    BY <1>3 DEF L!DecideBegin, L!server, L!lrows
  <2>2. r \in Editing
    BY DEF Editing, ListsInv, ListsTyped
  <2>3. HeldBy(h)'
    BY <2>1, <2>2, ListsMoved DEF ListsInv, HeldBy, Moved
  <2> QED
    BY <2>1, <2>2, <2>3, ListsTurn
<1> QED
  BY <1>1, <1>2, <1>3, ListsDraw, ListsCrash, ListsAsk DEF L!Next

\* "'included' only ever means the list actually moved" (whitelist.go): a holder's request that says it
\* was included has its key in a change that added it and was published, and every operation said to be
\* published had its change made, for any holders, requests of the issuer and interruptions.
THEOREM WhatIsIncludedWasPublished == Spec => []IncludedTrue
<1>1. ListsInv /\ [Next]_vars => ListsInv'
  <2>1. ASSUME ListsInv, UNCHANGED lists PROVE ListsInv'
    BY <2>1 DEF lists, ListsInv, ListsTyped, ListsHeld, HeldBy, IncludedTrue, L!IncludedTrue
  <2> QED
    BY <2>1, ListsNext DEF Next, vars
<1>2. ListsInv => IncludedTrue
  BY DEF ListsInv
<1> QED
  BY ListsStart, <1>1, <1>2, PTL DEF Spec

-----------------------------------------------------------------------------
(* Supervision: a freeze in force belongs to one operation.                 *)

Kinds == {"freeze", "unfreeze"}
Ops   == [asset : Assets, kind : Kinds, target : Targets, order : Orders, ref : Nat, fund : Funds, tx : Nat,
          state : {"pending", "submitting", "submitted"}]
Funding    == [pc : {"fund"}, kind : Kinds, target : Targets, order : Orders, ref : Nat]
Composing  == [pc : {"message"}, fund : Funds, kind : Kinds, target : Targets, order : Orders, ref : Nat]
Completing == [pc : {"assemble", "persist", "send", "note"}, op : Nat, tx : Nat]
Freezing   == {S!Still} \cup Funding \cup Composing \cup Completing

FreezesTyped == ops \in Seq(Ops) /\ known \in Nat /\ sreq \in [Assets -> Freezing]

\* A transaction has one operation at most, and one that was taken has the operation it was made for.
TxHeld ==
    /\ \A n \in DOMAIN ops : ops[n].tx <= known
    /\ \A m, n \in DOMAIN ops : ops[m].tx # 0 /\ ops[m].tx = ops[n].tx => m = n
    /\ \A t \in chain : t.id # 0 /\ \E n \in DOMAIN ops : ops[n].tx = t.id /\ ops[n].kind = t.kind
    /\ \A n \in DOMAIN ops : ops[n].state = "submitted" => \E t \in chain : t.id = ops[n].tx

\* A request works on an operation of its own asset; what it assembled is no operation's yet, and what
\* it sends is its operation's.
RequestHeld(a) ==
    /\ sreq[a].pc \in {"assemble", "persist", "send", "note"} =>
         sreq[a].op \in DOMAIN ops /\ ops[sreq[a].op].asset = a
    /\ sreq[a].pc \in {"assemble", "persist"} => ops[sreq[a].op].tx = 0
    /\ sreq[a].pc = "persist" =>
         sreq[a].tx # 0 /\ sreq[a].tx <= known /\ \A n \in DOMAIN ops : ops[n].tx # sreq[a].tx
    /\ sreq[a].pc \in {"send", "note"} => sreq[a].tx # 0 /\ sreq[a].tx = ops[sreq[a].op].tx
    /\ sreq[a].pc = "note" => \E t \in chain : t.id = sreq[a].tx
Apart == \A a, b \in Assets : sreq[a].pc = "persist" /\ sreq[b].pc = "persist" /\ sreq[a].tx = sreq[b].tx => a = b

FreezesInv == FreezesTyped /\ TxHeld /\ (\A a \in Assets : RequestHeld(a)) /\ Apart

LEMMA FreezesStart == Init => FreezesInv
<1> SUFFICES ASSUME Init PROVE FreezesInv
  OBVIOUS
<1>1. ops = <<>> /\ chain = {} /\ known = 0 /\ sreq = [a \in Assets |-> S!Still]
  BY DEF Init, S!Init
<1>2. \A a \in Assets : sreq[a].pc = "idle"
  BY <1>1 DEF S!Still
<1> QED
  BY <1>1, <1>2 DEF FreezesInv, FreezesTyped, TxHeld, RequestHeld, Apart, Freezing

\* What a step does to the request of one asset, and nothing to the others'.
Turned(a, r) == sreq'[a] = r /\ \A b \in Assets : b # a => sreq'[b] = sreq[b]

LEMMA FreezesMoved ==
    ASSUME FreezesTyped, NEW a \in Assets, NEW r \in Freezing, sreq' = [sreq EXCEPT ![a] = r]
    PROVE  sreq' \in [Assets -> Freezing] /\ Turned(a, r)
  BY DEF FreezesTyped, Turned

LEMMA FreezesKinds ==
    ASSUME FreezesTyped, NEW a \in Assets
    PROVE  /\ sreq[a].pc = "fund" => sreq[a] \in Funding
           /\ sreq[a].pc = "message" => sreq[a] \in Composing
           /\ sreq[a].pc \in {"assemble", "persist", "send", "note"} => sreq[a] \in Completing
<1>1. sreq[a] \in Freezing
  BY DEF FreezesTyped
<1>2. S!Still.pc = "idle"
  BY DEF S!Still
<1> QED
  BY <1>1, <1>2 DEF Freezing, Funding, Composing, Completing

\* Another asset's request keeps what it holds.
LEMMA FreezesKept ==
    ASSUME FreezesInv, NEW a \in Assets, NEW r, Turned(a, r), RequestHeld(a)',
           DOMAIN ops \subseteq DOMAIN ops', chain \subseteq chain', known \in Nat, known' \in Nat, known <= known',
           \A n \in DOMAIN ops : ops'[n].asset = ops[n].asset /\ (ops[n].asset # a => ops'[n].tx = ops[n].tx),
           \A b \in Assets, n \in DOMAIN ops' : b # a /\ sreq[b].pc = "persist" => ops'[n].tx # sreq[b].tx
    PROVE  \A b \in Assets : RequestHeld(b)'
<1> SUFFICES ASSUME NEW b \in Assets, b # a PROVE RequestHeld(b)'
  OBVIOUS
<1>1. RequestHeld(b) /\ sreq'[b] = sreq[b] /\ FreezesTyped
  BY DEF FreezesInv, Turned
<1>2. sreq[b].pc = "persist" => sreq[b].tx \in Nat
  BY <1>1, FreezesKinds DEF Completing
<1> QED
  BY <1>1, <1>2 DEF RequestHeld

\* A step in which no operation and no transaction changes.
LEMMA FreezesTurn ==
    ASSUME FreezesInv, NEW a \in Assets, NEW r \in Freezing, sreq' = [sreq EXCEPT ![a] = r], r.pc # "persist",
           UNCHANGED <<ops, chain, known>>, RequestHeld(a)'
    PROVE  FreezesInv'
<1>1. sreq' \in [Assets -> Freezing] /\ Turned(a, r)
  BY FreezesMoved DEF FreezesInv
<1>2. TxHeld' /\ FreezesTyped'
  BY <1>1 DEF FreezesInv, TxHeld, FreezesTyped
<1>3. \A b \in Assets : RequestHeld(b)'
  <2>1. \A b \in Assets, n \in DOMAIN ops' : b # a /\ sreq[b].pc = "persist" => ops'[n].tx # sreq[b].tx
    BY DEF FreezesInv, RequestHeld
  <2> QED
    BY <1>1, <2>1, FreezesKept DEF FreezesInv, FreezesTyped
<1>4. Apart'
  BY <1>1 DEF FreezesInv, Apart, Turned
<1> QED
  BY <1>2, <1>3, <1>4 DEF FreezesInv

LEMMA FreezesEnd ==
    ASSUME FreezesInv, NEW a \in Assets, S!End(a), UNCHANGED <<ops, chain, known>>
    PROVE  FreezesInv'
<1>1. sreq' = [sreq EXCEPT ![a] = S!Still] /\ S!Still \in Freezing /\ S!Still.pc = "idle"
  BY DEF S!End, S!Still, Freezing
<1>2. RequestHeld(a)'
  BY <1>1, FreezesMoved DEF FreezesInv, RequestHeld, Turned
<1> QED
  BY <1>1, <1>2, FreezesTurn

LEMMA FreezesBuild == ASSUME FreezesInv, NEW a \in Assets, S!Build(a) PROVE FreezesInv'
<1> DEFINE e == [asset |-> a, kind |-> sreq[a].kind, target |-> sreq[a].target, order |-> sreq[a].order,
                 ref |-> sreq[a].ref, fund |-> sreq[a].fund, tx |-> 0, state |-> "pending"]
<1>1. sreq[a] \in Composing
  BY FreezesKinds DEF S!Build, FreezesInv
<1>2. e \in Ops /\ e.tx = 0 /\ e.state = "pending"
  BY <1>1 DEF Composing, Ops
<1>3. ops' = Append(ops, e) /\ sreq' = [sreq EXCEPT ![a] = S!Still] /\ UNCHANGED <<chain, known>>
  BY DEF S!Build, S!End, S!wallet
<1> HIDE DEF e
<1>4. /\ ops' \in Seq(Ops) /\ DOMAIN ops' = DOMAIN ops \cup {Len(ops) + 1} /\ Len(ops) + 1 \notin DOMAIN ops
      /\ ops'[Len(ops) + 1] = e /\ \A n \in DOMAIN ops : ops'[n] = ops[n]
  BY <1>2, <1>3, Added DEF FreezesInv, FreezesTyped
<1>5. sreq' \in [Assets -> Freezing] /\ Turned(a, S!Still) /\ S!Still.pc = "idle"
  BY <1>3, FreezesMoved DEF FreezesInv, Freezing, S!Still
<1>6. FreezesTyped'
  BY <1>3, <1>4, <1>5 DEF FreezesInv, FreezesTyped
<1>7. TxHeld'
  <2>1. \A n \in DOMAIN ops' : ops'[n].tx <= known'
    BY <1>2, <1>3, <1>4 DEF FreezesInv, FreezesTyped, TxHeld
  <2>2. \A m, n \in DOMAIN ops' : ops'[m].tx # 0 /\ ops'[m].tx = ops'[n].tx => m = n
    BY <1>2, <1>4 DEF FreezesInv, TxHeld
  <2>3. \A t \in chain' : t.id # 0 /\ \E n \in DOMAIN ops' : ops'[n].tx = t.id /\ ops'[n].kind = t.kind
    BY <1>3, <1>4 DEF FreezesInv, TxHeld
  <2>4. \A n \in DOMAIN ops' : ops'[n].state = "submitted" => \E t \in chain' : t.id = ops'[n].tx
    BY <1>2, <1>3, <1>4 DEF FreezesInv, TxHeld
  <2> QED
    BY <2>1, <2>2, <2>3, <2>4 DEF TxHeld
<1>8. \A b \in Assets : RequestHeld(b)'
  <2>1. RequestHeld(a)'
    BY <1>5 DEF RequestHeld, Turned
  <2>2. \A b \in Assets, n \in DOMAIN ops' : b # a /\ sreq[b].pc = "persist" => ops'[n].tx # sreq[b].tx
    BY <1>2, <1>4 DEF FreezesInv, RequestHeld
  <2> QED
    BY <1>3, <1>4, <1>5, <2>1, <2>2, FreezesKept DEF FreezesInv, FreezesTyped
<1>9. Apart'
  BY <1>5 DEF FreezesInv, Apart, Turned
<1> QED
  BY <1>6, <1>7, <1>8, <1>9 DEF FreezesInv

LEMMA FreezesAssemble == ASSUME FreezesInv, NEW a \in Assets, S!Assemble(a) PROVE FreezesInv'
<1> DEFINE y == known + 1
           r == [[sreq[a] EXCEPT !.pc = "persist"] EXCEPT !.tx = y]
<1>1. sreq[a] \in Completing /\ sreq[a].pc = "assemble" /\ known \in Nat
  BY FreezesKinds DEF S!Assemble, FreezesInv, FreezesTyped
<1>2. r \in Completing /\ r.pc = "persist" /\ r.tx = y /\ r.op = sreq[a].op
  <2>1. y \in Nat
    BY <1>1
  <2> HIDE DEF y
  <2>2. [sreq[a] EXCEPT !.pc = "persist"] \in Completing
    BY <1>1 DEF Completing
  <2> QED
    BY <1>1, <2>1, <2>2 DEF Completing
<1>3. sreq' = [sreq EXCEPT ![a] = r] /\ known' = known + 1 /\ UNCHANGED <<ops, chain>>
  <2>1. sreq' = [sreq EXCEPT ![a].pc = "persist", ![a].tx = known + 1]
    BY DEF S!Assemble
  <2>2. sreq' = [sreq EXCEPT ![a] = r]
    BY <2>1 DEF FreezesInv, FreezesTyped
  <2> QED
    BY <2>2 DEF S!Assemble, S!wallet
<1> HIDE DEF r
<1>4. sreq' \in [Assets -> Freezing] /\ Turned(a, r)
  BY <1>2, <1>3, FreezesMoved DEF FreezesInv, Freezing
<1>5. \A n \in DOMAIN ops : ops[n].tx \in Nat /\ ops[n].tx <= known
  <2>1. \A n \in DOMAIN ops : ops[n] \in Ops
    BY DEF FreezesInv, FreezesTyped
  <2> QED
    BY <2>1 DEF FreezesInv, TxHeld, Ops
<1>6. FreezesTyped'
  BY <1>1, <1>3, <1>4 DEF FreezesInv, FreezesTyped
<1>7. TxHeld'
  BY <1>1, <1>3, <1>5 DEF FreezesInv, TxHeld
<1>8. \A b \in Assets : RequestHeld(b)'
  <2>1. RequestHeld(a)'
    BY <1>1, <1>2, <1>3, <1>4, <1>5 DEF FreezesInv, RequestHeld, Turned
  <2>2. \A b \in Assets, n \in DOMAIN ops' : b # a /\ sreq[b].pc = "persist" => ops'[n].tx # sreq[b].tx
    BY <1>3 DEF FreezesInv, RequestHeld
  <2> QED
    BY <1>1, <1>3, <1>4, <2>1, <2>2, FreezesKept
<1>9. Apart'
  <2>1. \A b \in Assets : sreq[b].pc = "persist" => sreq[b].tx \in Nat /\ sreq[b].tx # known + 1
    <3> TAKE b \in Assets
    <3>1. sreq[b].pc = "persist" => sreq[b] \in Completing /\ sreq[b].tx <= known
      BY FreezesKinds DEF FreezesInv, RequestHeld
    <3> QED
      BY <1>1, <3>1 DEF Completing
  <2> QED
    BY <1>2, <1>4, <2>1 DEF FreezesInv, Apart, Turned
<1> QED
  BY <1>6, <1>7, <1>8, <1>9 DEF FreezesInv

LEMMA FreezesPersist == ASSUME FreezesInv, NEW a \in Assets, S!Persist(a) PROVE FreezesInv'
<1> DEFINE n == sreq[a].op
           x == sreq[a].tx
           e == [ops[n] EXCEPT !.state = "submitting", !.tx = x]
           r == [sreq[a] EXCEPT !.pc = "send"]
<1>1. sreq[a] \in Completing /\ sreq[a].pc = "persist"
  BY FreezesKinds DEF S!Persist, FreezesInv
<1>2. /\ n \in DOMAIN ops /\ ops[n].asset = a /\ ops[n].tx = 0
      /\ x \in Nat /\ x # 0 /\ x <= known /\ \A m \in DOMAIN ops : ops[m].tx # x
  BY <1>1 DEF FreezesInv, RequestHeld, Completing
<1>3. ops[n] \in Ops
  BY <1>2 DEF FreezesInv, FreezesTyped
<1>4. e \in Ops /\ e.asset = a /\ e.kind = ops[n].kind /\ e.tx = x /\ e.state = "submitting"
  BY <1>2, <1>3 DEF Ops
<1>5. r \in Completing /\ r.pc = "send" /\ r.op = n /\ r.tx = x
  BY <1>1 DEF Completing
<1>6. UNCHANGED <<chain, known>> /\ sreq' = [sreq EXCEPT ![a] = r]
  BY DEF S!Persist, S!At, S!wallet
<1>7. ops' = [ops EXCEPT ![n] = e]
  <2>1. ops' = [ops EXCEPT ![n].state = "submitting", ![n].tx = x]
    BY DEF S!Persist, S!Persisted
  <2> QED
    BY <1>2, <2>1 DEF FreezesInv, FreezesTyped
<1> HIDE DEF n, x, e, r
<1>8. /\ ops' \in Seq(Ops) /\ DOMAIN ops' = DOMAIN ops /\ ops'[n] = e
      /\ \A m \in DOMAIN ops : m # n => ops'[m] = ops[m]
  BY <1>2, <1>4, <1>7, Edited DEF FreezesInv, FreezesTyped
<1>9. sreq' \in [Assets -> Freezing] /\ Turned(a, r)
  BY <1>5, <1>6, FreezesMoved DEF FreezesInv, Freezing
<1>10. FreezesTyped'
  BY <1>6, <1>8, <1>9 DEF FreezesInv, FreezesTyped
<1>11. TxHeld'
  <2>1. \A m \in DOMAIN ops' : ops'[m].tx <= known'
    BY <1>2, <1>4, <1>6, <1>8 DEF FreezesInv, TxHeld
  <2>2. \A l, m \in DOMAIN ops' : ops'[l].tx # 0 /\ ops'[l].tx = ops'[m].tx => l = m
    BY <1>2, <1>4, <1>8 DEF FreezesInv, TxHeld
  <2>3. \A t \in chain : t.id # 0 /\ \E m \in DOMAIN ops : m # n /\ ops[m].tx = t.id /\ ops[m].kind = t.kind
    BY <1>2 DEF FreezesInv, TxHeld
  <2>4. \A t \in chain' : t.id # 0 /\ \E m \in DOMAIN ops' : ops'[m].tx = t.id /\ ops'[m].kind = t.kind
    BY <1>6, <1>8, <2>3
  <2>5. \A m \in DOMAIN ops' : ops'[m].state = "submitted" => \E t \in chain' : t.id = ops'[m].tx
    BY <1>4, <1>6, <1>8 DEF FreezesInv, TxHeld
  <2> QED
    BY <2>1, <2>2, <2>4, <2>5 DEF TxHeld
<1>12. \A b \in Assets : RequestHeld(b)'
  <2>1. RequestHeld(a)'
    BY <1>2, <1>4, <1>5, <1>8, <1>9 DEF RequestHeld, Turned
  <2>2. \A b \in Assets, m \in DOMAIN ops' : b # a /\ sreq[b].pc = "persist" => ops'[m].tx # sreq[b].tx
    BY <1>1, <1>4, <1>8 DEF FreezesInv, RequestHeld, Apart, x
  <2>3. \A m \in DOMAIN ops : ops'[m].asset = ops[m].asset /\ (ops[m].asset # a => ops'[m].tx = ops[m].tx)
    BY <1>2, <1>4, <1>8
  <2> QED
    BY <1>6, <1>8, <1>9, <2>1, <2>2, <2>3, FreezesKept DEF FreezesInv, FreezesTyped
<1>13. Apart'
  BY <1>5, <1>9 DEF FreezesInv, Apart, Turned
<1> QED
  BY <1>10, <1>11, <1>12, <1>13 DEF FreezesInv

LEMMA FreezesSubmitted == ASSUME FreezesInv, NEW a \in Assets, S!Submitted(a) PROVE FreezesInv'
<1> DEFINE n == sreq[a].op
           e == [ops[n] EXCEPT !.state = "submitted"]
<1>1. sreq[a] \in Completing /\ sreq[a].pc = "note"
  BY FreezesKinds DEF S!Submitted, FreezesInv
<1>2. n \in DOMAIN ops /\ \E t \in chain : t.id = ops[n].tx
  BY <1>1 DEF FreezesInv, RequestHeld
<1>3. ops[n] \in Ops
  BY <1>2 DEF FreezesInv, FreezesTyped
<1>4. e \in Ops /\ e.asset = ops[n].asset /\ e.kind = ops[n].kind /\ e.tx = ops[n].tx
  BY <1>3 DEF Ops
<1>5. UNCHANGED <<chain, known>> /\ sreq' = [sreq EXCEPT ![a] = S!Still] /\ ops' = [ops EXCEPT ![n] = e]
  BY DEF S!Submitted, S!End, S!wallet
<1> HIDE DEF n, e
<1>6. /\ ops' \in Seq(Ops) /\ DOMAIN ops' = DOMAIN ops /\ ops'[n] = e
      /\ \A m \in DOMAIN ops : m # n => ops'[m] = ops[m]
  BY <1>2, <1>4, <1>5, Edited DEF FreezesInv, FreezesTyped
<1>7. sreq' \in [Assets -> Freezing] /\ Turned(a, S!Still) /\ S!Still.pc = "idle"
  BY <1>5, FreezesMoved DEF FreezesInv, Freezing, S!Still
<1>8. \A m \in DOMAIN ops : ops'[m].asset = ops[m].asset /\ ops'[m].kind = ops[m].kind /\ ops'[m].tx = ops[m].tx
  BY <1>4, <1>6
<1>9. FreezesTyped'
  BY <1>5, <1>6, <1>7 DEF FreezesInv, FreezesTyped
<1>10. TxHeld'
  <2>1. \A m \in DOMAIN ops' : ops'[m].tx <= known'
    BY <1>5, <1>6, <1>8 DEF FreezesInv, TxHeld
  <2>2. \A l, m \in DOMAIN ops' : ops'[l].tx # 0 /\ ops'[l].tx = ops'[m].tx => l = m
    BY <1>6, <1>8 DEF FreezesInv, TxHeld
  <2>3. \A t \in chain' : t.id # 0 /\ \E m \in DOMAIN ops' : ops'[m].tx = t.id /\ ops'[m].kind = t.kind
    BY <1>5, <1>6, <1>8 DEF FreezesInv, TxHeld
  <2>4. \A m \in DOMAIN ops' : ops'[m].state = "submitted" => \E t \in chain' : t.id = ops'[m].tx
    BY <1>2, <1>5, <1>6, <1>8 DEF FreezesInv, TxHeld
  <2> QED
    BY <2>1, <2>2, <2>3, <2>4 DEF TxHeld
<1>11. \A b \in Assets : RequestHeld(b)'
  <2>1. RequestHeld(a)'
    BY <1>7 DEF RequestHeld, Turned
  <2>2. \A b \in Assets, m \in DOMAIN ops' : b # a /\ sreq[b].pc = "persist" => ops'[m].tx # sreq[b].tx
    BY <1>6, <1>8 DEF FreezesInv, RequestHeld
  <2> QED
    BY <1>5, <1>6, <1>7, <1>8, <2>1, <2>2, FreezesKept DEF FreezesInv, FreezesTyped
<1>12. Apart'
  BY <1>7 DEF FreezesInv, Apart, Turned
<1> QED
  BY <1>9, <1>10, <1>11, <1>12 DEF FreezesInv

\* A transaction is taken, whether the request learns of it or not.
LEMMA FreezesTaken ==
    ASSUME FreezesInv, NEW a \in Assets, sreq[a].pc = "send", S!At(a, "note") \/ S!End(a),
           S!Into(S!Tx(a)) \/ (S!Tx(a) \in chain /\ UNCHANGED chain), UNCHANGED <<ops, known>>
    PROVE  FreezesInv'
<1> DEFINE n == sreq[a].op
           t == S!Tx(a)
           r == [sreq[a] EXCEPT !.pc = "note"]
<1>1. sreq[a] \in Completing
  BY FreezesKinds DEF FreezesInv
<1>2. n \in DOMAIN ops /\ ops[n].asset = a /\ sreq[a].tx # 0 /\ ops[n].tx = sreq[a].tx
  BY DEF FreezesInv, RequestHeld
<1>3. t.id = sreq[a].tx /\ t.kind = ops[n].kind
  BY DEF S!Tx
<1>4. r \in Completing /\ r.pc = "note" /\ r.op = n /\ r.tx = sreq[a].tx
  BY <1>1 DEF Completing
<1>5. chain' = chain \cup {t}
  BY DEF S!Into
<1>6. sreq' = [sreq EXCEPT ![a] = r] \/ sreq' = [sreq EXCEPT ![a] = S!Still]
  BY DEF S!At, S!End
<1> HIDE DEF n, t, r
<1>7. PICK q \in {r, S!Still} : sreq' \in [Assets -> Freezing] /\ Turned(a, q)
  BY <1>4, <1>6, FreezesMoved DEF FreezesInv, Freezing
<1>8. FreezesTyped'
  BY <1>7 DEF FreezesInv, FreezesTyped
<1>9. TxHeld'
  <2>1. \A m \in DOMAIN ops' : ops'[m].tx <= known'
    BY DEF FreezesInv, TxHeld
  <2>2. \A l, m \in DOMAIN ops' : ops'[l].tx # 0 /\ ops'[l].tx = ops'[m].tx => l = m
    BY DEF FreezesInv, TxHeld
  <2>3. \A u \in chain' : u.id # 0 /\ \E m \in DOMAIN ops' : ops'[m].tx = u.id /\ ops'[m].kind = u.kind
    BY <1>2, <1>3, <1>5 DEF FreezesInv, TxHeld
  <2>4. \A m \in DOMAIN ops' : ops'[m].state = "submitted" => \E u \in chain' : u.id = ops'[m].tx
    BY <1>5 DEF FreezesInv, TxHeld
  <2> QED
    BY <2>1, <2>2, <2>3, <2>4 DEF TxHeld
<1>10. \A b \in Assets : RequestHeld(b)'
  <2>1. RequestHeld(a)'
    <3>1. CASE q = r
      BY <1>2, <1>3, <1>4, <1>5, <1>7, <3>1 DEF RequestHeld, Turned
    <3>2. CASE q = S!Still
      BY <1>7, <3>2 DEF RequestHeld, Turned, S!Still
    <3> QED
      BY <3>1, <3>2
  <2>2. \A b \in Assets, m \in DOMAIN ops' : b # a /\ sreq[b].pc = "persist" => ops'[m].tx # sreq[b].tx
    BY DEF FreezesInv, RequestHeld
  <2> QED
    BY <1>5, <1>7, <2>1, <2>2, FreezesKept DEF FreezesInv, FreezesTyped
<1>11. Apart'
  <2>1. sreq'[a].pc # "persist"
    BY <1>4, <1>7 DEF Turned, S!Still
  <2> QED
    BY <1>7, <2>1 DEF FreezesInv, Apart, Turned
<1> QED
  BY <1>8, <1>9, <1>10, <1>11 DEF FreezesInv

LEMMA FreezesAsk ==
    ASSUME FreezesInv, NEW a \in Assets, NEW r \in Funding \cup Composing, sreq' = [sreq EXCEPT ![a] = r],
           UNCHANGED <<ops, chain, known>>
    PROVE  FreezesInv'
<1>1. r \in Freezing /\ r.pc \in {"fund", "message"}
  BY DEF Freezing, Funding, Composing
<1>2. RequestHeld(a)'
  BY <1>1, FreezesMoved DEF FreezesInv, RequestHeld, Turned
<1> QED
  BY <1>1, <1>2, FreezesTurn

LEMMA FreezesNext == ASSUME FreezesInv, S!Next PROVE FreezesInv'
<1>1. ASSUME NEW a \in Assets, S!Step(a) PROVE FreezesInv'
  <2>1. CASE S!LockFund(a)
    <3>1. sreq[a] \in Funding
      BY <2>1, FreezesKinds DEF S!LockFund, FreezesInv
    <3>2. PICK c \in Funds :
             /\ sreq' = [sreq EXCEPT ![a] = [pc |-> "message", fund |-> c, kind |-> sreq[a].kind, target |-> sreq[a].target,
                                             order |-> sreq[a].order, ref |-> sreq[a].ref]]
             /\ UNCHANGED <<ops, chain, known>>
      BY <2>1 DEF S!LockFund, FreezesInv, FreezesTyped
    <3>3. [pc |-> "message", fund |-> c, kind |-> sreq[a].kind, target |-> sreq[a].target,
           order |-> sreq[a].order, ref |-> sreq[a].ref] \in Composing
      BY <3>1 DEF Funding, Composing
    <3> QED
      BY <3>2, <3>3, FreezesAsk
  <2>2. CASE S!NoFund(a) \/ S!BuildFails(a) \/ S!SendRefused(a)
    BY <2>2, FreezesEnd DEF S!NoFund, S!BuildFails, S!SendRefused, S!wallet
  <2>3. CASE S!Send(a)
    BY <2>3, FreezesTaken DEF S!Send, S!wallet
  <2>4. CASE S!SendUnanswered(a)
    BY <2>4, FreezesTaken, FreezesEnd DEF S!SendUnanswered, S!wallet
  <2> QED
    BY <1>1, <2>1, <2>2, <2>3, <2>4, FreezesBuild, FreezesAssemble, FreezesPersist, FreezesSubmitted DEF S!Step
<1>2. ASSUME NEW a \in Assets, NEW n \in DOMAIN ops, S!Complete(a, n) PROVE FreezesInv'
  <2> DEFINE r == [pc |-> IF ops[n].tx = 0 THEN "assemble" ELSE "send", op |-> n, tx |-> ops[n].tx]
  <2>1. sreq' = [sreq EXCEPT ![a] = r] /\ ops[n].asset = a /\ UNCHANGED <<ops, chain, known>>
    BY <1>2 DEF S!Complete, S!wallet
  <2>2. ops[n] \in Ops /\ n \in Nat
    BY DEF FreezesInv, FreezesTyped
  <2>3. r \in Completing /\ r.op = n /\ r.tx = ops[n].tx /\ r.pc = (IF ops[n].tx = 0 THEN "assemble" ELSE "send")
    BY <2>2 DEF Completing, Ops
  <2> HIDE DEF r
  <2>4. RequestHeld(a)'
    BY <2>1, <2>3, FreezesMoved DEF FreezesInv, Freezing, RequestHeld, Turned
  <2> QED
    BY <2>1, <2>3, <2>4, FreezesTurn DEF Freezing
<1>3. ASSUME NEW a \in Assets, NEW o \in Orders, NEW t \in Targets, S!AskFreeze(a, t, o) PROVE FreezesInv'
  <2>1. [pc |-> "fund", kind |-> "freeze", target |-> t, order |-> o, ref |-> 0] \in Funding
    BY DEF Funding, Kinds
  <2> QED
    BY <1>3, <2>1, FreezesAsk DEF S!AskFreeze, S!wallet
<1>4. ASSUME NEW a \in Assets, NEW o \in Orders, NEW n \in DOMAIN ops, S!AskUnfreeze(a, n, o) PROVE FreezesInv'
  <2>1. ops[n] \in Ops /\ n \in Nat
    BY DEF FreezesInv, FreezesTyped
  <2>2. [pc |-> "fund", kind |-> "unfreeze", target |-> ops[n].target, order |-> o, ref |-> n] \in Funding
    BY <2>1 DEF Funding, Kinds, Ops
  <2> QED
    BY <1>4, <2>2, FreezesAsk DEF S!AskUnfreeze, S!wallet
<1>5. CASE S!NodeRestart
  BY <1>5 DEF S!NodeRestart, FreezesInv, FreezesTyped, TxHeld, RequestHeld, Apart
<1>6. CASE S!Crash
  <2>1. (\A a \in Assets : sreq'[a] = S!Still) /\ sreq' \in [Assets -> Freezing] /\ UNCHANGED <<ops, chain, known>>
    BY <1>6 DEF S!Crash, S!wallet, Freezing
  <2>2. FreezesTyped' /\ TxHeld'
    BY <2>1 DEF FreezesInv, FreezesTyped, TxHeld
  <2>3. Apart' /\ \A a \in Assets : RequestHeld(a)'
    BY <2>1 DEF Apart, RequestHeld, S!Still
  <2> QED
    BY <2>2, <2>3 DEF FreezesInv
<1> QED
  BY <1>1, <1>2, <1>3, <1>4, <1>5, <1>6 DEF S!Next

LEMMA CardinalityOfOne == ASSUME NEW x PROVE S!Cardinality({x}) = 1
<1>1. S!Cardinality({x}) = Cardinality({x})
  BY DEF S!Cardinality, Cardinality
<1> QED
  BY <1>1, FS_Singleton

LEMMA OneOperation == FreezesInv => Liftable
<1> SUFFICES ASSUME FreezesInv PROVE Liftable
  OBVIOUS
<1>1. ASSUME NEW t \in S!Live PROVE S!Cardinality({n \in DOMAIN ops : ops[n].kind = "freeze" /\ ops[n].tx = t.id}) = 1
  <2>1. t \in chain /\ t.kind = "freeze"
    BY DEF S!Live
  <2>2. PICK m \in DOMAIN ops : t.id # 0 /\ ops[m].tx = t.id /\ ops[m].kind = "freeze"
    BY <2>1 DEF FreezesInv, TxHeld
  <2>3. {n \in DOMAIN ops : ops[n].kind = "freeze" /\ ops[n].tx = t.id} = {m}
    BY <2>2 DEF FreezesInv, TxHeld
  <2> QED
    BY <2>3, CardinalityOfOne
<1>2. \A n \in DOMAIN ops : ops[n].state = "submitted" => \E t \in chain : t.id = ops[n].tx
  BY DEF FreezesInv, TxHeld
<1> QED
  BY <1>1, <1>2 DEF Liftable, S!Liftable

\* "Persist BEFORE broadcast: the raw tx and its txid are the resume state" (supervision.go): every freeze
\* in force is the transaction of exactly one operation, and an operation said to be submitted had its own
\* transaction taken, for any assets, coins, orders and requests, wherever they are interrupted.
THEOREM EveryFreezeCanBeLifted == Spec => []Liftable
<1>1. FreezesInv /\ [Next]_vars => FreezesInv'
  <2>1. ASSUME FreezesInv, UNCHANGED freezes PROVE FreezesInv'
    BY <2>1 DEF freezes, FreezesInv, FreezesTyped, TxHeld, RequestHeld, Apart
  <2> QED
    BY <2>1, FreezesNext DEF Next, vars
<1> QED
  BY FreezesStart, <1>1, OneOperation, PTL DEF Spec

-----------------------------------------------------------------------------
(* Reclaim: what was swept is delivered once.                               *)

\* The newest of some rows is one of them.
LEMMA NewestThere ==
    ASSUME NEW s, NEW T \in SUBSET DOMAIN s, NEW E, s \in Seq(E), T # {}
    PROVE  C!Newest(T) \in T
<1> DEFINE N == Len(s)
           D == {N - n : n \in T}
           less == {ss \in Nat \X Nat : ss[1] < ss[2]}
<1>1. N \in Nat /\ T \subseteq 1..N
  OBVIOUS
<1> HIDE DEF N
<1>2. D \subseteq Nat /\ D # {}
  BY <1>1
<1>3. IsWellFoundedOn(less, Nat)
  BY NatLessThanWellFounded, Zenon DEF OpToRel
<1>4. PICK d \in D : \A e \in D : ~(<<e, d>> \in less)
  BY <1>2, <1>3, WFMin, Zenon
<1>5. PICK n \in T : d = N - n
  OBVIOUS
<1>6. \A m \in T : m <= n
  <2> TAKE m \in T
  <2>1. ~(N - m < d)
    BY <1>1, <1>2, <1>4
  <2> QED
    BY <1>1, <1>5, <2>1
<1> QED
  BY <1>6 DEF C!Newest

\* With one account to sweep, what a new account received is what it received from that one.
LEMMA HoldsOne ==
    ASSUME NEW o, Olds = {o}, NEW n \in News, arrived \in [C!Pairs -> Nat]
    PROVE  C!Holds(n) = arrived[<<o, n>>]
<1> DEFINE k == arrived[<<o, n>>]
           pick(s) == CHOOSE x \in s : TRUE
           Folds(g) == g = [s \in SUBSET {o} |-> IF s = {} THEN 0 ELSE g[s \ {pick(s)}] + arrived[<<pick(s), n>>]]
           iter == CHOOSE g : Folds(g)
           f == [s \in SUBSET {o} |-> IF s = {} THEN 0 ELSE k]
<1>1. C!Holds(n) = iter[{o}]
  BY DEF C!Holds, C!FoldSet, C!MapThenFoldSet
<1>2. k \in Nat
  BY DEF C!Pairs
<1>3. \A s \in SUBSET {o} : s = {} \/ s = {o}
  OBVIOUS
<1>4. pick({o}) = o /\ {o} \ {o} = {}
  OBVIOUS
<1> HIDE DEF k, pick
<1>5. Folds(f)
  <2> DEFINE g == [s \in SUBSET {o} |-> IF s = {} THEN 0 ELSE f[s \ {pick(s)}] + arrived[<<pick(s), n>>]]
  <2>1. ASSUME NEW s \in SUBSET {o} PROVE f[s] = g[s]
    <3>1. CASE s = {}
      BY <3>1
    <3>2. CASE s = {o}
      <4>1. f[{o}] = k /\ f[{}] = 0 /\ {o} \in SUBSET {o} /\ {o} # {}
        OBVIOUS
      <4>2. g[{o}] = f[{o} \ {pick({o})}] + arrived[<<pick({o}), n>>]
        BY <4>1
      <4>3. g[{o}] = 0 + k
        <5> HIDE DEF f, g
        <5> QED
          BY <1>4, <4>1, <4>2 DEF k
      <4> HIDE DEF f, g
      <4>4. k = 0 + k
        BY <1>2
      <4> QED
        BY <3>2, <4>1, <4>3, <4>4
    <3> QED
      BY <1>3, <3>1, <3>2
  <2> QED
    BY <2>1
<1>6. Folds(iter)
  <2> HIDE DEF Folds, f
  <2>1. \E g : Folds(g)
    BY <1>5
  <2> QED
    BY <2>1
<1>7. iter[{}] = 0 /\ iter[{o}] = iter[{}] + arrived[<<o, n>>]
  BY <1>4, <1>6
<1> QED
  BY <1>1, <1>2, <1>7 DEF k

Rows  == [holder : Olds \cup {"none"}, reason : Reasons \cup {"none"},
          state : {"none", "sweeping", "awaiting_signature", "swept", "failed", "empty"}, atoms : Nat, build : Nat]
Made  == [holder : Olds, reason : Reasons \cup {"none"}, atoms : Nat, done : BOOLEAN]
Books == [state : {"created", "awaiting_clawback_sig", "clawed", "redelivered", "complete"},
          swept : Nat, claw : Nat, before : Nat]
Nobody == <<"none", "none">>
Runs  == [pc : {"idle", "claw", "built", "seal", "sealing", "sealed", "posting", "before", "noting", "sign",
                "deliver", "transfer", "delivered", "account"},
          pair : C!Pairs \cup {Nobody}, holder : Olds \cup {"none"}, reason : Reasons \cup {"none"},
          n : Nat, copy : Rows, before : {0}]

ReclaimTyped ==
    /\ bal \in [Olds -> Nat] /\ builds \in Seq(Made) /\ claws \in Seq(Rows)
    /\ rds \in [C!Pairs -> {C!None} \cup Books]
    /\ sent \in [C!Pairs -> Nat] /\ arrived \in [C!Pairs -> Nat]
    /\ oproc \in [Operators -> Runs]

\* A runbook of a pair has it for itself, and stands where the pair's row says; what it signs is a sweep's row.
Filed == {"noting", "seal", "sealing", "sealed", "posting"}
RunHeld(p) ==
    /\ oproc[p].pc \in {"claw", "posting", "before"} => oproc[p].holder \in Olds
    /\ oproc[p].pc = "built" => builds # <<>>
    /\ oproc[p].pc \in Filed => oproc[p].n \in DOMAIN claws
    /\ oproc[p].pc \in {"before", "noting", "sign", "deliver", "transfer", "delivered", "account"} => oproc[p].pair \in C!Pairs
    /\ oproc[p].pair \in C!Pairs =>
         LET r == oproc[p].pair IN
         /\ oproc[p].pc # "idle" /\ rds[r] # C!None
         /\ CASE oproc[p].pc \in {"deliver", "transfer", "delivered"} -> rds[r].state = "clawed"
              [] oproc[p].pc = "account" -> rds[r].state = "redelivered"
              [] OTHER -> rds[r].state \in {"created", "awaiting_clawback_sig"}
         /\ oproc[p].pc = "sign" => rds[r].state = "awaiting_clawback_sig"
         /\ oproc[p].pc = "transfer" => sent[r] = 0
         /\ oproc[p].pc = "delivered" => sent[r] = rds[r].swept
RunsAlone == \A p, q \in Operators : oproc[p].pair \in C!Pairs /\ oproc[p].pair = oproc[q].pair => p = q

\* What was sent under a row is nothing or what was swept: nothing before the sweep, all of it at the end.
RowHeld(r) ==
    /\ arrived[r] <= sent[r]
    /\ rds[r] = C!None => sent[r] = 0
    /\ rds[r] # C!None =>
         /\ rds[r].before = 0 /\ sent[r] \in {0, rds[r].swept}
         /\ rds[r].state \in {"created", "awaiting_clawback_sig"} => sent[r] = 0
         /\ rds[r].state = "awaiting_clawback_sig" => rds[r].claw \in DOMAIN claws
         /\ rds[r].state \in {"redelivered", "complete"} => sent[r] = rds[r].swept

ReclaimInv == ReclaimTyped /\ RunsAlone /\ (\A p \in Operators : RunHeld(p)) /\ \A r \in C!Pairs : RowHeld(r)

LEMMA NobodyIsNoPair == Nobody \notin C!Pairs
  BY PartsAssumption DEF C!ReclaimAssumption, C!Pairs, Nobody

LEMMA AwayIsARun == C!Away \in Runs /\ C!Away.pair = Nobody /\ C!Away.pc = "idle" /\ C!Away.holder = "none"
  BY DEF C!Away, C!NoRow, Runs, Rows, Nobody

LEMMA ReclaimStart == Init => ReclaimInv
<1> SUFFICES ASSUME Init PROVE ReclaimInv
  OBVIOUS
<1>1. /\ bal \in [Olds -> {0, 1}] /\ builds = <<>> /\ claws = <<>>
      /\ rds = [r \in C!Pairs |-> C!None] /\ sent = [r \in C!Pairs |-> 0] /\ arrived = [r \in C!Pairs |-> 0]
      /\ oproc = [p \in Operators |-> C!Away]
  BY DEF Init, C!Init
<1>2. ReclaimTyped
  BY <1>1, AwayIsARun DEF ReclaimTyped
<1>3. RunsAlone /\ \A p \in Operators : RunHeld(p)
  BY <1>1, AwayIsARun, NobodyIsNoPair DEF RunsAlone, RunHeld, Filed
<1>4. \A r \in C!Pairs : RowHeld(r)
  BY <1>1 DEF RowHeld
<1> QED
  BY <1>2, <1>3, <1>4 DEF ReclaimInv

\* What one request does leaves the others what they hold, when it works on a pair of its own.
LEMMA RunsKept ==
    ASSUME ReclaimInv, NEW p \in Operators, NEW y \in Runs, oproc' = [oproc EXCEPT ![p] = y],
           y.pair = oproc[p].pair \/ y.pair = Nobody \/ \A q \in Operators : oproc[q].pair # y.pair,
           builds # <<>> => builds' # <<>>, DOMAIN claws \subseteq DOMAIN claws',
           \A r \in C!Pairs : r # y.pair /\ r # oproc[p].pair => rds'[r] = rds[r] /\ sent'[r] = sent[r],
           RunHeld(p)'
    PROVE  oproc' \in [Operators -> Runs] /\ RunsAlone' /\ \A q \in Operators : RunHeld(q)'
<1>1. oproc \in [Operators -> Runs]
  BY DEF ReclaimInv, ReclaimTyped
<1>2. oproc' \in [Operators -> Runs] /\ oproc'[p] = y /\ \A q \in Operators : q # p => oproc'[q] = oproc[q]
  BY <1>1
<1>3. \A q \in Operators : q # p /\ oproc[q].pair \in C!Pairs => oproc[q].pair # y.pair /\ oproc[q].pair # oproc[p].pair
  BY NobodyIsNoPair DEF ReclaimInv, RunsAlone
<1>4. RunsAlone'
  BY <1>2, <1>3 DEF ReclaimInv, RunsAlone
<1>5. ASSUME NEW q \in Operators, q # p PROVE RunHeld(q)'
  BY <1>2, <1>3, <1>5 DEF ReclaimInv, RunHeld
<1> QED
  BY <1>2, <1>4, <1>5

LEMMA RunTyped ==
    ASSUME ReclaimInv, NEW p \in Operators
    PROVE  /\ oproc[p] \in Runs /\ RunHeld(p)
           /\ \A n \in DOMAIN claws : claws[n] \in Rows /\ n \in Nat
           /\ \A b \in DOMAIN builds : builds[b] \in Made
  BY DEF ReclaimInv, ReclaimTyped

\* A step of a sweep: it moves no re-delivery.
Ahead == {"claw", "built", "seal", "sealing", "sealed", "posting", "before", "noting", "sign"}
Kept == /\ UNCHANGED <<rds, sent, arrived>>
        /\ bal' \in [Olds -> Nat] /\ builds' \in Seq(Made) /\ (builds # <<>> => builds' # <<>>)
        /\ claws' \in Seq(Rows) /\ DOMAIN claws \subseteq DOMAIN claws'

LEMMA SweepKept ==
    ASSUME ReclaimInv, NEW p \in Operators, NEW y \in Runs, oproc' = [oproc EXCEPT ![p] = y], Kept,
           \/ y.pair = Nobody /\ y.pc \in Ahead \cup {"idle"}
           \/ y.pair = oproc[p].pair /\ y.pc \in Ahead /\ oproc[p].pc \in Ahead,
           y.pc \in {"claw", "posting", "before"} => y.holder \in Olds,
           y.pc = "built" => builds' # <<>>, y.pc \in Filed => y.n \in DOMAIN claws', y.pc # "sign",
           y.pc \in {"before", "noting"} => y.pair \in C!Pairs
    PROVE  ReclaimInv'
<1>1. oproc'[p] = y
  BY DEF ReclaimInv, ReclaimTyped
<1>2. RunHeld(p)'
  <2>1. CASE y.pair = Nobody /\ y.pc \in Ahead \cup {"idle"}
    BY <1>1, <2>1, NobodyIsNoPair DEF RunHeld, Ahead
  <2>2. CASE y.pair = oproc[p].pair /\ y.pc \in Ahead /\ oproc[p].pc \in Ahead
    <3>1. UNCHANGED <<rds, sent>>
      BY DEF Kept
    <3>2. y.pc \notin {"deliver", "transfer", "delivered", "account", "idle"}
      BY <2>2 DEF Ahead
    <3>3. y.pair \in C!Pairs => rds[y.pair] # C!None /\ rds[y.pair].state \in {"created", "awaiting_clawback_sig"}
      BY <2>2 DEF ReclaimInv, RunHeld, Ahead
    <3> QED
      BY <1>1, <3>1, <3>2, <3>3 DEF RunHeld
  <2> QED
    BY <2>1, <2>2
<1>3. oproc' \in [Operators -> Runs] /\ RunsAlone' /\ \A q \in Operators : RunHeld(q)'
  <2>1. y.pair = oproc[p].pair \/ y.pair = Nobody
    OBVIOUS
  <2>2. \A r \in C!Pairs : rds'[r] = rds[r] /\ sent'[r] = sent[r]
    BY DEF Kept
  <2> QED
    BY <1>2, <2>1, <2>2, RunsKept DEF Kept
<1>4. ReclaimTyped'
  BY <1>3 DEF ReclaimInv, ReclaimTyped, Kept
<1>5. \A r \in C!Pairs : RowHeld(r)'
  BY DEF ReclaimInv, RowHeld, Kept
<1> QED
  BY <1>3, <1>4, <1>5 DEF ReclaimInv

LEMMA SweepEnds ==
    ASSUME ReclaimInv, NEW p \in Operators, C!End(p), Kept
    PROVE  ReclaimInv'
  BY SweepKept, AwayIsARun DEF C!End, Filed

LEMMA SweepGoes ==
    ASSUME ReclaimInv, NEW p \in Operators, NEW pc \in {"built", "sealing", "sealed"}, C!To(p, pc), Kept,
           oproc[p].pc \in Ahead, pc = "built" => builds' # <<>>, pc # "built" => oproc[p].pc \in Filed
    PROVE  ReclaimInv'
<1> DEFINE y == [oproc[p] EXCEPT !.pc = pc]
<1>1. oproc[p] \in Runs
  BY DEF ReclaimInv, ReclaimTyped
<1>2. y \in Runs /\ y.pc = pc /\ y.pair = oproc[p].pair /\ y.n = oproc[p].n
  BY <1>1 DEF Runs
<1>3. oproc' = [oproc EXCEPT ![p] = y]
  BY DEF C!To
<1> HIDE DEF y
<1>4. pc \in Filed => y.n \in DOMAIN claws'
  BY <1>2, RunTyped DEF RunHeld, Kept, Filed
<1> QED
  BY <1>2, <1>3, <1>4, SweepKept DEF Ahead

LEMMA SweepReturns ==
    ASSUME ReclaimInv, NEW p \in Operators, NEW n \in Nat, NEW row \in Rows, C!Return(p, n, row), Kept,
           oproc[p].pc \in Ahead, n \in DOMAIN claws'
    PROVE  ReclaimInv'
<1> DEFINE y == [oproc[p] EXCEPT !.pc = "noting", !.n = n, !.copy = row]
<1>1. oproc[p] \in Runs
  BY DEF ReclaimInv, ReclaimTyped
<1>2. y \in Runs /\ y.pc = "noting" /\ y.pair = oproc[p].pair /\ y.n = n
  BY <1>1 DEF Runs
<1>3. oproc' = [oproc EXCEPT ![p] = IF C!Runs(p) THEN y ELSE C!Away]
  BY DEF C!Return
<1> HIDE DEF y
<1>4. CASE C!Runs(p)
  BY <1>2, <1>3, <1>4, SweepKept DEF Ahead, C!Runs
<1>5. CASE ~C!Runs(p)
  BY <1>3, <1>5, SweepEnds DEF C!End
<1> QED
  BY <1>4, <1>5

LEMMA EditedAny ==
    ASSUME NEW T, NEW s \in Seq(T), NEW n, NEW e \in T
    PROVE  LET t == [s EXCEPT ![n] = e] IN t \in Seq(T) /\ (s # <<>> => t # <<>>) /\ DOMAIN t = DOMAIN s
<1> DEFINE t == [s EXCEPT ![n] = e]
<1>1. t = [i \in 1..Len(s) |-> IF i = n THEN e ELSE s[i]] /\ Len(s) \in Nat
  OBVIOUS
<1>2. \A i \in 1..Len(s) : (IF i = n THEN e ELSE s[i]) \in T
  OBVIOUS
<1>3. t \in Seq(T)
  <2>1. t \in [1..Len(s) -> T]
    BY <1>1, <1>2
  <2> HIDE DEF t
  <2> QED
    BY <1>1, <2>1
<1>4. s # <<>> => Len(s) # 0
  OBVIOUS
<1>5. t = <<>> => DOMAIN t = {}
  OBVIOUS
<1>6. s # <<>> => t # <<>>
  BY <1>1, <1>4, <1>5
<1> QED
  BY <1>3, <1>6

LEMMA ClawConsole ==
    ASSUME ReclaimInv, NEW p \in Operators, NEW o \in Olds, NEW why \in Reasons, C!Console(p, o, why) PROVE ReclaimInv'
<1> DEFINE y == [C!Away EXCEPT !.pc = "claw", !.holder = o, !.reason = why]
<1>1. y \in Runs /\ y.pair = Nobody /\ y.pc = "claw" /\ y.holder = o
  BY AwayIsARun DEF Runs
<1>2. oproc' = [oproc EXCEPT ![p] = y] /\ Kept
  BY DEF C!Console, C!server, Kept, ReclaimInv, ReclaimTyped
<1> HIDE DEF y
<1> QED
  BY <1>1, <1>2, SweepKept DEF Ahead, Filed

LEMMA ClawConsoleComplete ==
    ASSUME ReclaimInv, NEW p \in Operators, NEW n \in DOMAIN claws, C!ConsoleComplete(p, n) PROVE ReclaimInv'
<1> DEFINE c == claws[n]
           y == [C!Away EXCEPT !.pc = "seal", !.holder = c.holder, !.n = n, !.copy = c]
<1>1. c \in Rows /\ n \in Nat /\ c.holder \in Olds \cup {"none"}
  BY RunTyped DEF Rows
<1>2. oproc' = [oproc EXCEPT ![p] = y] /\ Kept
  BY DEF C!ConsoleComplete, C!server, Kept, ReclaimInv, ReclaimTyped
<1> HIDE DEF c
<1>3. y \in Runs /\ y.pair = Nobody /\ y.pc = "seal" /\ y.n = n
  BY <1>1, AwayIsARun DEF Runs
<1> HIDE DEF y
<1>4. y.n \in DOMAIN claws'
  BY <1>2, <1>3 DEF Kept
<1> QED
  BY <1>2, <1>3, <1>4, SweepKept DEF Ahead

LEMMA ClawFound == ASSUME ReclaimInv, NEW p \in Operators, C!Found(p) PROVE ReclaimInv'
<1> DEFINE T == C!RowsOf(oproc[p].holder, "sweeping")
           n == C!Newest(T)
           b == C!Newest(C!InLog(p))
           row == [claws[n] EXCEPT !.state = "swept", !.atoms = builds[b].atoms]
<1>1. n \in DOMAIN claws
  <2>1. T \in SUBSET DOMAIN claws /\ T # {}
    BY DEF C!Found, C!Inflight, C!RowsOf
  <2> HIDE DEF T
  <2> QED
    BY <2>1, NewestThere DEF ReclaimInv, ReclaimTyped
<1>2. b \in DOMAIN builds
  <2>1. C!InLog(p) \in SUBSET DOMAIN builds /\ C!InLog(p) # {}
    BY DEF C!Found, C!InLog
  <2> QED
    BY <2>1, NewestThere DEF ReclaimInv, ReclaimTyped
<1>3. claws' = [claws EXCEPT ![n] = row] /\ C!Return(p, n, row) /\ UNCHANGED <<bal, builds, rds, sent, arrived>>
  BY DEF C!Found, C!server
<1>4. oproc[p].pc \in Ahead
  BY DEF C!Found, Ahead
<1> HIDE DEF n, b
<1>5. row \in Rows /\ n \in Nat
  <2>1. claws[n] \in Rows /\ n \in Nat
    BY <1>1, RunTyped
  <2>2. builds[b].atoms \in Nat
    BY <1>2, RunTyped DEF Made
  <2> QED
    BY <2>1, <2>2 DEF Rows
<1> HIDE DEF row
<1>6. Kept
  BY <1>3, <1>5, EditedAny DEF Kept, ReclaimInv, ReclaimTyped
<1>7. n \in DOMAIN claws'
  BY <1>1, <1>6 DEF Kept
<1> QED
  BY <1>3, <1>4, <1>5, <1>6, <1>7, SweepReturns

\* A row joins the sweeps and the request goes on with it.
LEMMA ClawInserts ==
    ASSUME ReclaimInv, NEW p \in Operators, NEW st \in {"awaiting_signature", "empty"}, NEW atoms \in Nat, NEW build \in Nat,
           C!Insert(p, C!Row(p, st, atoms, build)), UNCHANGED <<bal, builds, rds, sent, arrived>>, oproc[p].pc \in Ahead
    PROVE  ReclaimInv'
<1> DEFINE row == C!Row(p, st, atoms, build)
<1>1. row \in Rows
  BY RunTyped DEF C!Row, Runs, Rows
<1>2. claws' = Append(claws, row) /\ C!Return(p, Len(claws) + 1, row)
  BY DEF C!Insert
<1> HIDE DEF row
<1>3. Kept /\ Len(claws) + 1 \in Nat /\ Len(claws) + 1 \in DOMAIN claws'
  BY <1>1, <1>2 DEF Kept, ReclaimInv, ReclaimTyped
<1> QED
  BY <1>1, <1>2, <1>3, SweepReturns

LEMMA ClawNothing == ASSUME ReclaimInv, NEW p \in Operators, C!Nothing(p) PROVE ReclaimInv'
<1> DEFINE T == C!RowsOf(oproc[p].holder, "swept")
<1>1. oproc[p].pc \in Ahead /\ UNCHANGED <<bal, builds, rds, sent, arrived>>
  BY DEF C!Nothing, C!server, Ahead
<1>2. CASE T = {}
  BY <1>1, <1>2, ClawInserts DEF C!Nothing
<1>3. CASE T # {}
  <2> DEFINE n == C!Newest(T)
  <2>1. T \in SUBSET DOMAIN claws
    BY DEF C!RowsOf
  <2>2. C!Return(p, n, claws[n]) /\ UNCHANGED claws
    BY <1>3 DEF C!Nothing
  <2> HIDE DEF T
  <2>3. n \in DOMAIN claws
    BY <1>3, <2>1, NewestThere DEF ReclaimInv, ReclaimTyped
  <2> HIDE DEF n
  <2>4. Kept /\ claws[n] \in Rows /\ n \in Nat
    BY <1>1, <2>2, <2>3, RunTyped DEF Kept, ReclaimInv, ReclaimTyped
  <2>5. n \in DOMAIN claws'
    BY <2>3, <2>4 DEF Kept
  <2> QED
    BY <1>1, <2>2, <2>4, <2>5, SweepReturns
<1> QED
  BY <1>2, <1>3

LEMMA ClawResume == ASSUME ReclaimInv, NEW p \in Operators, C!Resume(p) PROVE ReclaimInv'
<1> DEFINE T == C!RowsOf(oproc[p].holder, "awaiting_signature")
           n == C!Newest(T)
<1>1. T \in SUBSET DOMAIN claws /\ T # {}
  BY DEF C!Resume, C!RowsOf
<1>2. C!Return(p, n, claws[n]) /\ UNCHANGED <<bal, builds, claws, rds, sent, arrived>> /\ oproc[p].pc \in Ahead
  BY DEF C!Resume, C!server, Ahead
<1> HIDE DEF T
<1>3. n \in DOMAIN claws
  BY <1>1, NewestThere DEF ReclaimInv, ReclaimTyped
<1> HIDE DEF n
<1>4. Kept /\ claws[n] \in Rows /\ n \in Nat
  BY <1>2, <1>3, RunTyped DEF Kept, ReclaimInv, ReclaimTyped
<1>5. n \in DOMAIN claws'
  BY <1>3, <1>4 DEF Kept
<1> QED
  BY <1>2, <1>4, <1>5, SweepReturns

LEMMA SweepIsMade ==
    ASSUME ReclaimInv, NEW p \in Operators, NEW done \in BOOLEAN, oproc[p].pc \in {"claw", "posting"}
    PROVE  C!Built(p, done) \in Made
  BY RunTyped DEF C!Built, RunHeld, Made, Runs, ReclaimInv, ReclaimTyped

LEMMA ClawBuild == ASSUME ReclaimInv, NEW p \in Operators, C!Build(p) PROVE ReclaimInv'
<1>1. oproc[p].pc \in Ahead /\ C!Built(p, FALSE) \in Made
  BY SweepIsMade DEF C!Build, Ahead
<1>2. builds' \in Seq(Made) /\ builds' # <<>>
  <2> DEFINE e == C!Built(p, FALSE)
  <2>1. builds' = Append(builds, e) /\ e \in Made /\ builds \in Seq(Made)
    BY <1>1 DEF C!Build, ReclaimInv, ReclaimTyped
  <2> HIDE DEF e
  <2> QED
    BY <2>1
<1>3. Kept
  BY <1>2 DEF C!Build, Kept, ReclaimInv, ReclaimTyped
<1> QED
  BY <1>1, <1>2, <1>3, SweepGoes, SweepEnds DEF C!Build

LEMMA ClawBuildRecord == ASSUME ReclaimInv, NEW p \in Operators, C!BuildRecord(p) PROVE ReclaimInv'
<1>1. Len(builds) \in DOMAIN builds /\ Len(builds) \in Nat
  BY RunTyped DEF C!BuildRecord, RunHeld, ReclaimInv, ReclaimTyped
<1>2. builds[Len(builds)].atoms \in Nat
  BY <1>1, RunTyped DEF Made
<1> QED
  BY <1>1, <1>2, ClawInserts DEF C!BuildRecord, C!server, Ahead

LEMMA ClawSeal == ASSUME ReclaimInv, NEW p \in Operators, C!Seal(p) PROVE ReclaimInv'
<1>1. oproc[p].n \in Nat /\ oproc[p].copy \in Rows
  BY RunTyped DEF Runs
<1>2. Kept /\ oproc[p].pc \in Ahead
  BY DEF C!Seal, C!server, Kept, Ahead, ReclaimInv, ReclaimTyped
<1>3. oproc[p].pc \in Filed /\ oproc[p].n \in DOMAIN claws'
  BY <1>2, RunTyped DEF C!Seal, RunHeld, Filed, Kept
<1> QED
  BY <1>1, <1>2, <1>3, SweepReturns, SweepGoes DEF C!Seal

LEMMA ClawComplete == ASSUME ReclaimInv, NEW p \in Operators, C!Complete(p) PROVE ReclaimInv'
<1> DEFINE b == oproc[p].copy.build
<1>1. /\ builds' = [builds EXCEPT ![b].done = TRUE] /\ UNCHANGED <<claws, rds, sent, arrived>>
      /\ bal' = bal \/ bal' = [bal EXCEPT ![oproc[p].holder] = 0]
  BY DEF C!Complete
<1> HIDE DEF b
<1>2. builds' \in Seq(Made) /\ (builds # <<>> => builds' # <<>>)
  <2>1. builds \in Seq(Made)
    BY DEF ReclaimInv, ReclaimTyped
  <2>2. CASE b \in DOMAIN builds
    <3> DEFINE e == [builds[b] EXCEPT !.done = TRUE]
    <3>1. builds[b] \in Made
      BY <2>1, <2>2
    <3>2. e \in Made /\ builds' = [builds EXCEPT ![b] = e]
      BY <1>1, <3>1 DEF Made
    <3> HIDE DEF e
    <3> QED
      BY <2>1, <3>2, EditedAny
  <2>3. CASE b \notin DOMAIN builds
    <3>1. builds' = builds
      BY <1>1, <2>1, <2>3
    <3> QED
      BY <2>1, <3>1
  <2> QED
    BY <2>2, <2>3
<1>3. Kept
  BY <1>1, <1>2 DEF Kept, ReclaimInv, ReclaimTyped
<1> QED
  BY <1>3, SweepGoes, SweepEnds DEF C!Complete, Ahead, Filed

LEMMA ClawSealRecord == ASSUME ReclaimInv, NEW p \in Operators, C!SealRecord(p) PROVE ReclaimInv'
<1> DEFINE n == oproc[p].n
           row == [oproc[p].copy EXCEPT !.state = "swept"]
<1>1. n \in Nat /\ oproc[p].copy \in Rows
  BY RunTyped DEF Runs
<1>2. claws' = [claws EXCEPT ![n] = row] /\ C!Return(p, n, row) /\ UNCHANGED <<bal, builds, rds, sent, arrived>>
  BY DEF C!SealRecord, C!server
<1>3. oproc[p].pc \in Ahead /\ n \in DOMAIN claws
  BY RunTyped DEF C!SealRecord, Ahead, RunHeld, Filed
<1>4. row \in Rows
  BY <1>1 DEF Rows
<1> HIDE DEF n, row
<1>5. Kept
  BY <1>2, <1>4, EditedAny DEF Kept, ReclaimInv, ReclaimTyped
<1>6. n \in Nat /\ n \in DOMAIN claws'
  BY <1>1, <1>3, <1>5 DEF Kept, n
<1> QED
  BY <1>2, <1>3, <1>4, <1>5, <1>6, SweepReturns

LEMMA ClawSweepBegin == ASSUME ReclaimInv, NEW p \in Operators, C!SweepBegin(p) PROVE ReclaimInv'
<1> DEFINE T == C!RowsOf(oproc[p].holder, "sweeping")
           row == C!Row(p, "sweeping", bal[oproc[p].holder], 0)
           n == IF T = {} THEN Len(claws) + 1 ELSE C!Newest(T)
           copy == IF T = {} THEN row ELSE claws[n]
           y == [oproc[p] EXCEPT !.pc = "posting", !.n = n, !.copy = copy]
<1>1. oproc[p] \in Runs /\ oproc[p].holder \in Olds /\ oproc[p].pc = "claw" /\ oproc[p].pc \in Ahead
  BY RunTyped DEF RunHeld, C!SweepBegin, Ahead
<1>2. row \in Rows
  BY <1>1 DEF C!Row, Runs, Rows, ReclaimInv, ReclaimTyped
<1>3. T \in SUBSET DOMAIN claws
  BY DEF C!RowsOf
<1>4. /\ claws' = (IF T = {} THEN Append(claws, row) ELSE claws) /\ UNCHANGED <<bal, builds, rds, sent, arrived>>
      /\ oproc' = [oproc EXCEPT ![p].pc = "posting", ![p].n = n, ![p].copy = copy]
  BY DEF C!SweepBegin, C!server
<1> HIDE DEF T, row
<1>5. n \in Nat /\ copy \in Rows /\ n \in DOMAIN claws'
  <2>1. CASE T = {}
    BY <1>2, <1>4, <2>1 DEF ReclaimInv, ReclaimTyped
  <2>2. CASE T # {}
    <3>1. C!Newest(T) \in DOMAIN claws
      BY <1>3, <2>2, NewestThere DEF ReclaimInv, ReclaimTyped
    <3> QED
      BY <1>4, <2>2, <3>1, RunTyped
  <2> QED
    BY <2>1, <2>2
<1> HIDE DEF n, copy
<1>6. oproc' = [oproc EXCEPT ![p] = y]
  BY <1>4 DEF ReclaimInv, ReclaimTyped
<1>7. y \in Runs /\ y.pc = "posting" /\ y.pair = oproc[p].pair /\ y.holder = oproc[p].holder /\ y.n = n
  BY <1>1, <1>5 DEF Runs
<1> HIDE DEF y
<1>8. Kept
  <2>1. claws' \in Seq(Rows)
    BY <1>2, <1>4 DEF ReclaimInv, ReclaimTyped
  <2>2. DOMAIN claws \subseteq DOMAIN claws'
    BY <1>2, <1>4 DEF ReclaimInv, ReclaimTyped
  <2> QED
    BY <1>4, <2>1, <2>2 DEF Kept, ReclaimInv, ReclaimTyped
<1> QED
  BY <1>1, <1>5, <1>6, <1>7, <1>8, SweepKept DEF Ahead

LEMMA ClawSweep == ASSUME ReclaimInv, NEW p \in Operators, C!Sweep(p) PROVE ReclaimInv'
<1> DEFINE e == C!Built(p, TRUE)
<1>1. e \in Made
  BY SweepIsMade DEF C!Sweep
<1>2. /\ builds' = Append(builds, e) /\ bal' = [bal EXCEPT ![oproc[p].holder] = 0]
      /\ C!To(p, "sealed") /\ UNCHANGED <<claws, rds, sent, arrived>>
  BY DEF C!Sweep
<1> HIDE DEF e
<1>3. builds' \in Seq(Made) /\ builds' # <<>>
  BY <1>1, <1>2 DEF ReclaimInv, ReclaimTyped
<1>4. Kept
  BY <1>2, <1>3 DEF Kept, ReclaimInv, ReclaimTyped
<1> QED
  BY <1>2, <1>4, SweepGoes DEF C!Sweep, Ahead, Filed

LEMMA ClawSweepFails == ASSUME ReclaimInv, NEW p \in Operators, C!SweepFails(p) PROVE ReclaimInv'
<1> DEFINE n == oproc[p].n
<1>1. claws' = [claws EXCEPT ![n].state = "failed"] /\ C!End(p) /\ UNCHANGED <<bal, builds, rds, sent, arrived>>
  BY DEF C!SweepFails, C!server
<1> HIDE DEF n
<1>2. claws' \in Seq(Rows)
  <2>1. claws \in Seq(Rows)
    BY DEF ReclaimInv, ReclaimTyped
  <2>2. CASE n \in DOMAIN claws
    <3> DEFINE e == [claws[n] EXCEPT !.state = "failed"]
    <3>1. claws[n] \in Rows
      BY <2>1, <2>2
    <3>2. e \in Rows /\ claws' = [claws EXCEPT ![n] = e]
      BY <1>1, <3>1 DEF Rows
    <3> HIDE DEF e
    <3> QED
      BY <2>1, <3>2, EditedAny
  <2>3. CASE n \notin DOMAIN claws
    <3>1. claws' = claws
      BY <1>1, <2>1, <2>3
    <3> QED
      BY <2>1, <3>1
  <2> QED
    BY <2>2, <2>3
<1>3. Kept
  BY <1>1, <1>2 DEF Kept, ReclaimInv, ReclaimTyped
<1> QED
  BY <1>1, <1>3, SweepEnds

LEMMA ClawNext == ASSUME ReclaimInv, NEW p \in Operators, C!Claw(p) PROVE ReclaimInv'
<1>1. CASE C!CompleteRefused(p)
  <2>1. Kept
    BY <1>1 DEF C!CompleteRefused, C!server, Kept, ReclaimInv, ReclaimTyped
  <2> QED
    BY <1>1, <2>1, SweepEnds DEF C!CompleteRefused
<1> QED
  BY <1>1, ClawFound, ClawNothing, ClawResume, ClawBuild, ClawBuildRecord, ClawSeal, ClawComplete,
     ClawSealRecord, ClawSweepBegin, ClawSweep, ClawSweepFails DEF C!Claw

-----------------------------------------------------------------------------
\* Where a request stands at a row under which k was sent.
Fits(y, row, k) ==
    /\ \/ y.pc \in {"deliver", "transfer", "delivered"} /\ row.state = "clawed"
       \/ y.pc = "account" /\ row.state = "redelivered"
       \/ y.pc = "before" /\ row.state \in {"created", "awaiting_clawback_sig"} /\ y.holder \in Olds
       \/ y.pc = "sign" /\ row.state = "awaiting_clawback_sig"
    /\ y.pc = "transfer" => k = 0
    /\ y.pc = "delivered" => k = row.swept

\* A step of the runbook of a pair: its row is what it says, and the transfers made for it fit the row.
LEMMA RunbookKept ==
    ASSUME ReclaimInv, NEW p \in Operators, NEW y \in Runs, oproc' = [oproc EXCEPT ![p] = y],
           NEW r \in C!Pairs, NEW row \in Books, rds' = [rds EXCEPT ![r] = row],
           NEW k \in Nat, sent' = [sent EXCEPT ![r] = k], arrived[r] <= k,
           UNCHANGED <<bal, builds, claws, arrived>>,
           row.before = 0, k \in {0, row.swept},
           row.state \in {"created", "awaiting_clawback_sig"} => k = 0,
           row.state \in {"redelivered", "complete"} => k = row.swept,
           row.state = "awaiting_clawback_sig" => row.claw \in DOMAIN claws,
           \/ y = C!Away /\ r = oproc[p].pair
           \/ /\ y.pair = r /\ (r = oproc[p].pair \/ \A q \in Operators : oproc[q].pair # r)
              /\ Fits(y, row, k)
    PROVE  ReclaimInv'
<1>1. oproc'[p] = y
  BY DEF ReclaimInv, ReclaimTyped
<1>2. /\ rds' \in [C!Pairs -> {C!None} \cup Books] /\ rds'[r] = row /\ row # C!None
      /\ sent' \in [C!Pairs -> Nat] /\ sent'[r] = k
      /\ \A q \in C!Pairs : q # r => rds'[q] = rds[q] /\ sent'[q] = sent[q]
  <2>1. row # C!None
    BY DEF Books, C!None
  <2> QED
    BY <2>1 DEF ReclaimInv, ReclaimTyped
<1>3. RunHeld(p)'
  <2>1. CASE y = C!Away
    BY <1>1, <2>1, AwayIsARun, NobodyIsNoPair DEF RunHeld, Filed
  <2>2. CASE y.pair = r /\ y.pc \in {"deliver", "transfer", "delivered"}
    BY <1>1, <1>2, <2>2, AwayIsARun DEF RunHeld, Filed, Fits
  <2>3. CASE y.pair = r /\ y.pc = "account"
    BY <1>1, <1>2, <2>3, AwayIsARun DEF RunHeld, Filed, Fits
  <2>4. CASE y.pair = r /\ y.pc \in {"before", "sign"}
    BY <1>1, <1>2, <2>4, AwayIsARun DEF RunHeld, Filed, Fits
  <2> QED
    BY <2>1, <2>2, <2>3, <2>4 DEF Fits
<1>4. oproc' \in [Operators -> Runs] /\ RunsAlone' /\ \A q \in Operators : RunHeld(q)'
  <2>1. y.pair = oproc[p].pair \/ y.pair = Nobody \/ \A q \in Operators : oproc[q].pair # y.pair
    BY AwayIsARun
  <2>2. \A q \in C!Pairs : q # y.pair /\ q # oproc[p].pair => rds'[q] = rds[q] /\ sent'[q] = sent[q]
    BY <1>2
  <2> QED
    BY <1>3, <2>1, <2>2, RunsKept
<1>5. ReclaimTyped'
  BY <1>2, <1>4 DEF ReclaimInv, ReclaimTyped
<1>6. \A q \in C!Pairs : RowHeld(q)'
  BY <1>2 DEF ReclaimInv, RowHeld
<1> QED
  BY <1>4, <1>5, <1>6 DEF ReclaimInv

\* One account has its key lost: Olds has a single member.
OneOld == \E o : Olds = {o}

LEMMA RunbookBefore == ASSUME ReclaimInv, OneOld, NEW p \in Operators, C!Before(p) PROVE ReclaimInv'
<1> DEFINE r == oproc[p].pair
           y == [oproc[p] EXCEPT !.before = 0, !.pc = "claw"]
<1>1. PICK o : Olds = {o}
  BY DEF OneOld
<1>2. r \in C!Pairs /\ oproc[p] \in Runs /\ oproc[p].pc = "before" /\ oproc[p].holder \in Olds
  BY RunTyped DEF C!Before, RunHeld
<1>3. r[2] \in News /\ r = <<o, r[2]>>
  BY <1>1, <1>2 DEF C!Pairs
<1>4. rds[r] # C!None /\ rds[r].state \in {"created", "awaiting_clawback_sig"}
  BY <1>2, RunTyped DEF RunHeld
<1>5. C!Holds(r[2]) = arrived[r]
  BY <1>1, <1>3, HoldsOne DEF ReclaimInv, ReclaimTyped
<1>6. arrived[r] = 0
  BY <1>2, <1>4 DEF ReclaimInv, ReclaimTyped, RowHeld
<1>7. oproc' = [oproc EXCEPT ![p].before = 0, ![p].pc = "claw"]
  BY <1>5, <1>6 DEF C!Before
<1>8. oproc' = [oproc EXCEPT ![p] = y]
  BY <1>7 DEF ReclaimInv, ReclaimTyped
<1>9. y \in Runs /\ y.pc = "claw" /\ y.pair = r /\ y.holder = oproc[p].holder
  BY <1>2 DEF Runs
<1> HIDE DEF y
<1>10. Kept
  BY DEF C!Before, C!server, Kept, ReclaimInv, ReclaimTyped
<1> QED
  BY <1>2, <1>8, <1>9, <1>10, SweepKept DEF Ahead, Filed

\* The row of a pair whose runbook is under way, and the step that leaves it and the transfers alone.
LEMMA RunbookRow ==
    ASSUME ReclaimInv, NEW p \in Operators, oproc[p].pair \in C!Pairs
    PROVE  LET r == oproc[p].pair
           IN  /\ rds[r] \in Books /\ rds[r] # C!None /\ rds[r].swept \in Nat /\ rds[r].before = 0
               /\ sent[r] \in Nat /\ arrived[r] \in Nat /\ arrived[r] <= sent[r] /\ sent[r] \in {0, rds[r].swept}
               /\ rds = [rds EXCEPT ![r] = rds[r]] /\ sent = [sent EXCEPT ![r] = sent[r]]
<1>1. rds[oproc[p].pair] # C!None
  BY RunTyped DEF RunHeld
<1>2. rds[oproc[p].pair] \in Books
  BY <1>1 DEF ReclaimInv, ReclaimTyped
<1> QED
  BY <1>1, <1>2 DEF ReclaimInv, ReclaimTyped, RowHeld, Books

LEMMA RunbookNote == ASSUME ReclaimInv, NEW p \in Operators, C!Note(p) PROVE ReclaimInv'
<1> DEFINE r == oproc[p].pair
           c == oproc[p].copy
           row == [state |-> IF c.state = "awaiting_signature" THEN "awaiting_clawback_sig" ELSE "clawed",
                   swept |-> IF c.state = "swept" THEN c.atoms ELSE 0, claw |-> oproc[p].n,
                   before |-> IF rds[r].state = "created" THEN oproc[p].before ELSE rds[r].before]
           y == IF c.state = "awaiting_signature" THEN C!Away ELSE [oproc[p] EXCEPT !.pc = "deliver"]
<1>1. oproc[p] \in Runs /\ r \in C!Pairs /\ oproc[p].pc = "noting" /\ rds[r].state \in {"created", "awaiting_clawback_sig"}
  BY RunTyped DEF C!Note, RunHeld
<1>2. /\ rds' = [rds EXCEPT ![r] = row] /\ UNCHANGED <<bal, builds, claws, sent, arrived>>
      /\ oproc' = [oproc EXCEPT ![p] = y]
  BY DEF C!Note, C!server, C!End, C!To
<1>3. sent[r] = 0 /\ rds[r].before = 0 /\ arrived[r] <= 0
  <2>1. rds[r] # C!None /\ RowHeld(r)
    BY <1>1, RunbookRow DEF ReclaimInv
  <2> QED
    BY <1>1, <2>1 DEF RowHeld
<1>4. c \in Rows /\ oproc[p].n \in Nat /\ oproc[p].before = 0 /\ c.atoms \in Nat
  BY <1>1 DEF Runs, Rows
<1>5. row \in Books /\ row.before = 0 /\ row.state \in {"awaiting_clawback_sig", "clawed"}
      /\ (c.state # "awaiting_signature" => row.state = "clawed")
  BY <1>3, <1>4 DEF Books
<1>6. row.state = "awaiting_clawback_sig" => row.claw \in DOMAIN claws
  BY <1>1, RunTyped DEF RunHeld, Filed
<1>7. y = C!Away \/ (y \in Runs /\ y.pair = r /\ y.pc = "deliver" /\ row.state = "clawed")
  BY <1>1, <1>5 DEF Runs
<1>8. sent' = [sent EXCEPT ![r] = 0]
  BY <1>1, <1>2, <1>3, RunbookRow
<1> HIDE DEF row, y
<1>9. y \in Runs
  BY <1>7, AwayIsARun
<1> HIDE DEF c
<1>10. CASE y = C!Away
  <2>1. oproc' = [oproc EXCEPT ![p] = C!Away] /\ C!Away \in Runs /\ r = oproc[p].pair
    BY <1>2, <1>10, AwayIsARun
  <2> HIDE DEF r
  <2>2. r \in C!Pairs /\ row \in Books /\ 0 \in Nat
    BY <1>1, <1>5
  <2>3. row.state \notin {"created", "redelivered", "complete"} /\ row.before = 0 /\ arrived[r] <= 0 /\ 0 \in {0, row.swept}
    BY <1>3, <1>5
  <2> QED
    BY <1>2, <1>6, <1>8, <2>1, <2>2, <2>3, RunbookKept
<1>11. CASE y.pair = r /\ y.pc = "deliver" /\ row.state = "clawed"
  <2>1. Fits(y, row, 0)
    BY <1>11 DEF Fits
  <2> QED
    BY <1>1, <1>2, <1>3, <1>5, <1>6, <1>8, <1>9, <1>11, <2>1, RunbookKept
<1> QED
  BY <1>7, <1>10, <1>11

LEMMA RunbookSign == ASSUME ReclaimInv, NEW p \in Operators, C!Sign(p) PROVE ReclaimInv'
<1> DEFINE r == oproc[p].pair
           n == rds[r].claw
           y == [oproc[p] EXCEPT !.pc = "seal", !.n = n, !.copy = claws[n]]
<1>1. Kept
  BY DEF C!Sign, C!server, Kept, ReclaimInv, ReclaimTyped
<1>2. CASE C!End(p)
  BY <1>1, <1>2, SweepEnds
<1>3. CASE oproc' = [oproc EXCEPT ![p].pc = "seal", ![p].n = n, ![p].copy = claws[n]]
  <2>1. oproc[p] \in Runs /\ oproc[p].pc = "sign"
    BY RunTyped DEF C!Sign
  <2>2. n \in Nat /\ claws[n] \in Rows /\ n \in DOMAIN claws
    <3>1. r \in C!Pairs /\ rds[r].state = "awaiting_clawback_sig" /\ rds[r] # C!None
      BY <2>1, RunTyped DEF RunHeld
    <3>2. n \in DOMAIN claws
      BY <3>1 DEF ReclaimInv, RowHeld
    <3> QED
      BY <3>2, RunTyped
  <2>3. oproc' = [oproc EXCEPT ![p] = y]
    BY <1>3 DEF ReclaimInv, ReclaimTyped
  <2>4. y \in Runs /\ y.pc = "seal" /\ y.pair = oproc[p].pair /\ y.n = n
    BY <2>1, <2>2 DEF Runs
  <2> HIDE DEF y
  <2>5. y.n \in DOMAIN claws'
    BY <1>1, <2>2, <2>4 DEF Kept
  <2> QED
    BY <1>1, <2>1, <2>3, <2>4, <2>5, SweepKept DEF Ahead
<1> QED
  BY <1>2, <1>3 DEF C!Sign

\* The runbook answers, or goes on to the next step.
LEMMA RunbookEnds ==
    ASSUME ReclaimInv, NEW p \in Operators, oproc[p].pair \in C!Pairs, C!End(p), NEW row \in Books,
           rds' = [rds EXCEPT ![oproc[p].pair] = row], NEW k \in Nat, sent' = [sent EXCEPT ![oproc[p].pair] = k],
           arrived[oproc[p].pair] <= k, UNCHANGED <<bal, builds, claws, arrived>>, row.before = 0, k \in {0, row.swept},
           row.state \in {"clawed", "complete"}, row.state = "complete" => k = row.swept
    PROVE  ReclaimInv'
<1> DEFINE r == oproc[p].pair
<1>1. r = oproc[p].pair /\ r \in C!Pairs /\ oproc' = [oproc EXCEPT ![p] = C!Away]
  BY DEF C!End
<1> HIDE DEF r
<1> QED
  BY <1>1, AwayIsARun, RunbookKept

LEMMA RunbookGoes ==
    ASSUME ReclaimInv, NEW p \in Operators, oproc[p].pair \in C!Pairs, NEW row \in Books,
           rds' = [rds EXCEPT ![oproc[p].pair] = row], NEW k \in Nat, sent' = [sent EXCEPT ![oproc[p].pair] = k],
           arrived[oproc[p].pair] <= k, UNCHANGED <<bal, builds, claws, arrived>>, row.before = 0, k \in {0, row.swept},
           NEW pc \in {"transfer", "delivered", "account"}, C!To(p, pc),
           row.state = (IF pc = "account" THEN "redelivered" ELSE "clawed"),
           pc = "transfer" => k = 0, pc \in {"delivered", "account"} => k = row.swept
    PROVE  ReclaimInv'
<1> DEFINE r == oproc[p].pair
           y == [oproc[p] EXCEPT !.pc = pc]
<1>1. oproc[p] \in Runs
  BY RunTyped
<1>2. r = oproc[p].pair /\ r \in C!Pairs /\ oproc' = [oproc EXCEPT ![p] = y]
  BY DEF C!To
<1>3. y \in Runs /\ y.pc = pc /\ y.pair = r
  BY <1>1 DEF Runs
<1> HIDE DEF r, y
<1>4. Fits(y, row, k) /\ row.state # "awaiting_clawback_sig"
  BY <1>3 DEF Fits
<1> QED
  BY <1>2, <1>3, <1>4, RunbookKept

LEMMA RunbookDeliver == ASSUME ReclaimInv, OneOld, Settled, NEW p \in Operators, C!Deliver(p) PROVE ReclaimInv'
<1> DEFINE r == oproc[p].pair
<1>1. r \in C!Pairs /\ rds[r].state = "clawed" /\ oproc[p].pc = "deliver"
  BY RunTyped DEF C!Deliver, RunHeld
<1>2. /\ rds[r] \in Books /\ rds[r].swept \in Nat /\ rds[r].before = 0
      /\ sent[r] \in Nat /\ arrived[r] \in Nat /\ arrived[r] <= sent[r] /\ sent[r] \in {0, rds[r].swept}
      /\ rds = [rds EXCEPT ![r] = rds[r]] /\ sent = [sent EXCEPT ![r] = sent[r]]
  BY <1>1, RunbookRow
<1>3. C!Holds(r[2]) = arrived[r]
  <2>1. PICK o : Olds = {o}
    BY DEF OneOld
  <2>2. r[2] \in News /\ r = <<o, r[2]>>
    BY <1>1, <2>1 DEF C!Pairs
  <2> QED
    BY <2>1, <2>2, HoldsOne DEF ReclaimInv, ReclaimTyped
<1>4. sent[r] = arrived[r] /\ UNCHANGED <<bal, builds, claws, sent, arrived>>
  BY DEF C!Deliver, C!server
<1>5. CASE rds[r].swept = 0 /\ C!Set(p, "complete") /\ C!End(p)
  <2> DEFINE row == [rds[r] EXCEPT !.state = "complete"]
  <2>1. row \in Books /\ row.swept = rds[r].swept /\ row.before = 0 /\ row.state = "complete"
    BY <1>2 DEF Books
  <2>2. rds' = [rds EXCEPT ![r] = row]
    BY <1>5 DEF C!Set
  <2> HIDE DEF row
  <2> QED
    BY <1>1, <1>2, <1>4, <1>5, <2>1, <2>2, RunbookEnds
<1>6. CASE rds[r].swept # 0 /\ C!Whole(r) /\ C!Set(p, "redelivered") /\ C!To(p, "account")
  <2> DEFINE row == [rds[r] EXCEPT !.state = "redelivered"]
  <2>1. row \in Books /\ row.swept = rds[r].swept /\ row.before = 0 /\ row.state = "redelivered"
    BY <1>2 DEF Books
  <2>2. rds' = [rds EXCEPT ![r] = row]
    BY <1>6 DEF C!Set
  <2>3. sent[r] = row.swept
    BY <1>2, <1>3, <1>6, <2>1 DEF C!Whole
  <2> HIDE DEF row
  <2> QED
    BY <1>1, <1>2, <1>4, <1>6, <2>1, <2>2, <2>3, RunbookGoes
<1>7. CASE rds[r].swept # 0 /\ ~C!Whole(r) /\ UNCHANGED rds
  <2>1. sent[r] = 0
    BY <1>2, <1>3, <1>4, <1>7 DEF C!Whole
  <2>2. rds' = [rds EXCEPT ![r] = rds[r]] /\ sent' = [sent EXCEPT ![r] = 0] /\ arrived[r] <= 0
    BY <1>2, <1>4, <1>7, <2>1
  <2>3. CASE C!To(p, "transfer")
    <3> DEFINE row == rds[r]
    <3>1. row \in Books /\ row.before = 0 /\ row.state = "clawed" /\ rds' = [rds EXCEPT ![r] = row]
      BY <1>1, <1>2, <2>2
    <3> HIDE DEF row
    <3>2. 0 \in {0, row.swept} /\ 0 \in Nat
      OBVIOUS
    <3> QED
      BY <1>1, <1>4, <2>2, <2>3, <3>1, <3>2, RunbookGoes
  <2>4. CASE C!End(p)
    BY <1>1, <1>2, <1>4, <2>2, <2>4, RunbookEnds
  <2> QED
    BY <1>5, <1>6, <1>7, <2>3, <2>4 DEF C!Deliver
<1> QED
  BY <1>5, <1>6, <1>7 DEF C!Deliver

LEMMA RunbookTransfer == ASSUME ReclaimInv, NEW p \in Operators, C!Transfer(p) PROVE ReclaimInv'
<1> DEFINE r == oproc[p].pair
           k == rds[r].swept
<1>1. r \in C!Pairs /\ rds[r].state = "clawed" /\ sent[r] = 0
  BY RunTyped DEF C!Transfer, RunHeld
<1>2. /\ rds[r] \in Books /\ k \in Nat /\ rds[r].before = 0 /\ arrived[r] \in Nat /\ arrived[r] <= 0
      /\ rds = [rds EXCEPT ![r] = rds[r]]
  BY <1>1, RunbookRow
<1>3. /\ sent' = [sent EXCEPT ![r] = k] /\ UNCHANGED <<bal, builds, claws, rds, arrived>>
      /\ C!To(p, "delivered") \/ C!End(p)
  <2>1. sent' = [sent EXCEPT ![r] = sent[r] + k]
    BY DEF C!Transfer
  <2>2. sent[r] + k = k
    BY <1>1, <1>2
  <2> QED
    BY <2>1, <2>2 DEF C!Transfer
<1>4. rds' = [rds EXCEPT ![r] = rds[r]] /\ arrived[r] <= k
  BY <1>2, <1>3
<1>5. CASE C!To(p, "delivered")
  BY <1>1, <1>2, <1>3, <1>4, <1>5, RunbookGoes
<1>6. CASE C!End(p)
  BY <1>1, <1>2, <1>3, <1>4, <1>6, RunbookEnds
<1> QED
  BY <1>3, <1>5, <1>6

LEMMA RunbookTransferFails == ASSUME ReclaimInv, NEW p \in Operators, C!TransferFails(p) PROVE ReclaimInv'
  BY SweepEnds DEF C!TransferFails, C!server, Kept, ReclaimInv, ReclaimTyped

LEMMA RunbookDelivered == ASSUME ReclaimInv, NEW p \in Operators, C!Delivered(p) PROVE ReclaimInv'
<1> DEFINE r == oproc[p].pair
           row == [rds[r] EXCEPT !.state = "redelivered"]
<1>1. r \in C!Pairs /\ sent[r] = rds[r].swept
  BY RunTyped DEF C!Delivered, RunHeld
<1>2. /\ rds[r] \in Books /\ rds[r].before = 0 /\ sent[r] \in Nat /\ arrived[r] <= sent[r]
      /\ sent = [sent EXCEPT ![r] = sent[r]]
  BY <1>1, RunbookRow
<1>3. row \in Books /\ row.swept = rds[r].swept /\ row.before = 0 /\ row.state = "redelivered"
  BY <1>2 DEF Books
<1>4. rds' = [rds EXCEPT ![r] = row] /\ C!To(p, "account") /\ UNCHANGED <<bal, builds, claws, sent, arrived>>
  BY DEF C!Delivered, C!Set, C!server
<1> HIDE DEF row
<1> QED
  BY <1>1, <1>2, <1>3, <1>4, RunbookGoes

LEMMA RunbookAccount == ASSUME ReclaimInv, NEW p \in Operators, C!Account(p) PROVE ReclaimInv'
<1> DEFINE r == oproc[p].pair
           row == [rds[r] EXCEPT !.state = "complete"]
<1>1. r \in C!Pairs /\ rds[r].state = "redelivered" /\ rds[r] # C!None
  BY RunTyped DEF C!Account, RunHeld
<1>2. /\ rds[r] \in Books /\ rds[r].before = 0 /\ sent[r] \in Nat /\ arrived[r] <= sent[r]
      /\ sent = [sent EXCEPT ![r] = sent[r]]
  BY <1>1, RunbookRow
<1>3. row \in Books /\ row.swept = rds[r].swept /\ row.before = 0 /\ row.state = "complete"
  BY <1>2 DEF Books
<1>4. rds' = [rds EXCEPT ![r] = row] /\ C!End(p) /\ UNCHANGED <<bal, builds, claws, sent, arrived>>
  BY DEF C!Account, C!Set, C!server
<1>5. sent[r] = rds[r].swept
  BY <1>1 DEF ReclaimInv, RowHeld
<1> HIDE DEF row
<1> QED
  BY <1>1, <1>2, <1>3, <1>4, <1>5, RunbookEnds

LEMMA Resumption ==
    /\ C!Resumes("none") = "before" /\ C!Resumes("created") = "before" /\ C!Resumes("awaiting_clawback_sig") = "sign"
    /\ C!Resumes("clawed") = "deliver" /\ C!Resumes("redelivered") = "account"
  BY DEF C!Resumes

LEMMA RunbookBegins ==
    ASSUME ReclaimInv, NEW p \in Operators, NEW r \in C!Pairs, NEW why \in Reasons, C!Runbook(p, r, why)
    PROVE  ReclaimInv'
<1> DEFINE pc == C!Resumes(rds[r].state)
           y == [C!Away EXCEPT !.pc = pc, !.pair = r, !.holder = r[1], !.reason = why]
           fresh == [state |-> "created", swept |-> 0, claw |-> 0, before |-> 0]
           row == IF rds[r] = C!None THEN fresh ELSE rds[r]
<1>1. /\ rds[r].state # "complete" /\ \A q \in Operators : oproc[q].pair # r
      /\ rds' = (IF rds[r] = C!None THEN [rds EXCEPT ![r] = fresh] ELSE rds)
      /\ oproc' = [oproc EXCEPT ![p] = y] /\ UNCHANGED <<bal, builds, claws, sent, arrived>>
  BY DEF C!Runbook, C!server
<1>2. rds[r] \in {C!None} \cup Books /\ r[1] \in Olds /\ sent[r] \in Nat /\ arrived[r] \in Nat /\ RowHeld(r)
  BY DEF ReclaimInv, ReclaimTyped, C!Pairs
<1>3. C!None.state = "none" /\ fresh \in Books /\ fresh # C!None
  BY DEF C!None, Books
<1>4. row \in Books /\ rds' = [rds EXCEPT ![r] = row] /\ sent' = [sent EXCEPT ![r] = sent[r]]
  BY <1>1, <1>2, <1>3 DEF ReclaimInv, ReclaimTyped
<1>5. /\ row.before = 0 /\ sent[r] \in {0, row.swept} /\ arrived[r] <= sent[r]
      /\ row.state \in {"created", "awaiting_clawback_sig"} => sent[r] = 0
      /\ row.state \in {"redelivered", "complete"} => sent[r] = row.swept
      /\ row.state = "awaiting_clawback_sig" => row.claw \in DOMAIN claws
  BY <1>2, <1>3 DEF RowHeld
<1>6. \/ row.state = "created" /\ pc = "before"
      \/ row.state = "awaiting_clawback_sig" /\ pc = "sign"
      \/ row.state = "clawed" /\ pc = "deliver"
      \/ row.state = "redelivered" /\ pc = "account"
  <2>1. CASE rds[r] = C!None
    <3>1. row.state = "created" /\ rds[r].state = "none"
      BY <1>3, <2>1
    <3>2. pc = C!Resumes("none")
      BY <3>1
    <3> HIDE DEF pc, row
    <3> QED
      BY <3>1, <3>2, Resumption
  <2>2. CASE rds[r] # C!None
    <3>1. row.state \in {"created", "awaiting_clawback_sig", "clawed", "redelivered"} /\ row = rds[r]
      BY <1>1, <1>4, <2>2 DEF Books
    <3>2. pc = C!Resumes(row.state)
      BY <3>1
    <3> HIDE DEF pc, row
    <3> QED
      BY <3>1, <3>2, Resumption
  <2> QED
    BY <2>1, <2>2
<1> HIDE DEF pc, row
<1>7. y \in Runs /\ y.pair = r /\ y.pc = pc /\ y.holder \in Olds
  BY <1>2, <1>6, AwayIsARun DEF Runs
<1> HIDE DEF y
<1>8. Fits(y, row, sent[r])
  BY <1>6, <1>7 DEF Fits
<1> QED
  BY <1>1, <1>2, <1>4, <1>5, <1>7, <1>8, RunbookKept

LEMMA RunbookConfirm == ASSUME ReclaimInv, NEW r \in C!Pairs, C!Confirm(r) PROVE ReclaimInv'
<1>1. arrived' = [arrived EXCEPT ![r] = sent[r]] /\ UNCHANGED <<bal, builds, claws, rds, sent, oproc>>
  BY DEF C!Confirm
<1>2. ReclaimTyped'
  BY <1>1 DEF ReclaimInv, ReclaimTyped
<1>3. RunsAlone' /\ \A p \in Operators : RunHeld(p)'
  BY <1>1 DEF ReclaimInv, RunsAlone, RunHeld
<1>4. \A q \in C!Pairs : RowHeld(q)'
  BY <1>1 DEF ReclaimInv, ReclaimTyped, RowHeld
<1> QED
  BY <1>2, <1>3, <1>4 DEF ReclaimInv

LEMMA RunbookCrash == ASSUME ReclaimInv, C!Crash PROVE ReclaimInv'
<1>1. oproc' = [p \in Operators |-> C!Away] /\ UNCHANGED <<bal, builds, claws, rds, sent, arrived>>
  BY DEF C!Crash, C!server
<1>2. ReclaimTyped'
  BY <1>1, AwayIsARun DEF ReclaimInv, ReclaimTyped
<1>3. RunsAlone' /\ \A p \in Operators : RunHeld(p)'
  BY <1>1, AwayIsARun, NobodyIsNoPair DEF RunsAlone, RunHeld, Filed
<1>4. \A q \in C!Pairs : RowHeld(q)'
  BY <1>1 DEF ReclaimInv, RowHeld
<1> QED
  BY <1>2, <1>3, <1>4 DEF ReclaimInv

LEMMA ReclaimNext == ASSUME ReclaimInv, OneOld, Settled, C!Next PROVE ReclaimInv'
  BY ClawNext, RunbookBefore, RunbookNote, RunbookSign, RunbookDeliver, RunbookTransfer, RunbookTransferFails,
     RunbookDelivered, RunbookAccount, ClawConsole, ClawConsoleComplete, RunbookBegins, RunbookConfirm, RunbookCrash
  DEF C!Next, C!Redeliver

\* "Every step is logged, idempotent, and reconciled" (redeliver.go): for one account whose key is lost, where a
\* transfer is confirmed before the runbook looks again, what was swept from it is delivered at most once to each
\* account, and a finished runbook has delivered all of it, for any accounts, requests and interruptions.
THEOREM WhatWasSweptArrivesOnce == OneOld /\ Settled => (Spec => []RedeliveredOnce)
<1> SUFFICES ASSUME OneOld, Settled PROVE Spec => []RedeliveredOnce
  OBVIOUS
<1>1. ReclaimInv /\ [Next]_vars => ReclaimInv'
  <2>1. ASSUME ReclaimInv, UNCHANGED reclaim PROVE ReclaimInv'
    BY <2>1 DEF reclaim, ReclaimInv, ReclaimTyped, RunsAlone, RunHeld, RowHeld
  <2> QED
    BY <2>1, ReclaimNext DEF Next, vars
<1>2. ReclaimInv => RedeliveredOnce
  <2> SUFFICES ASSUME ReclaimInv, NEW r \in C!Pairs, rds[r] # C!None
               PROVE  sent[r] <= rds[r].swept /\ (rds[r].state \in {"redelivered", "complete"} => sent[r] = rds[r].swept)
    BY DEF RedeliveredOnce, C!RedeliveredOnce
  <2>1. rds[r] \in Books
    BY DEF ReclaimInv, ReclaimTyped
  <2> QED
    BY <2>1 DEF ReclaimInv, RowHeld, Books
<1> QED
  BY ReclaimStart, <1>1, <1>2, PTL DEF Spec
=============================================================================
