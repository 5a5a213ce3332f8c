---------------------------- MODULE LeasingProofs ----------------------------
(***************************************************************************)
(* Why a tenant is written on one node alone: LeaseInv is inductive, and   *)
(* OnePrimary, RecordCovers and WithheldTracked follow, for any nodes,     *)
(* tenants, leases and bounds, any number of router processes, and clocks  *)
(* kept as ClockKept says. Here are the grants a router sends and reads    *)
(* the answers to, those a node reads, and the theorems.                   *)
(***************************************************************************)
EXTENDS LeasingFacts

\* Zenon is given a minute a leaf; the leaves that count name the SMT solver.
USE ZenonT(60)

-----------------------------------------------------------------------------
(* Grants sent, and rounds.                                                *)

\* The record a grant is sent from follows.
LEMMA EntryFollows ==
    ASSUME TypeOK, NEW n \in Nodes, NodeInv(n)
    PROVE  Follows(n, Entry(n))
<1>1. ClocksInv(n) /\ HeldInv(n) /\ NumbersInv(n) /\ AnswersInv(n)
  BY DEF NodeInv
<1>2. Since(held[n], router) \in 0 .. now /\ now \in Nat
  BY <1>1, Numeric
<1>3. CASE held[n].known
  <2>1. Entry(n) = held[n] /\ Since(held[n], router) = held[n].acked
    BY <1>3 DEF Entry, Since
  <2>2. held[n].acked \in Nat
    BY DEF TypeOK, Held
  <2> QED BY SMTT(60), <1>1, <1>2, <1>3, <2>1, <2>2
          DEF Follows, NumbersInv, AnswersInv, Counted
<1>4. CASE ~held[n].known
  <2>1. Entry(n) = FreshHeld /\ held[n] = UnknownHeld
    BY <1>1, <1>4 DEF Entry, HeldInv
  <2> QED BY SMTT(60), <1>2, <2>1 DEF Follows, FreshHeld, UnknownHeld
<1> QED BY <1>3, <1>4

\* A grant sent keeps n's part of the invariant: its number is new, and it
\* runs no longer than the record and this process's lease, from an answer
\* given before n was last counted as granted (Leases::number).
LEMMA GrantSent ==
    ASSUME TypeOK, TypeOK', NEW n \in Nodes, NodeInv(n),
           NEW h \in Held, Follows(n, h), NEW tn \in Turn, Send(n, h, tn),
           now' = now, boot' = boot, SameRouter, lease'[n] = lease[n],
           tn.ms <= router.term, tn.ms <= record', Clean(n, tn.list, place'),
           sent'[n] <= router'.readings,
           \A q \in queue'[n] :
              q.reading <= router'.readings /\ (q.reading >= sent'[n] => Clean(n, q.list, place')),
           \A g \in grants[n] : CanRun(lease[n], g, Clock(n)) => Clean(n, g.list, place'),
           Running(lease[n], Clock(n)) => \A list \in lease[n].list : Clean(n, list, place')
    PROVE  NodeInv(n)'
<1> DEFINE number == <<router.proc, h.next>>
           new == [holder |-> router.holder, ms |-> tn.ms, list |-> tn.list,
                   with |-> tn.with, grant |-> number, acked |-> h.ackedGrant]
<1>1. /\ grants'[n] = grants[n] \cup {new}
      /\ reply'[n] = {}
      /\ turn'[n] = [tn EXCEPT !.phase = "waiting", !.grant = number]
      /\ held'[n] = [h EXCEPT !.next = h.next + 1]
  BY DEF Send, TypeOK
<1>2. /\ held'[n].known = h.known /\ held'[n].acked = h.acked /\ held'[n].own = h.own
      /\ held'[n].next = h.next + 1 /\ held'[n].ackedGrant = h.ackedGrant
      /\ held'[n].lost = h.lost /\ held'[n].failing = h.failing
  BY <1>1 DEF Held
<1>3. /\ turn'[n].phase = "waiting" /\ turn'[n].grant = number
      /\ turn'[n].list = tn.list /\ turn'[n].ms = tn.ms
  BY <1>1 DEF Turn
<1>4. held'[n].known
  BY <1>2 DEF Follows
<1>5. /\ new.ms = tn.ms /\ new.list = tn.list /\ new.grant = number
      /\ new.acked = h.ackedGrant /\ new \in Grant
  <2>1. new \in grants'[n] /\ grants'[n] \in SUBSET Grant
    BY <1>1 DEF TypeOK
  <2> QED BY <2>1
<1>6. number[1] = router.proc /\ number[2] = h.next /\ h.next \in Nat /\ router.proc \in Nat
  BY DEF Held, TypeOK, RouterState
<1> HIDE DEF number, new
<1>7. /\ Clock(n)' = Clock(n) /\ Started(n)' = Started(n)
      /\ Counted(n)' = boot[n][h.acked] /\ Counted(n) <= boot[n][h.acked]
      /\ boot[n][h.acked] \in Nat /\ ClocksInv(n)'
  BY <1>2, <1>4, FollowsKeeps
<1>8. ClocksInv(n)
  BY DEF NodeInv
<1>9. \A g : Old(g, router)' <=> Old(g, router)
  BY DEF Old, SameRouter
<1>10. ~Old(new, router)
  BY <1>5, <1>6 DEF Old
<1>11. HeldInv(n)'
  <2>1. held'[n].lost \/ held'[n].failing => router'.led /\ held'[n].known
    BY <1>2 DEF NodeInv, HeldInv, SameRouter, Follows
  <2> QED BY <1>3, <1>4, <2>1 DEF HeldInv, SameRouter
<1>12. NumbersInv(n)'
  <2>1. h.next = held[n].next
    BY DEF Follows
  <2>2. ASSUME NEW g \in grants[n]
        PROVE  /\ g.grant[1] \in Nat /\ g.grant[2] \in Nat
               /\ g.grant # number /\ number \notin g.acked
    <3> DEFINE Below(x) == x[1] = router.proc => x[2] < h.next
    <3>1. g \in Grant
      BY DEF TypeOK
    <3>2. g.grant \in Number /\ g.acked \in SUBSET Number
      BY <3>1 DEF Grant, Option
    <3>3. Below(g.grant) /\ \A x \in g.acked : Below(x)
      BY <2>1 DEF NodeInv, NumbersInv, Old
    <3>4. \A x \in Number : x[1] \in Nat /\ x[2] \in Nat
      BY DEF Number
    <3>5. ~Below(number)
      BY SMTT(60), <1>6
    <3> HIDE DEF Below
    <3> QED BY <3>2, <3>3, <3>4, <3>5
  <2>3. \A x \in h.ackedGrant : x[1] = router.proc /\ x[2] < h.next /\ x[2] \in Nat
    BY DEF Follows, Held, Option, Number
  <2>4. number \notin h.ackedGrant
    BY SMTT(60), <1>6, <2>3
  <2>5. ASSUME NEW g \in grants[n]
        PROVE  /\ g.grant[1] <= router.proc
               /\ ~Old(g, router) => g.grant[2] < h.next + 1
               /\ \A x \in g.acked :
                    x[1] = g.grant[1] /\ (~Old(g, router) => x[2] < h.next + 1)
    <3>0. g \in Grant
      BY DEF TypeOK
    <3>1. \A x \in g.acked : x[2] \in Nat
      BY <3>0 DEF Grant, Option, Number
    <3> QED BY SMTT(60), <1>6, <2>1, <2>2, <3>1 DEF NodeInv, NumbersInv
  <2>6. \A g, f \in grants[n] : f.grant \notin g.acked /\ (f.grant = g.grant => f = g)
    BY DEF NodeInv, NumbersInv
  <2>7. \A g \in grants[n] : g.grant \notin h.ackedGrant
    BY DEF Follows
  <2>8. \A g \in grants'[n] :
          /\ g.grant[1] <= router.proc
          /\ ~Old(g, router) => g.grant[2] < h.next + 1
          /\ \A x \in g.acked :
               x[1] = g.grant[1] /\ (~Old(g, router) => x[2] < h.next + 1)
    BY SMTT(60), <1>1, <1>5, <1>6, <2>3, <2>5
  <2>9. \A g, f \in grants'[n] : f.grant \notin g.acked /\ (f.grant = g.grant => f = g)
    BY <1>1, <1>5, <2>2, <2>4, <2>6, <2>7
  <2>10. \A g \in grants'[n] : g.grant \notin h.ackedGrant
    BY <1>1, <1>5, <2>4, <2>7
  <2>11. \A x \in h.ackedGrant : x[1] = router.proc /\ x[2] < h.next + 1
    BY SMTT(60), <1>6, <2>3
  <2>12. \A a \in lease[n].answered : a.grant[1] <= router.proc
    BY DEF NodeInv, NumbersInv
  <2> QED BY SMTT(60), <1>1, <1>2, <1>3, <1>6, <1>9, <2>8, <2>9, <2>10, <2>11, <2>12
          DEF NumbersInv, SameRouter
<1>13. AnswersInv(n)'
  <2>1. /\ Counted(n) \in Nat
        /\ \A a \in lease[n].answered : a.at \in Nat
    BY <1>8, Numeric
  <2>2. ASSUME NEW a \in lease[n].answered, NEW g \in grants[n], a.grant \in g.acked
        PROVE  /\ a.at <= boot[n][h.acked]
               /\ Old(g, router) =>
                   /\ a.at <= Started(n)
                   /\ \A c \in lease[n].answered :
                        c.grant[1] = router.proc => a.at < c.at
    BY SMTT(60), <1>7, <2>1, <2>2 DEF NodeInv, AnswersInv
  <2>3. \A a \in lease[n].answered : a.grant \in h.ackedGrant => a.at <= boot[n][h.acked]
    BY DEF Follows
  <2> QED BY SMTT(60), <1>1, <1>2, <1>5, <1>7, <1>9, <1>10, <2>2, <2>3 DEF AnswersInv, SameRouter
<1>14. GrantTermsInv(n)'
  <2>1. \A g \in grants[n] : CanRun(lease[n], g, Clock(n)) =>
              /\ g.ms <= record'
              /\ ~Old(g, router') => g.ms <= router'.term
              /\ Old(g, router') => /\ ~held'[n].own /\ ~RanReply(reply'[n])
                                    /\ g.ms <= Longest(router', record')
    BY <1>1, <1>2, <1>4, FollowsBounds
  <2>2. new.ms <= record' /\ new.ms <= router'.term /\ ~Old(new, router')
    BY <1>5, <1>9, <1>10 DEF SameRouter
  <2> QED BY <1>1, <1>7, <2>1, <2>2 DEF GrantTermsInv
<1>15. LeaseTermInv(n)'
  BY <1>1, <1>2, <1>4, FollowsLeaseTerm
<1>16. LostInv(n)'
  <2> SUFFICES ASSUME h.lost PROVE LostInv(n)'
    BY <1>2 DEF LostInv
  <2>1. held[n].lost /\ Counted(n) = boot[n][h.acked]
    BY DEF Follows, Counted
  <2>2. /\ Counted(n) + router.term <= Clock(n)
        /\ ~Running(lease[n], Clock(n))
        /\ \A g \in grants[n] : ~CanRun(lease[n], g, Clock(n))
    BY <2>1 DEF NodeInv, LostInv
  <2>3. ~CanRun(lease[n], new, Clock(n))
    <3> SUFFICES ASSUME CanRun(lease[n], new, Clock(n)) PROVE FALSE
      OBVIOUS
    <3>1. PICK a \in lease[n].answered : a.grant \in new.acked /\ a.at + new.ms > Clock(n)
      BY <1>5, <1>8, CanRunFrom, Numeric
    <3>2. a.at <= Counted(n)
      BY <1>5, <2>1, <3>1 DEF Follows
    <3>3. a.at \in Nat /\ Counted(n) \in Nat /\ Clock(n) \in Nat /\ router.term \in Nat
      BY <1>8, Numeric
    <3>4. tn.ms \in Nat /\ new.ms <= router.term /\ new.ms = tn.ms
      BY <1>5 DEF Turn
    <3> QED BY SMTT(60), <2>2, <3>1, <3>2, <3>3, <3>4
  <2> QED BY SMTT(60), <1>1, <1>2, <1>7, <2>1, <2>2, <2>3 DEF LostInv, SameRouter
<1>17. ListsInv(n)'
  BY <1>1, <1>3, <1>5, <1>7 DEF ListsInv
<1> QED BY <1>7, <1>11, <1>12, <1>13, <1>14, <1>15, <1>16, <1>17 DEF NodeInv

\* A list read anew is granted to n first and queued for every other node
\* (Router::granted_after): what was queued for n is older, and dropped.
LEMMA GrantedAfterKeeps ==
    ASSUME TypeOK, TypeOK', LeaseInv, NEW n \in Nodes, NEW wh, NEW over \in Lists,
           GrantedAfter(n, place', wh, over),
           now' = now, boot' = boot, lease' = lease, held[n].lost,
           \A m \in Nodes : m # n => KeptOn(m)
    PROVE  LeaseInv'
<1> DEFINE k == router.readings + 1
           list(m) == Primaries(m, place', wh)
<1>1. /\ sent' = [sent EXCEPT ![n] = k]
      /\ queue' = [m \in Nodes |->
                     IF m = n THEN queue[m]
                     ELSE queue[m] \cup {[list |-> list(m), reading |-> k, round |-> FALSE]}]
      /\ \E ms \in {router.term, record} :
            /\ GrantTerm([router EXCEPT !.readings = k], ms)
            /\ StartGrant(n, list(n), ms, FALSE, over)
  BY DEF GrantedAfter
<1>2. PICK ms \in {router.term, record} :
        /\ GrantTerm([router EXCEPT !.readings = k], ms)
        /\ StartGrant(n, list(n), ms, FALSE, over)
  BY <1>1
<1>3. router.readings \in Nat /\ k \in Nat /\ k > router.readings /\ ms \in Nat
  <2>1. router.readings \in Nat /\ router.term \in Nat /\ record \in Nat
    BY LeasingAssumption DEF TypeOK, RouterState, LeasingAssumption
  <2> QED BY SMTT(60), <2>1
<1>4. /\ ms <= router.term /\ ms <= record'
      /\ SameRouter /\ RecordInv' /\ router'.readings = k
  BY SMTT(60), <1>2, <1>3, GrantTermRecords DEF LeaseInv
<1> DEFINE tn == [FreeTurn EXCEPT !.list = list(n), !.ms = ms, !.round = FALSE,
                                  !.over = over, !.with = (Entry(n).list # {list(n)})]
<1>5. tn \in Turn /\ tn.ms = ms /\ tn.list = list(n)
  <2>1. list(n) \in Lists
    BY DEF Lists, Primaries
  <2> HIDE DEF list
  <2> QED BY <1>3, <2>1, FreeTurnType DEF Turn
<1>6. Send(n, Entry(n), tn)
  BY <1>2 DEF StartGrant
<1>7. \A m \in Nodes : Clean(m, list(m), place')
  BY PrimariesClean
<1> HIDE DEF tn, list, k
<1>8. ASSUME NEW m \in Nodes, m # n PROVE NodeInv(m)'
  <2>1. QueuedNow(m)
    <3>1. \A q \in queue'[m] :
            q \in queue[m] \/ q = [list |-> list(m), reading |-> k, round |-> FALSE]
      BY <1>1, <1>8
    <3> QED BY SMTT(60), <1>3, <1>4, <1>7, <3>1 DEF QueuedNow
  <2>2. sent'[m] = sent[m] /\ KeptOn(m)
    BY <1>1, <1>8 DEF TypeOK
  <2> QED BY <1>4, <1>6, <1>8, <2>1, <2>2, SendOthers
<1>9. NodeInv(n)'
  <2>1. NodeInv(n) /\ HeldInv(n) /\ LostInv(n)
    BY DEF LeaseInv, NodeInv
  <2>2. Follows(n, Entry(n)) /\ Entry(n) \in Held
    BY <2>1, EntryFollows, EntryType
  <2>3. sent'[n] = k /\ queue'[n] = queue[n]
    BY <1>1 DEF TypeOK
  <2>4. \A q \in queue'[n] :
          q.reading <= router'.readings /\ (q.reading >= sent'[n] => Clean(n, q.list, place'))
    <3>1. \A q \in queue[n] : q.reading \in Nat /\ q.reading <= router.readings
      BY SMTT(60), <2>1 DEF TypeOK, Queued, HeldInv
    <3> QED BY SMTT(60), <1>3, <1>4, <2>3, <3>1
  <2>5. sent'[n] <= router'.readings
    BY SMTT(60), <1>3, <1>4, <2>3
  <2>6. /\ \A g \in grants[n] : ~CanRun(lease[n], g, Clock(n))
        /\ ~Running(lease[n], Clock(n))
    BY <2>1 DEF LostInv
  <2>7. Clean(n, tn.list, place') /\ tn.ms <= router.term /\ tn.ms <= record'
    BY <1>4, <1>5, <1>7
  <2> QED BY <1>4, <1>5, <1>6, <2>1, <2>2, <2>4, <2>5, <2>6, <2>7, GrantSent
<1> QED BY <1>4, <1>8, <1>9 DEF LeaseInv

\* The failover's end (Router::fail_over_lapsed).
LEMMA FinishFailoverKeeps ==
    ASSUME TypeOK, TypeOK', LeaseInv, NEW n \in Nodes, FinishFailover(n)
    PROVE  LeaseInv'
<1>1. /\ now' = now /\ boot' = boot /\ lease' = lease /\ place' = place
      /\ GrantedAfter(n, place', withheld', turn[n].over) /\ turn[n].phase = "failover"
  BY DEF FinishFailover
<1>2. held[n].lost /\ turn[n].over \in Lists
  BY <1>1 DEF LeaseInv, NodeInv, HeldInv, TypeOK, Turn
<1>3. \A m \in Nodes : KeptOn(m)
  BY <1>1 DEF KeptOn
<1> QED BY <1>1, <1>2, <1>3, GrantedAfterKeeps

\* A tenant let go of is promoted elsewhere while its node has answered no
\* grant (Router::fail_over_held).
LEMMA HeldPassKeeps ==
    ASSUME TypeOK, TypeOK', LeaseInv, NEW n \in Nodes, HeldPass(n)
    PROVE  LeaseInv'
<1>1. /\ now' = now /\ boot' = boot /\ lease' = lease /\ held[n].lost
      /\ GrantedAfter(n, place', withheld', left'[n])
  BY DEF HeldPass
<1>2. left'[n] \in Lists
  BY DEF TypeOK
<1>3. \A t \in Tenants : place[t] # {n} => place'[t] = place[t]
  <2>1. PICK ready \in SUBSET left[n] :
          \E moved \in SUBSET {t \in ready : place[t] = {n}} :
            \E to \in [moved -> Places \ {n}] :
              place' = [t \in Tenants |-> IF t \in moved THEN {to[t]} ELSE place[t]]
    BY DEF HeldPass
  <2>2. PICK moved \in SUBSET {t \in ready : place[t] = {n}} :
          \E to \in [moved -> Places \ {n}] :
            place' = [t \in Tenants |-> IF t \in moved THEN {to[t]} ELSE place[t]]
    BY <2>1
  <2> QED BY <2>2
<1>4. \A m \in Nodes : m # n => KeptOn(m)
  BY <1>3 DEF KeptOn, Clean, Lists
<1> QED BY <1>1, <1>2, <1>4, GrantedAfterKeeps

\* What a round makes of the router and of n's record: whatever it counts by
\* moves on, or is as it was.
RoundOn(n, lower) ==
    /\ router'.proc = router.proc /\ router'.term = router.term /\ router'.led
    /\ router'.started = IF router.led THEN router.started ELSE now
    /\ router'.readings = router.readings + 1
    /\ lower => router.led
    /\ lower => router'.inherited = router.term /\ record' = router.term
    /\ ~lower => router'.inherited = Longest(router, record) /\ record' = record
    /\ held'[n].known
    /\ held'[n].acked = IF router.led /\ held[n].known THEN held[n].acked ELSE now
    /\ held'[n].own = held[n].own /\ held'[n].next = held[n].next
    /\ held'[n].ackedGrant = held[n].ackedGrant /\ held'[n].lost = held[n].lost

\* Router::round's bookkeeping: Leases::leading, know and lowerable.
LEMMA RoundCounts ==
    ASSUME TypeOK, TypeOK', LeaseInv, Round
    PROVE  /\ now' = now /\ boot' = boot /\ lease' = lease /\ grants' = grants
           /\ reply' = reply /\ place' = place /\ turn' = turn /\ sent' = sent
           /\ RecordInv'
           /\ \A n \in Nodes : QueuedNow(n)
           /\ \E lower \in BOOLEAN :
                /\ \A n \in Nodes : RoundOn(n, lower)
                /\ lower => now - router.started > Lapse(router.inherited)
<1>1. /\ now' = now /\ boot' = boot /\ lease' = lease /\ grants' = grants
      /\ reply' = reply /\ place' = place /\ turn' = turn /\ sent' = sent
  BY DEF Round, nodeVars
<1> DEFINE wh == IF router.led THEN withheld ELSE [n \in Nodes |-> {}]
           r(lower) == [Leading EXCEPT !.inherited = IF lower THEN router.term ELSE @,
                                       !.readings = @ + 1]
<1>2. PICK lower \in BOOLEAN :
        /\ lower => Lowerable(Leading)
        /\ record' = IF lower THEN router.term ELSE record
        /\ router' = r(lower)
        /\ held' = [n \in Nodes |->
                      [RoundEntry(n) EXCEPT !.granting = TRUE,
                                  !.failing = @ \/ Suspect(RoundEntry(n), r(lower))]]
        /\ queue' = [n \in Nodes |->
                       IF held[n].granting THEN queue[n]
                       ELSE queue[n] \cup {[list |-> Primaries(n, place, wh),
                                            reading |-> r(lower).readings, round |-> TRUE]}]
  BY DEF Round
<1>3. /\ router \in RouterState /\ record \in Nat /\ now \in Nat /\ router.term \in Nat
      /\ router.term \in Terms /\ router.readings \in Nat
      /\ record \in Terms \cup {0} /\ router.inherited \in Terms
      /\ router.inherited >= router.term /\ 0 \notin Terms /\ Terms \subseteq Nat
  BY LeasingAssumption DEF TypeOK, RouterState, LeasingAssumption, LeaseInv, RecordInv
<1>4. /\ Leading.proc = router.proc /\ Leading.term = router.term /\ Leading.led
      /\ Leading.started = IF router.led THEN router.started ELSE now
      /\ Leading.inherited = Longest(router, record)
      /\ Leading.readings = router.readings /\ Leading.recorded = router.recorded
      /\ Leading \in [proc : Nat, term : Terms, holder : Holder, led : BOOLEAN,
                      started : Nat, inherited : Nat, recorded : BOOLEAN,
                      granting : Nat, readings : Nat]
  <2>1. CASE router.led
    BY <1>3, <2>1 DEF Leading, Longest, RouterState
  <2>2. CASE ~router.led
    BY <1>3, <2>2 DEF Leading, Longest, RouterState
  <2> QED BY <2>1, <2>2
<1>5. /\ router'.proc = router.proc /\ router'.term = router.term /\ router'.led
      /\ router'.started = IF router.led THEN router.started ELSE now
      /\ router'.inherited = IF lower THEN router.term ELSE Longest(router, record)
      /\ router'.readings = router.readings + 1 /\ router'.recorded = router.recorded
  BY <1>2, <1>4
<1>6. lower => router.led /\ now - router.started > Lapse(router.inherited)
  <2> SUFFICES ASSUME lower PROVE router.led /\ now - router.started > Lapse(router.inherited)
    OBVIOUS
  <2>1. now - Leading.started > Lapse(Leading.inherited)
    BY <1>2 DEF Lowerable
  <2>2. router.led
    <3>1. SUFFICES ASSUME ~router.led PROVE FALSE
      OBVIOUS
    <3>2. Leading.inherited \in Nat
      BY <1>3, <1>4
    <3>3. Lapse(Leading.inherited) >= 0
      BY SMTT(60), <3>2, LeasingAssumption DEF Lapse, LeasingAssumption
    <3>4. now - Leading.started = 0
      BY SMTT(60), <1>3, <1>4, <3>1
    <3>5. Lapse(Leading.inherited) \in Int
      BY SMTT(60), <3>2, LeasingAssumption DEF Lapse, LeasingAssumption
    <3> QED BY SMTT(60), <2>1, <3>3, <3>4, <3>5
  <2>3. Leading = router
    BY <2>2 DEF Leading
  <2> QED BY <2>1, <2>2, <2>3
<1> HIDE DEF wh, r
<1>7. RecordInv'
  <2>1. Longest(router, record) \in Terms /\ Longest(router, record) >= router.term
    BY SMTT(60), <1>3 DEF Longest
  <2>2. router.recorded => record >= router.term
    BY DEF LeaseInv, RecordInv
  <2>3. record' = IF lower THEN router.term ELSE record
    BY <1>2
  <2>4. record' \in Terms \cup {0} /\ (router'.recorded => record' >= router'.term)
    BY SMTT(60), <1>3, <1>5, <2>2, <2>3
  <2>5. router'.inherited \in Terms /\ router'.inherited >= router'.term
    BY SMTT(60), <1>3, <1>5, <2>1
  <2> QED BY <2>4, <2>5 DEF RecordInv
<1>8. ASSUME NEW n \in Nodes PROVE QueuedNow(n)
  <2>1. \A q \in queue'[n] :
          q \in queue[n] \/ q = [list |-> Primaries(n, place, wh),
                                 reading |-> router'.readings, round |-> TRUE]
    BY <1>2
  <2>2. Clean(n, Primaries(n, place, wh), place')
    BY <1>1, PrimariesClean
  <2>3. router'.readings <= router'.readings
    BY SMTT(60), <1>3, <1>5
  <2> QED BY SMTT(60), <2>1, <2>2, <2>3 DEF QueuedNow
<1>9. ASSUME NEW n \in Nodes PROVE RoundOn(n, lower)
  <2>1. held[n] \in Held /\ HeldInv(n)
    BY DEF TypeOK, LeaseInv, NodeInv
  <2>2. /\ RoundEntry(n).known
        /\ RoundEntry(n).acked = IF router.led /\ held[n].known THEN held[n].acked ELSE now
        /\ RoundEntry(n).own = held[n].own /\ RoundEntry(n).next = held[n].next
        /\ RoundEntry(n).ackedGrant = held[n].ackedGrant
        /\ RoundEntry(n).lost = held[n].lost
        /\ RoundEntry(n) \in Held
    <3>1. Entry(n) \in Held
      BY EntryType
    <3>2. CASE held[n].known
      <4>1. Entry(n) = held[n]
        BY <3>2 DEF Entry
      <4> QED BY <1>3, <2>1, <3>2, <4>1 DEF RoundEntry, Held
    <3>3. CASE ~held[n].known
      <4>1. Entry(n) = FreshHeld /\ held[n] = UnknownHeld
        BY <2>1, <3>3 DEF Entry, HeldInv
      <4>2. RoundEntry(n) = FreshHeld
        <5>1. [FreshHeld EXCEPT !.acked = now] = FreshHeld
          <6>1. FreshHeld \in Held /\ FreshHeld.acked = now
            BY <3>1, <4>1 DEF FreshHeld
          <6> HIDE DEF FreshHeld
          <6> QED BY <6>1 DEF Held
        <5>2. RoundEntry(n) = Entry(n) \/ RoundEntry(n) = [Entry(n) EXCEPT !.acked = now]
          BY DEF RoundEntry
        <5> QED BY <4>1, <5>1, <5>2
      <4> QED BY SMTT(60), <3>1, <3>3, <4>1, <4>2 DEF FreshHeld, UnknownHeld
    <3> QED BY <3>2, <3>3
  <2>3. /\ held'[n].known = RoundEntry(n).known /\ held'[n].acked = RoundEntry(n).acked
        /\ held'[n].own = RoundEntry(n).own /\ held'[n].next = RoundEntry(n).next
        /\ held'[n].ackedGrant = RoundEntry(n).ackedGrant
        /\ held'[n].lost = RoundEntry(n).lost
    BY <1>2, <2>2 DEF Held
  <2> QED BY <1>2, <1>5, <1>6, <2>2, <2>3 DEF RoundOn
<1> QED BY <1>1, <1>6, <1>7, <1>8, <1>9

\* A round counts every node as granted no earlier, and lowers the record only
\* once no earlier process's lease can run (Router::round, Leases::lowerable).
LEMMA RoundKeeps ==
    ASSUME TypeOK, TypeOK', LeaseInv, Round
    PROVE  LeaseInv'
<1>1. /\ now' = now /\ boot' = boot /\ lease' = lease /\ grants' = grants
      /\ reply' = reply /\ place' = place /\ turn' = turn /\ sent' = sent
      /\ RecordInv' /\ \A n \in Nodes : QueuedNow(n)
  BY RoundCounts
<1>2. PICK lower \in BOOLEAN :
        /\ \A n \in Nodes : RoundOn(n, lower)
        /\ lower => now - router.started > Lapse(router.inherited)
  BY RoundCounts
<1>3. ASSUME NEW n \in Nodes PROVE NodeInv(n)'
  <2>1. /\ ClocksInv(n) /\ HeldInv(n) /\ NumbersInv(n) /\ AnswersInv(n) /\ RecordInv
        /\ GrantTermsInv(n) /\ LeaseTermInv(n) /\ LostInv(n) /\ ListsInv(n)
    BY DEF LeaseInv, NodeInv
  <2>2. RoundOn(n, lower)
    BY <1>2
  <2>3. /\ now \in Nat /\ Clock(n) \in Nat /\ Counted(n) \in Nat /\ Started(n) \in Nat
        /\ Since(held[n], router) \in 0 .. now /\ router.started \in 0 .. now
        /\ Started(n) <= Counted(n) /\ Counted(n) <= Clock(n)
        /\ router.term \in Nat /\ router.term \in Terms /\ record \in Nat
        /\ Longest(router, record) \in Nat /\ lease[n] \in LeaseState
        /\ lease[n].until \in Nat /\ \A b \in lease[n].basis : b.at \in Nat
        /\ \A a \in lease[n].answered : a.at \in Nat
        /\ \A g \in grants[n] : g \in Grant /\ g.ms \in Nat
    BY <2>1, Numeric
  <2> DEFINE since == Since(held[n], router)'
  <2>4. /\ since \in 0 .. now /\ Since(held[n], router) <= since
        /\ router'.started \in 0 .. now /\ router.started <= router'.started
        /\ router'.started <= since
    <3>1. since = IF router.led /\ held[n].known THEN held[n].acked ELSE now
      BY <2>2 DEF Since, RoundOn
    <3>2. router'.started = IF router.led THEN router.started ELSE now
      BY <2>2 DEF RoundOn
    <3>3. held[n].known => Since(held[n], router) = held[n].acked
      BY DEF Since
    <3> QED BY SMTT(60), <2>1, <2>3, <3>1, <3>2, <3>3 DEF ClocksInv
  <2>5. Clock(n)' = Clock(n) /\ Counted(n)' = boot[n][since] /\ Started(n)' = boot[n][router'.started]
    BY <1>1 DEF Clock, Counted, Started
  <2> HIDE DEF since
  <2>6. /\ Counted(n)' \in Nat /\ Started(n)' \in Nat
        /\ Counted(n) <= Counted(n)' /\ Started(n) <= Started(n)'
    <3>1. boot[n] \in [0 .. now -> Nat]
      BY DEF TypeOK
    <3> QED BY <2>1, <2>3, <2>4, <2>5, <3>1 DEF ClocksInv, Counted, Started
  <2>7. \A g : Old(g, router)' <=> Old(g, router)
    BY <2>2 DEF Old, RoundOn
  <2>8. Longest(router', record') = IF lower THEN router.term ELSE Longest(router, record)
    BY <2>2 DEF RoundOn, Longest
  <2>9. lower => Started(n) + Longest(router, record) <= Clock(n)
    <3>1. SUFFICES ASSUME lower PROVE Started(n) + Longest(router, record) <= Clock(n)
      OBVIOUS
    <3>2. Longest(router, record) = router.inherited /\ router.inherited \in Terms
      <4>1. router.led /\ router.inherited \in Terms
        BY <2>1, <2>2, <3>1 DEF RoundOn, RecordInv
      <4> QED BY <4>1 DEF Longest
    <3> QED BY <1>2, <2>1, <2>3, <3>1, <3>2, LapseOnClock DEF Started
  <2>10. ClocksInv(n)'
    <3>1. Since(held[n], router)' = since
      BY DEF since
    <3> QED BY SMTT(60), <1>1, <2>1, <2>3, <2>4, <2>5, <3>1 DEF ClocksInv, ClockKept
  <2>11. HeldInv(n)'
    <3>1. router.readings \in Nat /\ sent[n] \in Nat /\ turn[n].ms \in Nat
      BY DEF TypeOK, RouterState, Turn
    <3>2. \A q \in queue[n] : q.reading \in Nat
      BY SMTT(60) DEF TypeOK, Queued
    <3>3. router'.readings = router.readings + 1 /\ router'.readings \in Nat
      BY SMTT(60), <2>2, <3>1 DEF RoundOn
    <3>4. /\ sent[n] <= router.readings /\ \A q \in queue[n] : q.reading <= router.readings
          /\ turn[n].phase = "waiting" => turn[n].ms <= router.term /\ turn[n].ms <= record
      BY <2>1 DEF HeldInv
    <3>5. \A k \in Nat : k <= router.readings => k <= router'.readings
      BY SMTT(60), <3>1, <3>3
    <3>7. \A q \in queue'[n] : q.reading <= router'.readings \/ q \in queue[n]
      BY <1>1 DEF QueuedNow
    <3>8. \A q \in queue'[n] : q.reading <= router'.readings
      BY <3>2, <3>3, <3>4, <3>5, <3>7
    <3>9. sent'[n] <= router'.readings
      BY <1>1, <3>1, <3>4, <3>5
    <3>10. turn[n].phase = "waiting" => turn[n].ms <= router'.term /\ turn[n].ms <= record'
      BY <2>2, <3>4 DEF RoundOn
    <3>6. /\ held'[n].known /\ router'.led /\ held'[n].lost = held[n].lost
      BY <2>2 DEF RoundOn
    <3> QED BY <1>1, <2>1, <3>6, <3>8, <3>9, <3>10 DEF HeldInv
  <2>12. NumbersInv(n)'
    <3>1. /\ router'.proc = router.proc /\ held'[n].next = held[n].next
          /\ held'[n].ackedGrant = held[n].ackedGrant
      BY <2>2 DEF RoundOn
    <3> QED BY <1>1, <2>1, <2>7, <3>1 DEF NumbersInv
  <2>13. AnswersInv(n)'
    <3>1. \A a \in lease[n].answered : a.grant \in held[n].ackedGrant => a.at <= Counted(n)'
      BY <2>1, <2>3, <2>6, SumGrows DEF AnswersInv
    <3>2. \A a \in lease[n].answered : \A g \in grants[n] : a.grant \in g.acked =>
            /\ a.at <= Counted(n)'
            /\ Old(g, router) =>
                /\ a.at <= Started(n)'
                /\ \A c \in lease[n].answered : c.grant[1] = router.proc => a.at < c.at
      <4> SUFFICES ASSUME NEW a \in lease[n].answered, NEW g \in grants[n], a.grant \in g.acked
                   PROVE  /\ a.at <= Counted(n)'
                          /\ Old(g, router) =>
                              /\ a.at <= Started(n)'
                              /\ \A c \in lease[n].answered : c.grant[1] = router.proc => a.at < c.at
        OBVIOUS
      <4>1. /\ a.at <= Counted(n)
            /\ Old(g, router) =>
                /\ a.at <= Started(n)
                /\ \A c \in lease[n].answered : c.grant[1] = router.proc => a.at < c.at
        BY <2>1 DEF AnswersInv
      <4>2. /\ Counted(n) \in Nat /\ Started(n) \in Nat /\ a.at \in Nat
            /\ Counted(n)' \in Nat /\ Started(n)' \in Nat
            /\ Counted(n) <= Counted(n)' /\ Started(n) <= Started(n)'
        BY <2>3, <2>6
      <4>3. /\ a.at <= Counted(n) => a.at <= Counted(n)'
            /\ a.at <= Started(n) => a.at <= Started(n)'
        BY SMTT(60), <4>2
      <4> QED BY <4>1, <4>3
    <3>3. router'.proc = router.proc /\ held'[n].ackedGrant = held[n].ackedGrant
      BY <2>2 DEF RoundOn
    <3> QED BY <1>1, <2>7, <3>1, <3>2, <3>3 DEF AnswersInv
  <2>14. GrantTermsInv(n)'
    <3> SUFFICES ASSUME NEW g \in grants[n], CanRun(lease[n], g, Clock(n))
                 PROVE  /\ g.ms <= record'
                        /\ ~Old(g, router) => g.ms <= router'.term
                        /\ Old(g, router) => /\ ~held'[n].own /\ ~RanReply(reply[n])
                                             /\ g.ms <= Longest(router', record')
      BY <1>1, <2>5, <2>7 DEF GrantTermsInv
    <3>1. /\ g.ms <= record
          /\ ~Old(g, router) => g.ms <= router.term
          /\ Old(g, router) => /\ ~held[n].own /\ ~RanReply(reply[n])
                               /\ g.ms <= Longest(router, record)
      BY <2>1 DEF GrantTermsInv
    <3>2. lower => ~Old(g, router)
      <4>1. SUFFICES ASSUME lower, Old(g, router) PROVE FALSE
        OBVIOUS
      <4>2. PICK a \in lease[n].answered : a.grant \in g.acked /\ a.at + g.ms > Clock(n)
        BY <2>3, CanRunFrom
      <4>3. a.at <= Started(n)
        BY <2>1, <4>1, <4>2 DEF AnswersInv
      <4>4. a.at \in Nat /\ g.ms \in Nat
        BY <2>3
      <4>5. Started(n) \in Nat /\ Longest(router, record) \in Nat /\ Clock(n) \in Nat
        BY <2>3
      <4> QED BY SMTT(60), <2>9, <3>1, <4>1, <4>2, <4>3, <4>4, <4>5
    <3>3. /\ router'.term = router.term /\ held'[n].own = held[n].own
          /\ lower => record' = router.term
          /\ ~lower => record' = record
      BY <2>2 DEF RoundOn
    <3> QED BY <2>8, <3>1, <3>2, <3>3
  <2>15. LeaseTermInv(n)'
    <3> SUFFICES ASSUME Running(lease[n], Clock(n)) PROVE RunsOwn(n)' \/ RunsOld(n)'
      BY <1>1, <2>5 DEF LeaseTermInv
    <3>1. /\ router'.term = router.term /\ held'[n].own = held[n].own
          /\ lower => record' = router.term
          /\ ~lower => record' = record
      BY <2>2 DEF RoundOn
    <3>2. RunsOwn(n) => RunsOwn(n)'
      BY SMTT(60), <1>1, <2>3, <2>6, <3>1 DEF RunsOwn
    <3>3. RunsOld(n) => RunsOld(n)'
      <4>1. CASE lower
        <5>1. Clock(n) < lease[n].until
          BY DEF Running
        <5>2. RunsOld(n) => lease[n].until <= Started(n) + Longest(router, record)
          BY DEF RunsOld
        <5>3. /\ Started(n) \in Nat /\ Longest(router, record) \in Nat /\ Clock(n) \in Nat
              /\ lease[n].until \in Nat
          BY <2>3
        <5> QED BY SMTT(60), <2>9, <4>1, <5>1, <5>2, <5>3
      <4>2. CASE ~lower
        BY SMTT(60), <1>1, <2>3, <2>6, <2>8, <3>1, <4>2 DEF RunsOld
      <4> QED BY <4>1, <4>2
    <3> QED BY <2>1, <3>2, <3>3 DEF LeaseTermInv
  <2>16. LostInv(n)'
    <3> SUFFICES ASSUME held[n].lost PROVE LostInv(n)'
      BY <2>2 DEF LostInv, RoundOn
    <3>1. router.led /\ held[n].known
      BY <2>1 DEF HeldInv
    <3>2. Counted(n)' = Counted(n)
      <4>1. since = held[n].acked /\ Since(held[n], router) = held[n].acked
        BY <2>2, <3>1 DEF since, Since, RoundOn
      <4> QED BY <2>5, <4>1 DEF Counted
    <3>3. router'.term = router.term
      BY <2>2 DEF RoundOn
    <3> QED BY <1>1, <2>1, <2>5, <3>2, <3>3 DEF LostInv
  <2>17. ListsInv(n)'
    BY <1>1, <2>1, <2>5 DEF ListsInv, QueuedNow
  <2> QED BY <2>10, <2>11, <2>12, <2>13, <2>14, <2>15, <2>16, <2>17 DEF NodeInv
<1> QED BY <1>1, <1>3 DEF LeaseInv

-----------------------------------------------------------------------------
(* A turn, an answer heard, a grant read, and another router.              *)

\* A turn let go of keeps n's part of the invariant (Router::grant_held's end).
LEMMA TurnEnds ==
    ASSUME TypeOK, TypeOK', NEW n \in Nodes, NodeInv(n), NEW h \in Held, Follows(n, h),
           now' = now, boot' = boot, SameRouter, KeptOn(n), QueuedNow(n),
           lease'[n] = lease[n], reply'[n] = {}, grants'[n] = grants[n],
           sent'[n] = sent[n], turn'[n] = FreeTurn, turn[n].phase = "waiting",
           NEW b \in BOOLEAN, held'[n] = [h EXCEPT !.granting = b]
    PROVE  NodeInv(n)'
<1>1. /\ held'[n].known = h.known /\ held'[n].acked = h.acked /\ held'[n].own = h.own
      /\ held'[n].next = h.next /\ held'[n].ackedGrant = h.ackedGrant
      /\ held'[n].lost = h.lost /\ held'[n].failing = h.failing
  BY DEF Held
<1>2. held'[n].known /\ turn'[n].phase = "free"
  BY SMTT(60), <1>1 DEF Follows, FreeTurn
<1>3. /\ Clock(n)' = Clock(n) /\ Started(n)' = Started(n)
      /\ Counted(n)' = boot[n][h.acked] /\ Counted(n) <= boot[n][h.acked]
      /\ boot[n][h.acked] \in Nat /\ ClocksInv(n)'
  BY <1>1, <1>2, FollowsKeeps
<1>4. ClocksInv(n)
  BY DEF NodeInv
<1>5. \A g : Old(g, router)' <=> Old(g, router)
  BY DEF Old, SameRouter
<1>6. HeldInv(n)'
  <2>1. sent[n] \in Nat /\ router.readings \in Nat /\ router'.readings \in Nat
    BY DEF TypeOK, RouterState
  <2>2. \A q \in queue[n] : q.reading \in Nat
    BY SMTT(60) DEF TypeOK, Queued
  <2>3. sent'[n] <= router'.readings /\ \A q \in queue'[n] : q.reading <= router'.readings
    BY SMTT(60), <2>1, <2>2 DEF NodeInv, HeldInv, SameRouter, QueuedNow
  <2>4. held'[n].lost \/ held'[n].failing => router'.led /\ held'[n].known
    BY <1>1 DEF NodeInv, HeldInv, SameRouter, Follows
  <2> QED BY <1>2, <2>3, <2>4 DEF HeldInv
<1>7. NumbersInv(n)'
  BY SMTT(60), <1>1, <1>2, <1>5 DEF NodeInv, NumbersInv, SameRouter, Follows
<1>8. AnswersInv(n)'
  <2>1. \A a \in lease[n].answered : a.at \in Nat
    BY <1>4, Numeric
  <2>2. Counted(n) \in Nat
    BY <1>4, Numeric
  <2> QED BY SMTT(60), <1>1, <1>3, <1>5, <2>1, <2>2 DEF NodeInv, AnswersInv, SameRouter, Follows
<1>9. GrantTermsInv(n)'
  BY <1>1, <1>2, <1>3, FollowsBounds DEF GrantTermsInv
<1>10. LeaseTermInv(n)'
  BY <1>1, <1>2, FollowsLeaseTerm
<1>11. LostInv(n)'
  <2>1. h.lost => held[n].lost /\ Counted(n) = boot[n][h.acked]
    BY DEF Follows, Counted
  <2> QED BY <1>1, <1>3, <2>1 DEF NodeInv, LostInv, SameRouter
<1>12. ListsInv(n)'
  <2>1. \A q \in queue[n] : q.list \in Lists
    BY SMTT(60) DEF TypeOK, Queued
  <2>2. \A g \in grants[n] : g.list \in Lists
    BY SMTT(60) DEF TypeOK, Grant
  <2>3. \A list \in lease[n].list : list \in Lists
    BY DEF TypeOK, LeaseState, Option
  <2> QED BY <1>2, <1>3, <2>1, <2>2, <2>3 DEF NodeInv, ListsInv, KeptOn, QueuedNow
<1> QED BY <1>3, <1>6, <1>7, <1>8, <1>9, <1>10, <1>11, <1>12 DEF NodeInv

\* So does the record once an answer was heard (Leases::answered): what is
\* acknowledged from here on was read before now.
LEMMA AnswerFollows ==
    ASSUME TypeOK, NEW n \in Nodes, NodeInv(n), turn[n].phase = "waiting",
           NEW a \in reply[n]
    PROVE  Follows(n, AfterAnswer(n, a)) /\ AfterAnswer(n, a) \in Held
<1> DEFINE h == AfterAnswer(n, a)
<1>1. ClocksInv(n) /\ HeldInv(n) /\ NumbersInv(n) /\ AnswersInv(n)
  BY DEF NodeInv
<1>2. held[n].known /\ Since(held[n], router) = held[n].acked
  BY <1>1 DEF HeldInv, Since
<1>3. a \in Reply /\ held[n] \in Held /\ turn[n] \in Turn
  BY DEF TypeOK, Option
<1>4. held[n].acked \in Nat /\ now \in Nat /\ held[n].acked <= now
  BY <1>1, <1>2, <1>3 DEF Held, TypeOK, ClocksInv
<1>5. a.kind \in {"taken", "kept", "needs_list", "superseded"} /\ a.ran \in BOOLEAN
  BY <1>3 DEF Reply
<1>6. turn[n].grant \in Number /\ turn[n].list \in Lists
  BY <1>3 DEF Turn
<1>7. CASE a.kind \in {"taken", "kept"}
  <2>1. /\ h.known = held[n].known /\ h.next = held[n].next /\ h.acked = now
        /\ h.ackedGrant = {turn[n].grant} /\ h.lost = FALSE
        /\ h.failing = held[n].failing
        /\ h.own => held[n].own \/ a.ran
    BY <1>3, <1>5, <1>7 DEF AfterAnswer, Held
  <2>2. h \in Held
    <3>1. CASE a.kind = "taken"
      BY <1>3, <1>4, <1>5, <1>6, <3>1 DEF AfterAnswer, Held, Option
    <3>2. CASE a.kind = "kept"
      BY <1>3, <1>4, <1>6, <3>2 DEF AfterAnswer, Held, Option
    <3> QED BY <1>7, <3>1, <3>2
  <2> HIDE DEF h
  <2>3. \A g \in grants[n] : g.grant \notin h.ackedGrant
    BY <1>1, <2>1 DEF NumbersInv
  <2>4. \A x \in h.ackedGrant : x[1] = router.proc /\ x[2] < h.next
    BY <1>1, <2>1 DEF NumbersInv
  <2>5. \A e \in lease[n].answered : e.at <= boot[n][h.acked]
    BY <1>1, <2>1 DEF ClocksInv, Clock
  <2>6. h.own => held[n].own \/ RanReply(reply[n])
    BY <2>1 DEF RanReply
  <2> QED BY SMTT(60), <1>2, <1>4, <2>1, <2>2, <2>3, <2>4, <2>5, <2>6 DEF Follows, h
<1>8. CASE a.kind \in {"needs_list", "superseded"}
  <2>1. /\ h.known = held[n].known /\ h.next = held[n].next /\ h.acked = held[n].acked
        /\ h.ackedGrant = held[n].ackedGrant /\ h.lost = held[n].lost
        /\ h.failing = held[n].failing /\ h.own = held[n].own
    BY <1>3, <1>8 DEF AfterAnswer, Held
  <2>2. h \in Held
    <3>1. CASE a.kind = "needs_list"
      BY <1>3, <3>1 DEF AfterAnswer, Held, Option
    <3>2. CASE a.kind = "superseded"
      BY <1>3, <3>2 DEF AfterAnswer, Held, Option
    <3> QED BY <1>8, <3>1, <3>2
  <2> HIDE DEF h
  <2>3. \A g \in grants[n] : g.grant \notin h.ackedGrant
    BY <1>1, <2>1 DEF NumbersInv
  <2>4. \A x \in h.ackedGrant : x[1] = router.proc /\ x[2] < h.next
    BY <1>1, <2>1 DEF NumbersInv
  <2>5. \A e \in lease[n].answered : e.grant \in h.ackedGrant => e.at <= boot[n][h.acked]
    BY <1>1, <1>2, <2>1 DEF AnswersInv, Counted
  <2> QED BY SMTT(60), <1>2, <1>4, <2>1, <2>2, <2>3, <2>4, <2>5 DEF Follows, h
<1> QED BY <1>5, <1>7, <1>8

-----------------------------------------------------------------------------
(* What a turn leaves as it was.                                           *)

\* Letting a turn go keeps the invariant, the node granted again or not.
LEMMA EndTurnKeeps ==
    ASSUME TypeOK, TypeOK', LeaseInv, NEW n \in Nodes, NEW h \in Held, Follows(n, h),
           NEW wh \in [Nodes -> Lists], NEW back \in BOOLEAN, EndTurn(n, h, wh, back),
           turn[n].phase = "waiting", now' = now, boot' = boot, lease' = lease,
           place' = place, record' = record, sent' = sent
    PROVE  LeaseInv'
<1>1. /\ router' = router \/ router' = [router EXCEPT !.readings = router.readings + 1]
      /\ router'.readings >= router.readings
  <2>1. router' = router \/ router' = [router EXCEPT !.readings = router.readings + 1]
    BY DEF EndTurn
  <2>2. router.readings \in Nat /\ router \in RouterState
    BY DEF TypeOK, RouterState
  <2>3. router'.readings = router.readings \/ router'.readings = router.readings + 1
    BY <2>1, <2>2 DEF RouterState
  <2> QED BY SMTT(60), <2>1, <2>2, <2>3
<1>2. SameRouter /\ RecordInv'
  <2>1. /\ router'.proc = router.proc /\ router'.term = router.term
        /\ router'.led = router.led /\ router'.started = router.started
        /\ router'.inherited = router.inherited /\ router'.recorded = router.recorded
    BY <1>1 DEF TypeOK, RouterState
  <2>2. record' >= record
    BY SMTT(60) DEF TypeOK
  <2>3. Longest(router', record') = Longest(router, record)
    BY <2>1 DEF Longest
  <2> QED BY <1>1, <2>1, <2>2, <2>3 DEF SameRouter, LeaseInv, RecordInv
<1>3. ASSUME NEW m \in Nodes, m # n PROVE NodeInv(m)'
  BY <1>2, <1>3, EndOthers
<1>4. NodeInv(n)'
  <2>1. KeptOn(n)
    BY DEF KeptOn
  <2>2. QueuedNow(n)
    <3>1. CASE back
      <4>1. /\ queue' = [queue EXCEPT ![n] = @ \cup
                           {[list |-> Primaries(n, place, wh), round |-> FALSE,
                             reading |-> router.readings + 1]}]
            /\ router' = [router EXCEPT !.readings = router.readings + 1]
        BY <3>1 DEF EndTurn
      <4>2. router'.readings = router.readings + 1 /\ router.readings + 1 \in Nat
        BY <4>1 DEF TypeOK, RouterState
      <4>3. Clean(n, Primaries(n, place, wh), place')
        BY DEF Clean, Primaries
      <4> QED BY SMTT(60), <4>1, <4>2, <4>3 DEF QueuedNow, TypeOK
    <3>2. CASE ~back
      BY <3>2 DEF EndTurn, QueuedNow
    <3> QED BY <3>1, <3>2
  <2>3. /\ turn'[n] = FreeTurn /\ reply'[n] = {} /\ grants'[n] = grants[n]
        /\ held'[n] = [h EXCEPT !.granting = h.granting /\ ~turn[n].round]
    BY DEF EndTurn, TypeOK
  <2>4. (h.granting /\ ~turn[n].round) \in BOOLEAN
    OBVIOUS
  <2>5. NodeInv(n)
    BY DEF LeaseInv
  <2> QED BY <1>2, <2>1, <2>2, <2>3, <2>4, <2>5, TurnEnds
<1> QED BY <1>2, <1>3, <1>4 DEF LeaseInv

\* A grant queued is sent, or dropped where a newer list was (Router::grant).
LEMMA TakeTurnKeeps ==
    ASSUME TypeOK, TypeOK', LeaseInv, NEW n \in Nodes, TakeTurn(n)
    PROVE  LeaseInv'
<1>1. PICK q \in queue[n] :
        /\ queue' = [queue EXCEPT ![n] = @ \ {q}]
        /\ \/ /\ q.reading < sent[n]
              /\ held' = [held EXCEPT ![n].granting = @ /\ ~q.round]
              /\ UNCHANGED <<router, record, sent, grants, reply, turn>>
           \/ /\ q.reading >= sent[n]
              /\ sent' = [sent EXCEPT ![n] = q.reading]
              /\ \E ms \in {router.term, record} :
                    GrantTerm(router, ms) /\ StartGrant(n, q.list, ms, q.round, {})
  BY DEF TakeTurn
<1>2. /\ now' = now /\ boot' = boot /\ lease' = lease /\ place' = place
      /\ turn[n].phase = "free"
  BY DEF TakeTurn
<1>3. \A m \in Nodes : NodeInv(m) /\ KeptOn(m) /\ queue'[m] \subseteq queue[m]
  BY <1>1, <1>2 DEF LeaseInv, KeptOn, TypeOK
<1>4. \A m \in Nodes : QueuedNow(m)
  BY <1>3 DEF QueuedNow
<1>5. CASE /\ held' = [held EXCEPT ![n].granting = @ /\ ~q.round]
           /\ UNCHANGED <<router, record, sent, grants, reply, turn>>
  <2>1. SameRouter /\ RecordInv'
    BY <1>5, RouterKept DEF LeaseInv, RecordInv
  <2>2. ASSUME NEW m \in Nodes PROVE SameHeld(m)
    <3>1. held[m] \in Held /\ HeldInv(m)
      BY <1>3 DEF TypeOK, NodeInv
    <3>2. CASE m # n
      <4>1. held'[m] = held[m]
        BY <1>5, <3>2 DEF TypeOK
      <4> QED BY <3>1, <4>1 DEF SameHeld, HeldInv
    <3>3. CASE m = n
      <4>1. held'[m] = [held[m] EXCEPT !.granting = @ /\ ~q.round]
        BY <1>5, <3>3 DEF TypeOK
      <4>2. ~held[m].known => held'[m] = UnknownHeld
        <5>1. SUFFICES ASSUME held[m] = UnknownHeld PROVE held'[m] = UnknownHeld
          BY <3>1 DEF HeldInv
        <5>2. (held[m].granting /\ ~q.round) = FALSE
          BY SMTT(60), <5>1 DEF UnknownHeld
        <5>3. held'[m] = [UnknownHeld EXCEPT !.granting = FALSE]
          BY <4>1, <5>1, <5>2
        <5> QED BY <5>3 DEF UnknownHeld
      <4> QED BY <3>1, <4>1, <4>2 DEF SameHeld, HeldInv, Held
    <3> QED BY <3>2, <3>3
  <2>3. \A m \in Nodes : NodeInv(m)'
    BY <1>2, <1>3, <1>4, <1>5, <2>1, <2>2, OtherNode
  <2> QED BY <2>1, <2>3 DEF LeaseInv
<1>6. CASE /\ q.reading >= sent[n]
           /\ sent' = [sent EXCEPT ![n] = q.reading]
           /\ \E ms \in {router.term, record} :
                 GrantTerm(router, ms) /\ StartGrant(n, q.list, ms, q.round, {})
  <2>1. PICK ms \in {router.term, record} :
          GrantTerm(router, ms) /\ StartGrant(n, q.list, ms, q.round, {})
    BY <1>6
  <2>2. /\ ms <= router.term /\ ms <= record' /\ SameRouter /\ RecordInv'
        /\ ms \in Nat
    <3>1. /\ router = [router EXCEPT !.readings = router.readings]
          /\ router.readings \in Nat
      BY DEF TypeOK, RouterState
    <3>2. ms \in Nat
      BY LeasingAssumption DEF TypeOK, RouterState, LeasingAssumption
    <3> QED BY SMTT(60), <2>1, <3>1, <3>2, GrantTermRecords DEF LeaseInv
  <2> DEFINE tn == [FreeTurn EXCEPT !.list = q.list, !.ms = ms, !.round = q.round,
                                    !.over = {}, !.with = (Entry(n).list # {q.list})]
  <2>3. q \in Queued /\ q.list \in Lists /\ q.round \in BOOLEAN
    BY SMTT(60) DEF TypeOK, Queued
  <2>4. tn \in Turn /\ tn.ms = ms /\ tn.list = q.list
    BY <2>2, <2>3, FreeTurnType DEF Turn, Lists
  <2>5. Send(n, Entry(n), tn)
    BY <2>1 DEF StartGrant
  <2> HIDE DEF tn
  <2>6. Follows(n, Entry(n)) /\ Entry(n) \in Held
    BY <1>3, EntryFollows, EntryType
  <2>7. NodeInv(n)'
    <3>1. ListsInv(n) /\ HeldInv(n)
      BY <1>3 DEF NodeInv
    <3>2. Clean(n, tn.list, place')
      BY <1>2, <1>6, <2>4, <3>1 DEF ListsInv
    <3>3. sent'[n] = q.reading /\ sent[n] \in Nat /\ q.reading \in Nat
      BY <1>6, <2>3 DEF TypeOK, Queued
    <3>4. \A p \in queue[n] : p.reading \in Nat
      BY SMTT(60) DEF TypeOK, Queued
    <3>5. router.readings \in Nat /\ router'.readings \in Nat
      BY DEF TypeOK, RouterState
    <3>a. \A p \in queue[n] :
            p.reading <= router.readings /\ (p.reading >= sent[n] => Clean(n, p.list, place))
      BY <1>2, <1>6, <3>1 DEF HeldInv, ListsInv
    <3>b. router'.readings >= router.readings
      BY <2>2 DEF SameRouter
    <3>6. sent'[n] <= router'.readings
      BY SMTT(60), <3>3, <3>5, <3>a, <3>b
    <3>7. \A p \in queue'[n] :
            p.reading <= router'.readings /\ (p.reading >= sent'[n] => Clean(n, p.list, place'))
      <4>1. queue'[n] \subseteq queue[n] /\ q.reading >= sent[n] /\ place' = place
        BY <1>2, <1>3, <1>6
      <4> QED BY SMTT(60), <3>3, <3>4, <3>5, <3>a, <3>b, <4>1
    <3>8. /\ \A g \in grants[n] : CanRun(lease[n], g, Clock(n)) => Clean(n, g.list, place')
          /\ Running(lease[n], Clock(n)) =>
                \A list \in lease[n].list : Clean(n, list, place')
      BY <1>2, <3>1 DEF ListsInv
    <3> QED BY <1>2, <1>3, <2>2, <2>4, <2>5, <2>6, <3>2, <3>6, <3>7, <3>8, GrantSent
  <2>8. ASSUME NEW m \in Nodes, m # n PROVE NodeInv(m)'
    <3>1. /\ held'[m] = held[m] /\ turn'[m] = turn[m] /\ grants'[m] = grants[m]
          /\ reply'[m] = reply[m] /\ sent'[m] = sent[m] /\ lease'[m] = lease[m]
      BY <1>2, <1>6, <2>5, <2>8 DEF Send, TypeOK
    <3>2. SameHeld(m)
      BY <1>3, <3>1 DEF SameHeld, NodeInv, HeldInv
    <3> QED BY <1>2, <1>3, <1>4, <2>2, <3>1, <3>2, OtherNode
  <2> QED BY <2>2, <2>7, <2>8 DEF LeaseInv
<1> QED BY <1>1, <1>5, <1>6

\* An answer heard, and what is sent after it (Router::grant_held).
LEMMA HearKeeps ==
    ASSUME TypeOK, TypeOK', LeaseInv, NEW n \in Nodes, Hear(n)
    PROVE  LeaseInv'
<1>1. PICK a \in reply[n] :
        LET h    == AfterAnswer(n, a)
            back == turn[n].back \/ (held[n].lost /\ ~h.lost)
            wh   == IF held[n].lost /\ ~h.lost
                    THEN [withheld EXCEPT ![n] = {}] ELSE withheld
            more == Again([turn[n] EXCEPT !.back = back], a)
        IN  /\ withheld' = wh
            /\ \/ \E tn \in more : Send(n, h, tn) /\ UNCHANGED <<router, queue, left>>
               \/ more = {} /\ EndTurn(n, h, wh, back)
  BY DEF Hear
<1> DEFINE h    == AfterAnswer(n, a)
           back == turn[n].back \/ (held[n].lost /\ ~h.lost)
           wh   == IF held[n].lost /\ ~h.lost
                   THEN [withheld EXCEPT ![n] = {}] ELSE withheld
           more == Again([turn[n] EXCEPT !.back = back], a)
<1>2. /\ now' = now /\ boot' = boot /\ lease' = lease /\ place' = place
      /\ record' = record /\ sent' = sent /\ turn[n].phase = "waiting"
  BY DEF Hear, dirVars
<1>3. NodeInv(n)
  BY DEF LeaseInv
<1>4. Follows(n, h) /\ h \in Held
  BY <1>2, <1>3, AnswerFollows
<1>5. back \in BOOLEAN /\ wh \in [Nodes -> Lists]
  BY DEF TypeOK, Turn, Lists
<1>6. \A tn \in more : tn \in Turn /\ tn.list = turn[n].list /\ tn.ms = turn[n].ms
  <2> DEFINE u == [turn[n] EXCEPT !.back = back]
  <2>1. u \in Turn /\ u.list = turn[n].list /\ u.ms = turn[n].ms
    <3>1. turn[n] \in Turn
      BY DEF TypeOK
    <3> QED BY <1>5, <3>1 DEF Turn
  <2> HIDE DEF u
  <2>2. \A tn \in Again(u, a) : tn \in Turn /\ tn.list = u.list /\ tn.ms = u.ms
    <3>1. /\ [u EXCEPT !.with = TRUE] \in Turn
          /\ [u EXCEPT !.with = TRUE, !.followed = TRUE] \in Turn
          /\ [u EXCEPT !.with = FALSE, !.followed = TRUE] \in Turn
      BY <2>1 DEF Turn
    <3>2. /\ [u EXCEPT !.with = TRUE].list = u.list
          /\ [u EXCEPT !.with = TRUE, !.followed = TRUE].list = u.list
          /\ [u EXCEPT !.with = FALSE, !.followed = TRUE].list = u.list
          /\ [u EXCEPT !.with = TRUE].ms = u.ms
          /\ [u EXCEPT !.with = TRUE, !.followed = TRUE].ms = u.ms
          /\ [u EXCEPT !.with = FALSE, !.followed = TRUE].ms = u.ms
      BY <2>1 DEF Turn
    <3> QED BY <3>1, <3>2 DEF Again
  <2> QED BY <2>1, <2>2 DEF u
<1> HIDE DEF h, back, wh, more
<1>7. CASE EndTurn(n, h, wh, back)
  BY <1>2, <1>4, <1>5, <1>7, EndTurnKeeps
<1>8. ASSUME NEW tn \in more, Send(n, h, tn), UNCHANGED <<router, queue, left>>
      PROVE  LeaseInv'
  <2>1. SameRouter /\ RecordInv'
    BY <1>2, <1>8, RouterKept DEF LeaseInv, RecordInv
  <2>2. ASSUME NEW m \in Nodes, m # n PROVE NodeInv(m)'
    <3>1. KeptOn(m) /\ QueuedNow(m) /\ sent'[m] = sent[m]
      BY <1>2, <1>8 DEF KeptOn, QueuedNow
    <3> QED BY <1>2, <1>8, <2>1, <2>2, <3>1, SendOthers
  <2>3. NodeInv(n)'
    <3>1. HeldInv(n) /\ ListsInv(n)
      BY <1>3 DEF NodeInv
    <3>2. /\ tn \in Turn /\ tn.list = turn[n].list
          /\ tn.ms <= router.term /\ tn.ms <= record'
      BY <1>2, <1>6, <1>8, <3>1 DEF HeldInv
    <3>3. Clean(n, tn.list, place')
      BY <1>2, <3>1, <3>2 DEF ListsInv
    <3>4. sent'[n] <= router'.readings
      BY <1>2, <1>8, <3>1 DEF HeldInv
    <3>5. \A q \in queue'[n] :
            q.reading <= router'.readings /\ (q.reading >= sent'[n] => Clean(n, q.list, place'))
      BY <1>2, <1>8, <3>1 DEF HeldInv, ListsInv
    <3>6. /\ \A g \in grants[n] : CanRun(lease[n], g, Clock(n)) => Clean(n, g.list, place')
          /\ Running(lease[n], Clock(n)) =>
                \A list \in lease[n].list : Clean(n, list, place')
      BY <1>2, <3>1 DEF ListsInv
    <3> QED BY <1>2, <1>3, <1>4, <1>8, <2>1, <3>2, <3>3, <3>4, <3>5, <3>6, GrantSent
  <2> QED BY <2>1, <2>2, <2>3 DEF LeaseInv
<1> QED BY <1>1, <1>7, <1>8 DEF h, back, wh, more

\* A grant given up on: what the router knows of the node is as it was.
LEMMA GiveUpKeeps ==
    ASSUME TypeOK, TypeOK', LeaseInv, NEW n \in Nodes, GiveUp(n)
    PROVE  LeaseInv'
<1>1. /\ now' = now /\ boot' = boot /\ lease' = lease /\ place' = place
      /\ record' = record /\ sent' = sent /\ turn[n].phase = "waiting"
      /\ EndTurn(n, held[n], withheld, turn[n].back)
  BY DEF GiveUp, dirVars
<1>2. NodeInv(n)
  BY DEF LeaseInv
<1>3. Entry(n) = held[n] /\ held[n] \in Held
  BY <1>1, <1>2 DEF NodeInv, HeldInv, Entry, TypeOK
<1>4. Follows(n, held[n])
  BY <1>2, <1>3, EntryFollows
<1>5. withheld \in [Nodes -> Lists] /\ turn[n].back \in BOOLEAN
  BY DEF TypeOK, Turn
<1> QED BY <1>1, <1>3, <1>4, <1>5, EndTurnKeeps

\* Another router process leads: what its predecessors granted runs no longer
\* than the directory records (Leases::new, Leases::leading).
LEMMA NextRouterKeeps ==
    ASSUME TypeOK, TypeOK', LeaseInv, NextRouter
    PROVE  LeaseInv'
<1>1. /\ now' = now /\ boot' = boot /\ lease' = lease /\ grants' = grants
      /\ place' = place /\ record' = record
      /\ reply' = [n \in Nodes |-> {}] /\ held' = [n \in Nodes |-> UnknownHeld]
      /\ turn' = [n \in Nodes |-> FreeTurn] /\ sent' = [n \in Nodes |-> 0]
      /\ queue' = [n \in Nodes |-> {}]
  BY DEF NextRouter, dirVars
<1>2. PICK term \in Terms, forked \in {0, 1} :
        router' = NewRouter(router.proc + 1, term,
                            [term |-> router.holder.term + forked,
                             history |-> router.holder.history + forked])
  BY DEF NextRouter
<1>3. /\ router'.proc = router.proc + 1 /\ router'.term = term /\ router'.led = FALSE
      /\ router'.started = now /\ router'.inherited = term /\ router'.recorded = FALSE
      /\ router'.readings = 0
  BY <1>2 DEF NewRouter
<1>4. term \in Nat /\ record \in Nat /\ router.proc \in Nat
  BY LeasingAssumption DEF LeasingAssumption, TypeOK, RouterState
<1>5. RecordInv'
  BY SMTT(60), <1>1, <1>3, <1>4 DEF LeaseInv, RecordInv
<1>6. Longest(router', record') \in Nat /\ record <= Longest(router', record')
  BY SMTT(60), <1>1, <1>3, <1>4 DEF Longest
<1>7. ASSUME NEW n \in Nodes PROVE NodeInv(n)'
  <2>1. /\ ClocksInv(n) /\ NumbersInv(n) /\ AnswersInv(n)
        /\ GrantTermsInv(n) /\ LeaseTermInv(n) /\ ListsInv(n)
    BY DEF LeaseInv, NodeInv
  <2>2. /\ now \in Nat /\ Clock(n) \in Nat /\ Counted(n) \in Nat /\ Started(n) \in Nat
        /\ Started(n) <= Counted(n) /\ Counted(n) <= Clock(n) /\ lease[n].until \in Nat
        /\ \A a \in lease[n].answered : a.at \in Nat
        /\ \A g \in grants[n] : g \in Grant /\ g.ms \in Nat
    BY <2>1, Numeric
  <2>n. /\ \A g \in grants[n] : g.grant[1] \in Nat
        /\ \A a \in lease[n].answered : a.grant[1] \in Nat
    <3>1. grants[n] \subseteq Grant /\ lease[n] \in LeaseState
      BY DEF TypeOK
    <3> QED BY <3>1 DEF Grant, LeaseState, Answer, Number
  <2>3. /\ held'[n] = UnknownHeld /\ turn'[n] = FreeTurn /\ reply'[n] = {}
        /\ sent'[n] = 0 /\ queue'[n] = {}
    BY <1>1
  <2>4. /\ ~held'[n].known /\ ~held'[n].lost /\ ~held'[n].failing /\ ~held'[n].own
        /\ held'[n].ackedGrant = {} /\ held'[n].next = 0 /\ turn'[n].phase = "free"
    BY SMTT(60), <2>3 DEF UnknownHeld, FreeTurn
  <2>5. Since(held[n], router)' = now
    BY <1>3, <2>4 DEF Since
  <2>6. Clock(n)' = Clock(n) /\ Counted(n)' = Clock(n) /\ Started(n)' = Clock(n)
    BY <1>1, <1>3, <2>5 DEF Clock, Counted, Started
  <2>7. /\ \A g \in grants[n] : Old(g, router')
        /\ \A a \in lease[n].answered : a.grant[1] # router'.proc
    <3>1. /\ \A g \in grants[n] : g.grant[1] <= router.proc
          /\ \A a \in lease[n].answered : a.grant[1] <= router.proc
      BY <2>1 DEF NumbersInv
    <3> QED BY SMTT(60), <1>3, <1>4, <2>n, <3>1 DEF Old
  <2>8. ClocksInv(n)'
    <3>1. router'.started <= now /\ Since(held[n], router)' <= now
      BY SMTT(60), <1>3, <2>2, <2>5
    <3> QED BY <1>1, <1>3, <2>1, <2>5, <2>6, <3>1 DEF ClocksInv
  <2>9. HeldInv(n)'
    BY SMTT(60), <1>3, <2>3, <2>4 DEF HeldInv
  <2>10. NumbersInv(n)'
    <3>1. /\ \A g \in grants[n] : g.grant[1] <= router.proc + 1
          /\ \A a \in lease[n].answered : a.grant[1] <= router.proc + 1
      <4>1. /\ \A g \in grants[n] : g.grant[1] <= router.proc
            /\ \A a \in lease[n].answered : a.grant[1] <= router.proc
        BY <2>1 DEF NumbersInv
      <4> QED BY SMTT(60), <1>4, <2>n, <4>1
    <3>2. \A g \in grants[n] :
            /\ \A x \in g.acked : x[1] = g.grant[1]
            /\ \A f \in grants[n] : f.grant \notin g.acked /\ (f.grant = g.grant => f = g)
      BY <2>1 DEF NumbersInv
    <3> QED BY <1>1, <1>3, <2>4, <2>7, <3>1, <3>2 DEF NumbersInv
  <2>11. AnswersInv(n)'
    BY <1>1, <2>1, <2>4, <2>6, <2>7 DEF AnswersInv, ClocksInv
  <2>12. GrantTermsInv(n)'
    <3>1. ~RanReply(reply'[n])
      BY <2>3 DEF RanReply
    <3>2. \A g \in grants[n] : CanRun(lease[n], g, Clock(n)) =>
            g.ms <= record /\ g.ms <= Longest(router', record')
      <4>1. \A g \in grants[n] : CanRun(lease[n], g, Clock(n)) => g.ms <= record
        BY <2>1 DEF GrantTermsInv
      <4> QED BY SMTT(60), <1>4, <1>6, <2>2, <4>1
    <3> QED BY <1>1, <2>4, <2>6, <2>7, <3>1, <3>2 DEF GrantTermsInv
  <2>13. LeaseTermInv(n)'
    <3>1. ~RanReply(reply'[n])
      BY <2>3 DEF RanReply
    <3>2. SUFFICES ASSUME Running(lease[n], Clock(n)) PROVE RunsOld(n)'
      BY <1>1, <2>6 DEF LeaseTermInv
    <3>3. /\ lease[n].until <= Clock(n) + record
          /\ \A b \in lease[n].basis : lease[n].until <= b.at + record
      BY SMTT(60), <1>4, <2>1, <2>2, <3>2 DEF LeaseTermInv, RunsOwn, RunsOld
    <3>4. lease[n].until <= Clock(n) + Longest(router', record')
      BY SMTT(60), <1>4, <1>6, <2>2, <3>3
    <3> QED BY <1>1, <2>4, <2>6, <3>1, <3>3, <3>4 DEF RunsOld
  <2>14. LostInv(n)'
    BY <2>4 DEF LostInv
  <2>15. ListsInv(n)'
    BY <1>1, <2>1, <2>3, <2>4, <2>6 DEF ListsInv
  <2> QED BY <2>8, <2>9, <2>10, <2>11, <2>12, <2>13, <2>14, <2>15 DEF NodeInv
<1> QED BY <1>5, <1>7 DEF LeaseInv

\* A grant read, however late: it runs a lease only where it could, and takes
\* from no other grant that it cannot run (Lease::grant_at).
LEMMA NodeReadsKeeps ==
    ASSUME TypeOK, TypeOK', LeaseInv, NEW n \in Nodes, NodeReads(n)
    PROVE  LeaseInv'
<1>1. PICK g \in grants[n] :
        /\ grants' = [grants EXCEPT ![n] = @ \ {g}]
        /\ lease' = [lease EXCEPT ![n] = ReadGrant(@, g, Clock(n))]
        /\ reply' = IF turn[n].phase = "waiting" /\ turn[n].grant = g.grant
                    THEN [reply EXCEPT ![n] = {Said(lease[n], g, Clock(n))}]
                    ELSE reply
  BY DEF NodeReads
<1>2. /\ now' = now /\ boot' = boot /\ place' = place /\ record' = record
      /\ router' = router /\ held' = held /\ turn' = turn /\ sent' = sent
      /\ queue' = queue
      /\ \A a \in lease[n].answered : a.at # Clock(n)
  BY DEF NodeReads, dirVars
<1>3. SameRouter /\ RecordInv'
  BY <1>2, RouterKept DEF LeaseInv, RecordInv
<1>4. ASSUME NEW m \in Nodes, m # n PROVE NodeInv(m)'
  <2>1. /\ grants'[m] = grants[m] /\ lease'[m] = lease[m] /\ reply'[m] = reply[m]
    BY <1>1, <1>4 DEF TypeOK
  <2>2. NodeInv(m) /\ SameHeld(m) /\ KeptOn(m) /\ QueuedNow(m)
    BY <1>2 DEF LeaseInv, NodeInv, HeldInv, SameHeld, KeptOn, QueuedNow
  <2> QED BY <1>2, <1>3, <2>1, <2>2, OtherNode
<1> DEFINE s == lease[n]
           c == Clock(n)
           r == ReadGrant(s, g, c)
           said == Said(s, g, c)
<1>5. /\ grants'[n] = grants[n] \ {g} /\ lease'[n] = r
      /\ \/ reply'[n] = {said} /\ turn[n].phase = "waiting" /\ turn[n].grant = g.grant
         \/ reply'[n] = reply[n] /\ ~(turn[n].phase = "waiting" /\ turn[n].grant = g.grant)
  BY <1>1 DEF TypeOK
<1>6. /\ ClocksInv(n) /\ HeldInv(n) /\ NumbersInv(n) /\ AnswersInv(n)
      /\ GrantTermsInv(n) /\ LeaseTermInv(n) /\ LostInv(n) /\ ListsInv(n)
  BY DEF LeaseInv, NodeInv
<1>7. /\ s \in LeaseState /\ c \in Nat /\ \A f \in grants[n] : f \in Grant /\ f.ms \in Nat
      /\ \A a \in s.answered : a.at \in Nat
      /\ Counted(n) \in Nat /\ Started(n) \in Nat /\ router.term \in Nat /\ record \in Nat
      /\ Longest(router, record) \in Nat
  BY <1>6, Numeric
<1>8. /\ Clock(n)' = c /\ Counted(n)' = Counted(n) /\ Started(n)' = Started(n)
      /\ Since(held[n], router)' = Since(held[n], router)
      /\ \A f : Old(f, router)' <=> Old(f, router)
  BY <1>2 DEF Clock, Counted, Started, Since, Old
<1>9. r.answered \subseteq s.answered \cup {[grant |-> g.grant, at |-> c]}
  BY <1>7, ReadAnswered
<1>10. ASSUME NEW f \in grants'[n], CanRun(r, f, c)
       PROVE  CanRun(s, f, c)
  <2>1. f \in grants[n] /\ g.grant \notin f.acked
    BY <1>5, <1>6 DEF NumbersInv
  <2> QED BY <1>7, <1>10, <2>1, ReadKeepsIdle
<1>11. turn[n].phase = "waiting" /\ turn[n].grant = g.grant => ~Old(g, router)
  BY <1>6 DEF NumbersInv, Old
<1>12. Running(r, c) =>
         \/ /\ CanRun(s, g, c) /\ r.list = {g.list}
            /\ \E a \in s.answered :
                 /\ a.grant \in g.acked /\ r.until = a.at + g.ms
                 /\ \A b \in r.basis : b.at = a.at
         \/ /\ Running(s, c) /\ r.until = s.until /\ r.list = s.list
            /\ r.basis \subseteq s.basis /\ ~said.ran
  BY <1>7, ReadRuns
<1>13. ASSUME NEW f \in grants'[n], Old(f, router), CanRun(r, f, c)
       PROVE  ~RanReply(reply'[n])
  <2>1. f \in grants[n] /\ g.grant \notin f.acked
    BY <1>5, <1>6 DEF NumbersInv
  <2>2. ~RanReply(reply[n])
    BY <1>6, <1>10, <1>13, <2>1 DEF GrantTermsInv
  <2>3. CASE reply'[n] = {said} /\ turn[n].phase = "waiting" /\ turn[n].grant = g.grant
    <3>1. \A a, d \in s.answered :
            a.grant \in f.acked /\ d.grant \in g.acked => a.at < d.at
      <4>1. \A x \in g.acked : x[1] = router.proc
        BY <1>6, <1>11, <2>3 DEF NumbersInv, Old
      <4> QED BY <1>6, <1>13, <2>1, <4>1 DEF AnswersInv
    <3>2. ~said.ran
      BY <1>7, <1>13, <2>1, <3>1, RanPassesBy
    <3> QED BY <2>3, <3>2 DEF RanReply
  <2> QED BY <1>5, <2>2, <2>3
<1> HIDE DEF s, c, r, said
<1>14. ClocksInv(n)'
  <2>1. \A a \in r.answered : a.at <= c
    BY SMTT(60), <1>6, <1>7, <1>9 DEF ClocksInv, s, c
  <2> QED BY <1>2, <1>5, <1>6, <1>8, <2>1 DEF ClocksInv, ClockKept
<1>15. HeldInv(n)'
  BY <1>2, <1>6 DEF HeldInv
<1>16. NumbersInv(n)'
  <2>1. \A f \in grants'[n] : f \in grants[n] /\ f.grant # g.grant
    BY <1>5, <1>6 DEF NumbersInv
  <2>2. \A f \in grants'[n] :
          turn[n].phase = "waiting" /\ reply'[n] # {} => f.grant # turn[n].grant
    BY <1>5, <1>6, <2>1 DEF NumbersInv
  <2>3. \A a \in r.answered : a.grant[1] <= router.proc
    BY SMTT(60), <1>6, <1>9 DEF NumbersInv, s
  <2> QED BY <1>2, <1>5, <1>6, <1>8, <2>1, <2>2, <2>3 DEF NumbersInv
<1>17. AnswersInv(n)'
  <2>1. g.grant \notin held[n].ackedGrant /\ \A f \in grants'[n] : g.grant \notin f.acked
    BY <1>5, <1>6 DEF NumbersInv
  <2>2. \A a \in r.answered : a.grant # g.grant => a \in s.answered
    BY SMTT(60), <1>9
  <2>3. \A a \in r.answered : a \in s.answered \/ a.at = c
    BY SMTT(60), <1>9
  <2>4. \A a \in s.answered : a.at < c
    BY SMTT(60), <1>2, <1>6, <1>7 DEF ClocksInv, s, c
  <2>5. \A a \in s.answered : a.grant \in held[n].ackedGrant => a.at <= Counted(n)
    BY <1>6 DEF AnswersInv, s
  <2>6. \A a \in s.answered : \A f \in grants'[n] : a.grant \in f.acked =>
            /\ a.at <= Counted(n)
            /\ Old(f, router) =>
                /\ a.at <= Started(n)
                /\ \A d \in s.answered : d.grant[1] = router.proc => a.at < d.at
    BY <1>5, <1>6 DEF AnswersInv, s
  <2>7. \A a \in s.answered : \A f \in grants'[n] : a.grant \in f.acked =>
            (Old(f, router) => \A d \in r.answered : d.grant[1] = router.proc => a.at < d.at)
    BY <2>3, <2>4, <2>6
  <2> QED BY <1>2, <1>5, <1>8, <2>1, <2>2, <2>5, <2>6, <2>7 DEF AnswersInv
<1>18. GrantTermsInv(n)'
  <2>1. \A f \in grants'[n] : CanRun(r, f, c) => CanRun(s, f, c) /\ f \in grants[n]
    BY <1>5, <1>10
  <2> QED BY <1>2, <1>5, <1>6, <1>8, <1>13, <2>1 DEF GrantTermsInv, s, c
<1>19. LeaseTermInv(n)'
  <2> SUFFICES ASSUME Running(r, c) PROVE RunsOwn(n)' \/ RunsOld(n)'
    BY <1>5, <1>8 DEF LeaseTermInv
  <2>1. CASE /\ Running(s, c) /\ r.until = s.until /\ r.list = s.list
             /\ r.basis \subseteq s.basis /\ ~said.ran
    <3>1. RanReply(reply'[n]) => RanReply(reply[n])
      BY <1>5, <2>1 DEF RanReply
    <3>2. RunsOwn(n) => RunsOwn(n)'
      BY <1>2, <1>5, <1>8, <2>1 DEF RunsOwn, s
    <3>3. RunsOld(n) => RunsOld(n)'
      BY <1>2, <1>5, <1>8, <2>1, <3>1 DEF RunsOld, s
    <3> QED BY <1>6, <2>1, <3>2, <3>3 DEF LeaseTermInv, s, c
  <2>2. ASSUME CanRun(s, g, c), NEW a \in s.answered, a.grant \in g.acked,
               r.until = a.at + g.ms, \A b \in r.basis : b.at = a.at
        PROVE  RunsOwn(n)' \/ RunsOld(n)'
    <3>1. /\ g.ms <= record
          /\ ~Old(g, router) => g.ms <= router.term
          /\ Old(g, router) => /\ ~held[n].own /\ ~RanReply(reply[n])
                               /\ g.ms <= Longest(router, record)
      BY <1>6, <2>2 DEF GrantTermsInv, s, c
    <3>2. a.at <= Counted(n) /\ (Old(g, router) => a.at <= Started(n))
      BY <1>6, <2>2 DEF AnswersInv, s
    <3>3. a.at \in Nat /\ g.ms \in Nat
      BY <1>7
    <3>6. /\ Counted(n) \in Nat /\ Started(n) \in Nat /\ router.term \in Nat /\ record \in Nat
          /\ Longest(router, record) \in Nat
      BY <1>7
    <3>4. CASE ~Old(g, router)
      <4>1. /\ a.at + g.ms <= Counted(n) + router.term /\ a.at + g.ms <= Counted(n) + record
            /\ a.at + g.ms <= a.at + router.term /\ a.at + g.ms <= a.at + record
        BY SMTT(60), <3>1, <3>2, <3>3, <3>4, <3>6
      <4> QED BY <1>2, <1>5, <1>8, <2>2, <4>1 DEF RunsOwn
    <3>5. CASE Old(g, router)
      <4>1. ~RanReply(reply'[n])
        BY <1>5, <1>11, <3>1, <3>5
      <4>2. /\ a.at + g.ms <= Started(n) + Longest(router, record)
            /\ a.at + g.ms <= Started(n) + record /\ a.at + g.ms <= a.at + record
        BY SMTT(60), <3>1, <3>2, <3>3, <3>5, <3>6
      <4> QED BY <1>2, <1>5, <1>8, <2>2, <3>1, <3>5, <4>1, <4>2 DEF RunsOld
    <3> QED BY <3>4, <3>5
  <2> QED BY <1>12, <2>1, <2>2
<1>20. LostInv(n)'
  <2>1. \A f \in grants'[n] : CanRun(r, f, c) => CanRun(s, f, c) /\ f \in grants[n]
    BY <1>5, <1>10
  <2> QED BY <1>2, <1>5, <1>6, <1>8, <1>12, <2>1 DEF LostInv, s, c
<1>21. ListsInv(n)'
  <2>1. \A f \in grants'[n] : CanRun(r, f, c) => Clean(n, f.list, place)
    <3>1. \A f \in grants'[n] : CanRun(r, f, c) => CanRun(s, f, c) /\ f \in grants[n]
      BY <1>5, <1>10
    <3> QED BY <1>6, <3>1 DEF ListsInv, s, c
  <2>2. Running(r, c) => \A list \in r.list : Clean(n, list, place)
    BY <1>6, <1>12 DEF ListsInv, s, c
  <2> QED BY <1>2, <1>5, <1>6, <1>8, <2>1, <2>2 DEF ListsInv
<1>22. NodeInv(n)'
  BY <1>14, <1>15, <1>16, <1>17, <1>18, <1>19, <1>20, <1>21 DEF NodeInv
<1> QED BY <1>3, <1>4, <1>22 DEF LeaseInv

\* No lease runs and none is granted when the first router starts.
LEMMA LeaseInvInit == Init => LeaseInv
<1> SUFFICES ASSUME Init PROVE LeaseInv
  OBVIOUS
<1>1. PICK term \in Terms : router = NewRouter(0, term, [term |-> 0, history |-> 0])
  BY DEF Init
<1>2. term \in Nat /\ record = 0 /\ now = 0
  BY LeasingAssumption DEF LeasingAssumption, Init
<1>3. /\ router.term = term /\ router.inherited = term /\ router.recorded = FALSE
      /\ router.started = 0 /\ router.readings = 0 /\ router.led = FALSE
  BY <1>1, <1>2 DEF NewRouter
<1>4. RecordInv
  BY SMTT(60), <1>2, <1>3 DEF RecordInv
<1>5. ASSUME NEW n \in Nodes PROVE NodeInv(n)
  <2>1. /\ boot[n] = [i \in 0 .. 0 |-> 0] /\ lease[n] = NewLease /\ grants[n] = {}
        /\ reply[n] = {} /\ held[n] = UnknownHeld /\ turn[n] = FreeTurn /\ sent[n] = 0
        /\ queue[n] = {}
    BY DEF Init
  <2>2. /\ lease[n].answered = {} /\ lease[n].until = 0
    BY SMTT(60), <2>1 DEF NewLease
  <2>3. /\ ~held[n].known /\ ~held[n].lost /\ ~held[n].failing
        /\ held[n].ackedGrant = {} /\ turn[n].phase = "free"
    BY SMTT(60), <2>1 DEF UnknownHeld, FreeTurn
  <2>4. Since(held[n], router) = 0 /\ Clock(n) = 0
    BY SMTT(60), <1>2, <1>3, <2>1, <2>3 DEF Since, Clock
  <2>5. ClocksInv(n)
    <3>1. \A i, j \in 0 .. now : i <= j => boot[n][i] <= boot[n][j]
      BY SMTT(60), <1>2, <2>1
    <3>2. ClockKept(boot[n], now)
      <4>1. \A l \in Terms : l \in Nat /\ l \div Share >= 0 /\ l \div Share \in Int
        BY SMTT(60), LeasingAssumption DEF LeasingAssumption
      <4>2. \A i \in 0 .. now : now - i <= 0 /\ now - i \in Int
        BY SMTT(60), <1>2
      <4> QED BY SMTT(60), <4>1, <4>2 DEF ClockKept
    <3> QED BY SMTT(60), <1>2, <1>3, <2>2, <2>4, <3>1, <3>2 DEF ClocksInv
  <2>6. HeldInv(n)
    BY SMTT(60), <1>3, <2>1, <2>3 DEF HeldInv
  <2>7. NumbersInv(n) /\ AnswersInv(n) /\ GrantTermsInv(n)
    BY <2>1, <2>2, <2>3 DEF NumbersInv, AnswersInv, GrantTermsInv
  <2>8. ~Running(lease[n], Clock(n))
    BY SMTT(60), <2>2, <2>4 DEF Running
  <2>9. LeaseTermInv(n) /\ LostInv(n)
    BY <2>3, <2>8 DEF LeaseTermInv, LostInv
  <2>10. ListsInv(n)
    BY <2>1, <2>3, <2>8 DEF ListsInv
  <2> QED BY <2>5, <2>6, <2>7, <2>9, <2>10 DEF NodeInv
<1> QED BY <1>4, <1>5 DEF LeaseInv

\* Every step keeps the invariant.
LEMMA LeaseInvStep ==
    ASSUME TypeOK, TypeOK', LeaseInv, [Next]_vars
    PROVE  LeaseInv'
<1>1. CASE UNCHANGED vars
  <2>1. /\ now' = now /\ boot' = boot /\ lease' = lease /\ grants' = grants
        /\ reply' = reply /\ place' = place /\ record' = record /\ router' = router
        /\ turn' = turn /\ sent' = sent /\ queue' = queue /\ held' = held
    BY <1>1 DEF vars, nodeVars, dirVars
  <2>2. \A m \in Nodes : SameHeld(m)
    BY <2>1, HeldSame
  <2> QED BY <2>1, <2>2, Untouched
<1>2. CASE Tick
  BY <1>2, TickKeeps
<1>3. CASE Round
  BY <1>3, RoundKeeps
<1>4. CASE NextRouter
  BY <1>4, NextRouterKeeps
<1>5. ASSUME NEW n \in Nodes, TakeTurn(n) PROVE LeaseInv'
  BY <1>5, TakeTurnKeeps
<1>6. ASSUME NEW n \in Nodes, Hear(n) PROVE LeaseInv'
  BY <1>6, HearKeeps
<1>7. ASSUME NEW n \in Nodes, GiveUp(n) PROVE LeaseInv'
  BY <1>7, GiveUpKeeps
<1>8. ASSUME NEW n \in Nodes, NodeReads(n) PROVE LeaseInv'
  BY <1>8, NodeReadsKeeps
<1>9. ASSUME NEW n \in Nodes, ConfirmLapse(n) PROVE LeaseInv'
  BY <1>9, ConfirmLapseKeeps
<1>10. ASSUME NEW n \in Nodes, FinishFailover(n) PROVE LeaseInv'
  BY <1>10, FinishFailoverKeeps
<1>11. ASSUME NEW n \in Nodes, HeldPass(n) PROVE LeaseInv'
  BY <1>11, HeldPassKeeps
<1>12. ASSUME NEW n \in Nodes, HeldEnd(n) PROVE LeaseInv'
  BY <1>12, HeldEndSafe
<1>13. ASSUME NEW n \in Nodes, NodeRestarts(n) PROVE LeaseInv'
  BY <1>13, NodeRestartsKeeps
<1>14. ASSUME NEW n \in Nodes, NEW t \in Tenants, Promote(n, t) PROVE LeaseInv'
  BY <1>14, PromoteKeeps
<1>15. ASSUME NEW n \in Nodes, NEW t \in Tenants, Arrive(t, n) PROVE LeaseInv'
  BY <1>15, ArriveKeeps
<1> QED
  BY <1>1, <1>2, <1>3, <1>4, <1>5, <1>6, <1>7, <1>8, <1>9, <1>10, <1>11, <1>12,
     <1>13, <1>14, <1>15 DEF Next

\* LeaseInv holds of every reachable state, for all constants: grants, lapses,
\* failovers, router processes and restarts in any order keep it.
THEOREM LeaseInvariant == Spec => []LeaseInv
<1>1. Spec => []TypeOK
  BY TypeCorrect
<1>2. TypeOK /\ TypeOK' /\ LeaseInv /\ [Next]_vars => LeaseInv'
  BY LeaseInvStep
<1> QED BY <1>1, <1>2, LeaseInvInit, PTL DEF Spec

\* A tenant is written on the node the directory places it on and no other,
\* for any number of nodes, tenants and router processes, any leases, any
\* delay of a grant, and clocks kept as ClockKept says (Lease::allows against
\* Router::failover).
THEOREM WrittenOnOneNode == Spec => []OnePrimary
<1>1. LeaseInv => OnePrimary
  BY DEF LeaseInv, NodeInv, ListsInv, OnePrimary, Allows, Clean
<1> QED BY <1>1, LeaseInvariant, PTL

\* No lease outlasts what the directory records, whatever routers follow one
\* another and with whatever leases (Router::grant_term, Leases::lowerable).
THEOREM RecordOutlasts == Spec => []RecordCovers
<1>1. TypeOK /\ LeaseInv => RecordCovers
  <2> SUFFICES ASSUME TypeOK, LeaseInv, NEW n \in Nodes, Running(lease[n], Clock(n)),
                      NEW b \in lease[n].basis
               PROVE  lease[n].until - b.at <= record
    BY DEF RecordCovers
  <2>1. lease[n].until <= b.at + record
    BY DEF LeaseInv, NodeInv, LeaseTermInv, RunsOwn, RunsOld
  <2>2. lease[n].until \in Nat /\ b.at \in Nat /\ record \in Nat
    BY Numeric DEF LeaseInv, NodeInv
  <2> QED BY SMTT(60), <2>1, <2>2
<1> QED BY <1>1, LeaseInvariant, TypeCorrect, PTL

-----------------------------------------------------------------------------
(* What the grants leave out.                                              *)

\* A grant sent by a process keeps who is left out, where what it knows of
\* the node and the turn's `back` do.
LEMMA SendWithheld ==
    ASSUME TypeOK, NEW n \in Nodes, NEW h \in Held, NEW tn \in Turn, Send(n, h, tn)
    PROVE  /\ held'[n].lost = h.lost /\ turn'[n].back = tn.back
           /\ \A m \in Nodes : m # n => held'[m] = held[m] /\ turn'[m] = turn[m]
<1>1. /\ held' = [held EXCEPT ![n] = [h EXCEPT !.next = h.next + 1]]
      /\ turn' = [turn EXCEPT ![n] =
                    [tn EXCEPT !.phase = "waiting", !.grant = <<router.proc, h.next>>]]
  BY DEF Send
<1>2. held'[n] = [h EXCEPT !.next = h.next + 1]
  BY <1>1 DEF TypeOK
<1>3. turn'[n] = [tn EXCEPT !.phase = "waiting", !.grant = <<router.proc, h.next>>]
  BY <1>1 DEF TypeOK
<1> QED BY <1>1, <1>2, <1>3 DEF TypeOK, Held, Turn

\* The turn of a new grant has no failover behind it.
LEMMA StartWithheld ==
    ASSUME TypeOK, NEW n \in Nodes, HeldInv(n), NEW list \in Lists, NEW ms \in Nat,
           NEW round \in BOOLEAN, NEW over \in Lists, StartGrant(n, list, ms, round, over)
    PROVE  /\ held'[n].lost = held[n].lost /\ ~turn'[n].back
           /\ \A m \in Nodes : m # n => held'[m] = held[m] /\ turn'[m] = turn[m]
<1> DEFINE tn == [FreeTurn EXCEPT !.list = list, !.ms = ms, !.round = round,
                                  !.over = over, !.with = (Entry(n).list # {list})]
<1>1. tn \in Turn /\ tn.back = FALSE
  BY FreeTurnType DEF Turn, FreeTurn
<1>2. Send(n, Entry(n), tn)
  BY DEF StartGrant
<1> HIDE DEF tn
<1>3. Entry(n) \in Held
  BY EntryType
<1>4. Entry(n).lost = held[n].lost
  <2>1. CASE held[n].known
    BY <2>1 DEF Entry
  <2>2. CASE ~held[n].known
    <3>1. Entry(n) = FreshHeld /\ held[n] = UnknownHeld
      BY <2>2 DEF Entry, HeldInv
    <3> QED BY SMTT(60), <3>1 DEF FreshHeld, UnknownHeld
  <2> QED BY <2>1, <2>2
<1> QED BY <1>1, <1>2, <1>3, <1>4, SendWithheld

\* The same of a turn let go of, where the node is granted again or not.
LEMMA EndWithheld ==
    ASSUME TypeOK, NEW n \in Nodes, NEW h \in Held, NEW wh, NEW back \in BOOLEAN,
           EndTurn(n, h, wh, back)
    PROVE  /\ held'[n].lost = h.lost /\ ~turn'[n].back
           /\ ~back => left' = left
           /\ \A m \in Nodes : m # n => /\ held'[m] = held[m] /\ turn'[m] = turn[m]
                                        /\ left'[m] = left[m]
<1>1. held'[n] = [h EXCEPT !.granting = h.granting /\ ~turn[n].round]
  BY DEF EndTurn, TypeOK
<1>2. held'[n].lost = h.lost
  BY <1>1 DEF Held
<1>3. ~turn'[n].back
  BY DEF EndTurn, TypeOK, FreeTurn
<1>4. ~back => left' = left
  <2>1. left' = [left EXCEPT ![n] = IF back THEN left[n] \ turn[n].over ELSE left[n]]
    BY DEF EndTurn
  <2> QED BY <2>1 DEF TypeOK
<1> QED BY <1>2, <1>3, <1>4 DEF EndTurn, TypeOK

\* Every step keeps who is left out.
LEMMA WithheldStep ==
    ASSUME TypeOK, TypeOK', LeaseInv, WithheldInv, [Next]_vars
    PROVE  WithheldInv'
<1>1. \A m \in Nodes : HeldInv(m)
  BY DEF LeaseInv, NodeInv
<1>2. CASE UNCHANGED <<held, turn, withheld, left>>
  BY <1>2 DEF WithheldInv
<1>3. CASE Round
  <2>1. PICK lower \in BOOLEAN : \A n \in Nodes : RoundOn(n, lower)
    BY <1>3, RoundCounts
  <2>2. \A n \in Nodes : held'[n].lost = held[n].lost
    BY <2>1 DEF RoundOn
  <2>3. turn' = turn /\ left' = left
        /\ withheld' = IF router.led THEN withheld ELSE [n \in Nodes |-> {}]
    BY <1>3 DEF Round
  <2> QED BY <2>2, <2>3 DEF WithheldInv
<1>4. CASE NextRouter
  BY <1>4 DEF NextRouter, WithheldInv, FreeTurn
<1>5. ASSUME NEW n \in Nodes, TakeTurn(n) PROVE WithheldInv'
  <2>1. withheld' = withheld /\ left' = left
    BY <1>5 DEF TakeTurn
  <2>2. PICK q \in queue[n] :
          \/ /\ held' = [held EXCEPT ![n].granting = @ /\ ~q.round]
             /\ turn' = turn
          \/ \E ms \in {router.term, record} : StartGrant(n, q.list, ms, q.round, {})
    BY <1>5 DEF TakeTurn
  <2>3. CASE /\ held' = [held EXCEPT ![n].granting = @ /\ ~q.round]
             /\ turn' = turn
    <3>1. \A m \in Nodes : held'[m].lost = held[m].lost
      BY SMTT(60), <2>3 DEF TypeOK, Held
    <3> QED BY <2>1, <2>3, <3>1 DEF WithheldInv
  <2>4. ASSUME NEW ms \in {router.term, record}, StartGrant(n, q.list, ms, q.round, {})
        PROVE  WithheldInv'
    <3>1. q.list \in Lists /\ q.round \in BOOLEAN /\ ms \in Nat /\ {} \in Lists
      <4>1. q \in Queued /\ router.term \in Terms /\ record \in Nat
        BY DEF TypeOK, RouterState
      <4>2. ms \in Nat
        BY <4>1, LeasingAssumption DEF LeasingAssumption
      <4>3. {} \in Lists
        BY DEF Lists
      <4> QED BY <4>1, <4>2, <4>3 DEF Queued
    <3>2. /\ held'[n].lost = held[n].lost /\ ~turn'[n].back
          /\ \A m \in Nodes : m # n => held'[m] = held[m] /\ turn'[m] = turn[m]
      BY <1>1, <2>4, <3>1, StartWithheld
    <3> QED BY <2>1, <3>2 DEF WithheldInv
  <2> QED BY <2>2, <2>3, <2>4
<1>6. ASSUME NEW n \in Nodes, Hear(n) PROVE WithheldInv'
  <2>1. PICK a \in reply[n] :
          LET h    == AfterAnswer(n, a)
              back == turn[n].back \/ (held[n].lost /\ ~h.lost)
              wh   == IF held[n].lost /\ ~h.lost
                      THEN [withheld EXCEPT ![n] = {}] ELSE withheld
              more == Again([turn[n] EXCEPT !.back = back], a)
          IN  /\ withheld' = wh
              /\ \/ \E tn \in more : Send(n, h, tn) /\ UNCHANGED <<router, queue, left>>
                 \/ more = {} /\ EndTurn(n, h, wh, back)
    BY <1>6 DEF Hear
  <2> DEFINE h    == AfterAnswer(n, a)
             back == turn[n].back \/ (held[n].lost /\ ~h.lost)
             wh   == IF held[n].lost /\ ~h.lost
                     THEN [withheld EXCEPT ![n] = {}] ELSE withheld
             more == Again([turn[n] EXCEPT !.back = back], a)
  <2>2. h \in Held /\ Follows(n, h)
    BY <1>6, AnswerFollows DEF Hear, LeaseInv
  <2>3. back \in BOOLEAN /\ turn[n] \in Turn /\ h.lost \in BOOLEAN
    BY <2>2 DEF TypeOK, Turn, Held
  <2>4. \A tn \in more : tn \in Turn /\ tn.back = back
    <3> DEFINE u == [turn[n] EXCEPT !.back = back]
    <3>1. u \in Turn /\ u.back = back
      BY <2>3 DEF Turn
    <3> HIDE DEF u, back, h
    <3>2. \A tn \in Again(u, a) : tn \in Turn /\ tn.back = u.back
      BY <3>1 DEF Again, Turn
    <3> QED BY <3>1, <3>2 DEF u
  <2>5. /\ h.lost => held[n].lost
        /\ wh[n] \subseteq withheld[n] /\ (back => wh[n] = {}) /\ (wh[n] # {} => h.lost)
        /\ \A m \in Nodes : m # n => wh[m] = withheld[m]
    BY <2>2, <2>3 DEF Follows, WithheldInv, TypeOK
  <2> HIDE DEF h, back, wh, more
  <2>6. withheld' = wh
    BY <2>1 DEF h, wh
  <2>7. ASSUME NEW tn \in more, Send(n, h, tn), left' = left PROVE WithheldInv'
    <3>1. /\ held'[n].lost = h.lost /\ turn'[n].back = back
          /\ \A m \in Nodes : m # n => held'[m] = held[m] /\ turn'[m] = turn[m]
      BY SMTT(60), <2>2, <2>4, <2>7, SendWithheld
    <3> QED BY <2>5, <2>6, <2>7, <3>1 DEF WithheldInv
  <2>8. CASE EndTurn(n, h, wh, back)
    <3>1. /\ held'[n].lost = h.lost /\ ~turn'[n].back
          /\ ~back => left' = left
          /\ \A m \in Nodes : m # n => /\ held'[m] = held[m] /\ turn'[m] = turn[m]
                                       /\ left'[m] = left[m]
      BY <2>2, <2>3, <2>8, EndWithheld
    <3> QED BY <2>5, <2>6, <3>1 DEF WithheldInv
  <2> QED BY <2>1, <2>7, <2>8 DEF h, back, wh, more
<1>7. ASSUME NEW n \in Nodes, GiveUp(n) PROVE WithheldInv'
  <2>1. EndTurn(n, held[n], withheld, turn[n].back) /\ withheld' = withheld
    BY <1>7 DEF GiveUp
  <2>2. held[n] \in Held /\ turn[n].back \in BOOLEAN
    BY DEF TypeOK, Turn
  <2>3. /\ held'[n].lost = held[n].lost /\ ~turn'[n].back
        /\ ~turn[n].back => left' = left
        /\ \A m \in Nodes : m # n => /\ held'[m] = held[m] /\ turn'[m] = turn[m]
                                     /\ left'[m] = left[m]
    BY <2>1, <2>2, EndWithheld
  <2> QED BY <2>1, <2>3 DEF WithheldInv
<1>8. ASSUME NEW n \in Nodes, ConfirmLapse(n) PROVE WithheldInv'
  <2>1. PICK lapsed \in BOOLEAN :
          /\ held' = [held EXCEPT ![n].failing = FALSE, ![n].lost = @ \/ lapsed]
          /\ turn' = IF lapsed
                     THEN [turn EXCEPT ![n] =
                             [FreeTurn EXCEPT !.phase = "failover",
                                              !.todo = {t \in Tenants : place[t] = {n}}]]
                     ELSE turn
          /\ withheld' = withheld /\ left' = left
    BY <1>8 DEF ConfirmLapse
  <2>2. \A m \in Nodes : held[m].lost => held'[m].lost
    BY <2>1 DEF TypeOK, Held
  <2>3. \A m \in Nodes : turn'[m].back => turn[m].back
    BY <2>1 DEF TypeOK, FreeTurn
  <2> QED BY <2>1, <2>2, <2>3 DEF WithheldInv
<1>9. ASSUME NEW n \in Nodes, NEW t \in Tenants, Promote(n, t) PROVE WithheldInv'
  <2>1. held' = held /\ withheld' = withheld /\ left' = left
    BY <1>9 DEF Promote
  <2>2. \A m \in Nodes : turn'[m].back = turn[m].back
    <3>1. PICK x, y : turn' = [turn EXCEPT ![n] = [turn[n] EXCEPT !.todo = x, !.over = y]]
                   \/ turn' = [turn EXCEPT ![n] = [turn[n] EXCEPT !.todo = x]]
      BY <1>9 DEF Promote
    <3>2. turn \in [Nodes -> Turn] /\ turn[n] \in Turn
      BY DEF TypeOK
    <3>3. /\ [turn[n] EXCEPT !.todo = x, !.over = y].back = turn[n].back
          /\ [turn[n] EXCEPT !.todo = x].back = turn[n].back
      BY <3>2 DEF Turn
    <3>4. turn'[n].back = turn[n].back
      BY <3>1, <3>2, <3>3
    <3>5. \A m \in Nodes : m # n => turn'[m] = turn[m]
      BY <3>1, <3>2
    <3> QED BY <3>4, <3>5
  <2> QED BY <2>1, <2>2 DEF WithheldInv
<1>10. ASSUME NEW n \in Nodes, NEW pl, NEW over \in Lists,
              GrantedAfter(n, pl, withheld', over), held[n].lost,
              withheld'[n] \subseteq left'[n],
              \A m \in Nodes : m # n => withheld'[m] = withheld[m] /\ left'[m] = left[m]
       PROVE  WithheldInv'
  <2>1. PICK ms \in {router.term, record} :
          StartGrant(n, Primaries(n, pl, withheld'), ms, FALSE, over)
    BY <1>10 DEF GrantedAfter
  <2>2. ms \in Nat /\ Primaries(n, pl, withheld') \in Lists
    BY LeasingAssumption DEF TypeOK, RouterState, LeasingAssumption, Lists, Primaries
  <2>3. /\ held'[n].lost = held[n].lost /\ ~turn'[n].back
        /\ \A m \in Nodes : m # n => held'[m] = held[m] /\ turn'[m] = turn[m]
    BY <1>1, <1>10, <2>1, <2>2, StartWithheld
  <2> QED BY <1>10, <2>3 DEF WithheldInv
<1>11. ASSUME NEW n \in Nodes, FinishFailover(n) PROVE WithheldInv'
  <2>1. /\ GrantedAfter(n, place, withheld', turn[n].over) /\ turn[n].phase = "failover"
        /\ withheld' = [withheld EXCEPT ![n] = @ \cup turn[n].over]
        /\ left' = [left EXCEPT ![n] = @ \cup turn[n].over]
    BY <1>11 DEF FinishFailover
  <2>2. held[n].lost /\ turn[n].over \in Lists
    BY <1>1, <2>1 DEF HeldInv, TypeOK, Turn
  <2>3. /\ withheld'[n] \subseteq left'[n]
        /\ \A m \in Nodes : m # n => withheld'[m] = withheld[m] /\ left'[m] = left[m]
    <3>1. /\ withheld \in [Nodes -> Lists] /\ left \in [Nodes -> Lists]
          /\ withheld[n] \subseteq left[n]
      BY DEF WithheldInv, TypeOK
    <3>2. /\ withheld' = [withheld EXCEPT ![n] = @ \cup turn[n].over]
          /\ left' = [left EXCEPT ![n] = @ \cup turn[n].over]
      BY <2>1
    <3> QED BY <3>1, <3>2
  <2> QED BY <1>10, <2>1, <2>2, <2>3
<1>12. ASSUME NEW n \in Nodes, HeldPass(n) PROVE WithheldInv'
  <2>1. held[n].lost /\ GrantedAfter(n, place', withheld', left'[n])
    BY <1>12 DEF HeldPass
  <2>2. PICK ready \in SUBSET left[n] :
          /\ withheld' = [withheld EXCEPT ![n] = @ \ ready]
          /\ left' = [left EXCEPT ![n] = @ \ ready]
    BY <1>12 DEF HeldPass
  <2>3. /\ withheld'[n] \subseteq left'[n] /\ left'[n] \in Lists
        /\ \A m \in Nodes : m # n => withheld'[m] = withheld[m] /\ left'[m] = left[m]
    BY <2>2 DEF WithheldInv, TypeOK
  <2> QED BY <1>10, <2>1, <2>3
<1>13. ASSUME NEW n \in Nodes, HeldEnd(n) PROVE WithheldInv'
  <2>1. /\ withheld' = [withheld EXCEPT ![n] = IF held[n].lost THEN @ \ left[n] ELSE @]
        /\ left' = [left EXCEPT ![n] = {}] /\ held' = held /\ turn' = turn
    BY <1>13 DEF HeldEnd
  <2>2. withheld'[n] = {}
    BY <2>1 DEF WithheldInv, TypeOK
  <2>3. \A m \in Nodes : m # n => withheld'[m] = withheld[m] /\ left'[m] = left[m]
    BY <2>1 DEF TypeOK
  <2> QED BY <2>1, <2>2, <2>3 DEF WithheldInv
<1>14. \/ UNCHANGED <<held, turn, withheld, left>> \/ Round \/ NextRouter
       \/ \E n \in Nodes :
            \/ TakeTurn(n) \/ Hear(n) \/ GiveUp(n) \/ ConfirmLapse(n)
            \/ FinishFailover(n) \/ HeldPass(n) \/ HeldEnd(n)
            \/ \E t \in Tenants : Promote(n, t)
  <2>1. CASE UNCHANGED vars
    BY <2>1 DEF vars
  <2>2. CASE Tick
    BY <2>2 DEF Tick
  <2>3. ASSUME NEW n \in Nodes, NodeReads(n) \/ NodeRestarts(n)
        PROVE  UNCHANGED <<held, turn, withheld, left>>
    BY <2>3 DEF NodeReads, NodeRestarts
  <2>4. ASSUME NEW n \in Nodes, NEW t \in Tenants, Arrive(t, n)
        PROVE  UNCHANGED <<held, turn, withheld, left>>
    BY <2>4 DEF Arrive
  <2> QED BY <2>1, <2>2, <2>3, <2>4 DEF Next
<1> QED
  BY <1>2, <1>3, <1>4, <1>5, <1>6, <1>7, <1>8, <1>9, <1>11, <1>12, <1>13, <1>14

\* A node's grants leave tenants out only while it is lost, those its failover has
\* yet to go back to, and none once it answered, for all constants.
THEOREM WithheldInvariant == Spec => []WithheldInv
<1>1. Init => WithheldInv
  BY DEF Init, WithheldInv, FreeTurn
<1>2. TypeOK /\ TypeOK' /\ LeaseInv /\ WithheldInv /\ [Next]_vars => WithheldInv'
  BY WithheldStep
<1> QED BY <1>1, <1>2, LeaseInvariant, TypeCorrect, PTL DEF Spec

\* A tenant a node's grants leave out is one its failover goes back to, for
\* all constants (Leases::withhold, Router::fail_over_held).
THEOREM NoneLeftOut == Spec => []WithheldTracked
<1>1. WithheldInv => WithheldTracked
  BY DEF WithheldInv, WithheldTracked
<1> QED BY <1>1, WithheldInvariant, PTL

==============================================================================
