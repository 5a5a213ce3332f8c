---------------------------- MODULE LeasingFacts -----------------------------
(***************************************************************************)
(* The types of Leasing, for any nodes, tenants, leases and bounds, and    *)
(* what a grant in flight may do to its node, what an action leaves as it  *)
(* was, and what a router's record of a node covers: the facts the proof   *)
(* that LeaseInv is inductive rests on. Then the steps that send and hear  *)
(* nothing: a tenant's arrival, a lapse confirmed, a tenant promoted, a    *)
(* node's restart and a tick keep LeaseInv.                                *)
(***************************************************************************)
EXTENDS LeasingInv, TLAPS

\* Zenon is given a minute a leaf; the leaves that count name the SMT solver.
USE ZenonT(60)

-----------------------------------------------------------------------------
(* What a grant in flight may do to its node.                              *)

\* A lease runs from an answer the node keeps (Lease::grant_at, `from`).
LEMMA CanRunFrom ==
    ASSUME NEW s \in LeaseState, NEW g \in Grant, NEW c \in Nat, CanRun(s, g, c)
    PROVE  \E a \in s.answered : a.grant \in g.acked /\ a.at + g.ms > c
BY DEF CanRun, From, Known

\* What cannot run now cannot run later.
LEMMA CanRunLater ==
    ASSUME NEW s \in LeaseState, NEW g \in Grant, NEW c \in Nat, NEW d \in Nat,
           c <= d, CanRun(s, g, d)
    PROVE  CanRun(s, g, c)
<1>1. PICK a \in From(s, g) : NewerFrom(a, s, g) /\ a.at + g.ms > d
  BY DEF CanRun
<1>2. a.at \in Nat /\ g.ms \in Nat
  BY DEF From, Known, LeaseState, Answer, Grant
<1>3. a.at + g.ms > c
  BY SMTT(60), <1>1, <1>2
<1> QED BY <1>1, <1>3 DEF CanRun

\* A node that restarted runs no grant: it knows none it answered (Lease::new).
LEMMA NewLeaseIdle ==
    ASSUME NEW g \in Grant, NEW c \in Nat
    PROVE  ~CanRun(NewLease, g, c) /\ ~Running(NewLease, c)
BY SMTT(60) DEF CanRun, From, Known, NewLease, Running

\* Reading a grant adds its own answer to those kept, and no other.
LEMMA ReadAnswered ==
    ASSUME NEW s \in LeaseState, NEW f \in Grant, NEW c \in Nat
    PROVE  ReadGrant(s, f, c).answered
             \subseteq s.answered \cup {[grant |-> f.grant, at |-> c]}
<1>1. Noted(Known(s, f), [grant |-> f.grant, at |-> c])
        \subseteq s.answered \cup {[grant |-> f.grant, at |-> c]}
  BY DEF Noted, Known
<1> QED BY <1>1 DEF ReadGrant, AfterGrant

\* The answer a newer grant's lease runs from.
LEMMA FromChosen ==
    ASSUME NEW s \in LeaseState, NEW f \in Grant, Newer(s, f)
    PROVE  LET from == CHOOSE a \in From(s, f) : NewerFrom(a, s, f)
           IN  /\ from \in s.answered /\ from.grant \in f.acked
               /\ from \in From(s, f) /\ NewerFrom(from, s, f)
<1> DEFINE from == CHOOSE a \in From(s, f) : NewerFrom(a, s, f)
<1>1. from \in From(s, f) /\ NewerFrom(from, s, f)
  BY DEF Newer
<1> HIDE DEF from
<1>2. from \in s.answered /\ from.grant \in f.acked
  BY <1>1 DEF From, Known
<1> QED BY <1>1, <1>2 DEF from

\* A node runs a lease once it read a grant only where the grant could run,
\* with the grant's list and for its length, or where it ran one before.
LEMMA ReadRuns ==
    ASSUME NEW s \in LeaseState, NEW f \in Grant, NEW c \in Nat,
           Running(ReadGrant(s, f, c), c)
    PROVE  LET r == ReadGrant(s, f, c)
           IN  \/ /\ CanRun(s, f, c) /\ r.list = {f.list}
                  /\ \E a \in s.answered :
                       /\ a.grant \in f.acked /\ r.until = a.at + f.ms
                       /\ \A b \in r.basis : b.at = a.at
               \/ /\ Running(s, c) /\ r.until = s.until /\ r.list = s.list
                  /\ r.basis \subseteq s.basis /\ ~Said(s, f, c).ran
<1> DEFINE r == ReadGrant(s, f, c)
           from == CHOOSE a \in From(s, f) : NewerFrom(a, s, f)
<1>1. CASE Superseded(s, f) \/ NeedsList(s, f)
  BY <1>1 DEF ReadGrant, Said
<1>2. CASE ~(Superseded(s, f) \/ NeedsList(s, f)) /\ Newer(s, f)
  <2>1. /\ from \in s.answered /\ from.grant \in f.acked
        /\ from \in From(s, f) /\ NewerFrom(from, s, f)
    BY <1>2, FromChosen
  <2>2. r.until = from.at + f.ms /\ r.list = {f.list}
        /\ r.basis = {[at |-> from.at, by |-> f.grant]}
    BY <1>2 DEF ReadGrant, AfterGrant, Took
  <2> HIDE DEF r, from
  <2>3. from.at \in Nat /\ f.ms \in Nat
    BY <2>1 DEF LeaseState, Answer, Grant
  <2>4. from.at + f.ms > c
    <3>1. c < r.until
      BY DEF Running, r
    <3> QED BY <2>2, <2>3, <3>1
  <2>5. CanRun(s, f, c)
    BY <2>1, <2>4 DEF CanRun
  <2>6. \A b \in r.basis : b.at = from.at
    BY SMTT(60), <2>2
  <2> QED BY <2>1, <2>2, <2>5, <2>6 DEF r
<1>3. CASE ~(Superseded(s, f) \/ NeedsList(s, f)) /\ ~Newer(s, f)
  <2>1. r = AfterGrant(s, f, c)
    BY <1>3 DEF ReadGrant
  <2>2. r.until = s.until /\ r.basis = Basis(s, f)
    BY SMTT(60), <1>3, <2>1 DEF AfterGrant
  <2>3. Running(s, c)
    BY <2>2 DEF Running
  <2>4. r.list = s.list
    BY SMTT(60), <1>3, <2>1, <2>3 DEF AfterGrant, Took
  <2>5. r.basis \subseteq s.basis
    BY <2>2 DEF Basis
  <2>6. ~Said(s, f, c).ran
    BY <1>3 DEF Said
  <2> QED BY <2>2, <2>3, <2>4, <2>5, <2>6
<1> QED BY <1>1, <1>2, <1>3

\* A grant that cannot run cannot run once another was read: the basis only
\* moves on, and the answer it acknowledges is not given twice.
LEMMA ReadKeepsIdle ==
    ASSUME NEW s \in LeaseState, NEW f \in Grant, NEW g \in Grant, NEW c \in Nat,
           f.grant \notin g.acked, CanRun(ReadGrant(s, f, c), g, c)
    PROVE  CanRun(s, g, c)
<1> DEFINE r == ReadGrant(s, f, c)
           from == CHOOSE a \in From(s, f) : NewerFrom(a, s, f)
<1>1. CASE Superseded(s, f) \/ NeedsList(s, f)
  BY <1>1 DEF ReadGrant
<1>2. CASE ~(Superseded(s, f) \/ NeedsList(s, f))
  <2>1. r = AfterGrant(s, f, c)
    BY <1>2 DEF ReadGrant
  <2>2. r.holder = {f.holder}
    BY SMTT(60), <2>1 DEF AfterGrant
  <2>3. r.answered \subseteq Known(s, f) \cup {[grant |-> f.grant, at |-> c]}
    BY SMTT(60), <2>1 DEF AfterGrant, Noted
  <2>4. PICK a \in From(r, g) : NewerFrom(a, r, g) /\ a.at + g.ms > c
    BY DEF CanRun
  <2>5. r.holder = {g.holder} /\ a \in r.answered /\ a.grant \in g.acked
    BY <2>4 DEF From, Known
  <2>6. a \in Known(s, f)
    BY SMTT(60), <2>3, <2>5
  <2>7. s.holder = {f.holder} /\ f.holder = g.holder /\ a \in s.answered
    BY SMTT(60), <2>2, <2>5, <2>6 DEF Known
  <2>8. a \in From(s, g)
    BY <2>5, <2>7 DEF From, Known
  <2>9. NewerFrom(a, s, g)
    <3>1. CASE ~Newer(s, f)
      <4>1. r.basis = s.basis
        BY SMTT(60), <2>1, <2>7, <3>1 DEF AfterGrant, Basis
      <4> QED BY <2>4, <2>5, <2>7, <4>1 DEF NewerFrom, Basis
    <3>2. CASE Newer(s, f)
      <4>1. from \in s.answered /\ NewerFrom(from, s, f)
        BY <3>2, FromChosen
      <4>2. r.basis = {[at |-> from.at, by |-> f.grant]}
        BY SMTT(60), <2>1, <3>2 DEF AfterGrant
      <4> HIDE DEF r, from
      <4>3. a.at > from.at \/ (a.at = from.at /\ CountedAfter(g.grant, f.grant))
        BY SMTT(60), <2>4, <2>5, <4>2 DEF NewerFrom, Basis
      <4>4. SUFFICES ASSUME NEW b \in Basis(s, g)
                     PROVE  a.at > b.at \/ (a.at = b.at /\ CountedAfter(g.grant, b.by))
        BY DEF NewerFrom
      <4>5. b \in Basis(s, f) /\ b \in [at : Nat, by : Number]
        BY <2>7 DEF Basis, LeaseState, Option
      <4>6. from.at > b.at \/ (from.at = b.at /\ CountedAfter(f.grant, b.by))
        BY <4>1, <4>5 DEF NewerFrom
      <4>7. a.at \in Nat /\ from.at \in Nat /\ b.at \in Nat
        BY <2>7, <4>1, <4>5 DEF LeaseState, Answer
      <4>8. g.grant \in Number /\ f.grant \in Number /\ b.by \in Number
        BY <4>5 DEF Grant
      <4>9. CountedAfter(g.grant, f.grant) /\ CountedAfter(f.grant, b.by)
              => CountedAfter(g.grant, b.by)
        BY SMTT(60), <4>8 DEF CountedAfter, Number
      <4> QED BY SMTT(60), <4>3, <4>6, <4>7, <4>9
    <3> QED BY <3>1, <3>2
  <2> QED BY <2>4, <2>8, <2>9 DEF CanRun
<1> QED BY <1>1, <1>2

\* Where the node says it ran, its lease runs from an answer the grant
\* acknowledges, and a grant that acknowledges only earlier ones cannot run.
LEMMA RanPassesBy ==
    ASSUME NEW s \in LeaseState, NEW f \in Grant, NEW g \in Grant, NEW c \in Nat,
           Said(s, f, c).ran, f.grant \notin g.acked,
           \A a, d \in s.answered :
               a.grant \in g.acked /\ d.grant \in f.acked => a.at < d.at
    PROVE  ~CanRun(ReadGrant(s, f, c), g, c)
<1> DEFINE r == ReadGrant(s, f, c)
           from == CHOOSE a \in From(s, f) : NewerFrom(a, s, f)
<1>1. ~Superseded(s, f) /\ ~NeedsList(s, f)
  BY DEF Said
<1>2. Newer(s, f)
  BY <1>1 DEF Said
<1>3. from \in s.answered /\ from.grant \in f.acked
  BY <1>2, FromChosen
<1>4. /\ r.basis = {[at |-> from.at, by |-> f.grant]}
      /\ r.answered \subseteq s.answered \cup {[grant |-> f.grant, at |-> c]}
  BY <1>1, <1>2, ReadAnswered DEF ReadGrant, AfterGrant
<1> HIDE DEF from
<1>5. SUFFICES ASSUME NEW a \in From(r, g), NewerFrom(a, r, g) PROVE FALSE
  BY DEF CanRun
<1> HIDE DEF r
<1>6. r.holder = {g.holder} /\ a \in r.answered /\ a.grant \in g.acked
  BY DEF From, Known
<1>7. a \in s.answered
  BY SMTT(60), <1>4, <1>6
<1>8. a.at < from.at
  BY <1>3, <1>6, <1>7
<1>9. a.at > from.at \/ a.at = from.at
  BY <1>4, <1>5, <1>6 DEF NewerFrom, Basis
<1>10. a.at \in Nat /\ from.at \in Nat
  BY <1>3, <1>7 DEF LeaseState, Answer
<1> QED BY SMTT(60), <1>8, <1>9, <1>10

-----------------------------------------------------------------------------
(* What the actions have in common.                                        *)

\* A lapse on the router's clock is a lease on the node's.
LEMMA LapseOnClock ==
    ASSUME TypeOK, NEW n \in Nodes, ClocksInv(n), NEW l \in Terms, NEW i \in 0 .. now,
           now - i > Lapse(l)
    PROVE  boot[n][i] + l <= Clock(n)
<1>1. boot[n][now] - boot[n][i] >= l
  BY DEF ClocksInv, ClockKept, Lapse
<1>2. boot[n] \in [0 .. now -> Nat] /\ now \in 0 .. now /\ l \in Nat
  BY SMTT(60), LeasingAssumption DEF TypeOK, LeasingAssumption
<1>3. boot[n][now] \in Nat /\ boot[n][i] \in Nat
  BY <1>2
<1>4. \A x, y, z \in Nat : x - y >= z => y + z <= x
  BY SMTT(60)
<1> QED BY <1>1, <1>2, <1>3, <1>4 DEF Clock

\* The router process is the same, and its record no shorter.
SameRouter ==
    /\ router'.proc = router.proc /\ router'.term = router.term
    /\ router'.led = router.led /\ router'.started = router.started
    /\ router'.inherited = router.inherited
    /\ router'.readings >= router.readings
    /\ record' >= record
    /\ Longest(router', record') = Longest(router, record)

\* Nothing placed on m was taken from it.
KeptOn(m) == \A list \in Lists : Clean(m, list, place) => Clean(m, list, place')

\* What is newly queued for m was read from the directory as it is now.
QueuedNow(m) ==
    \A q \in queue'[m] :
        q \in queue[m] \/ (q.reading <= router'.readings /\ Clean(m, q.list, place'))

\* Router::grant_term records no shorter a lease than it grants.
LEMMA GrantTermRecords ==
    ASSUME TypeOK, RecordInv, NEW k \in Nat, k >= router.readings,
           NEW ms \in {router.term, record},
           GrantTerm([router EXCEPT !.readings = k], ms)
    PROVE  /\ ms <= router.term /\ ms <= record'
           /\ SameRouter /\ RecordInv' /\ router'.readings = k
<1> DEFINE r == [router EXCEPT !.readings = k]
<1>1. /\ r \in RouterState /\ r.proc = router.proc /\ r.term = router.term
      /\ r.led = router.led /\ r.started = router.started
      /\ r.inherited = router.inherited /\ r.recorded = router.recorded
      /\ r.readings = k
  BY DEF TypeOK, RouterState
<1>2. router.term \in Nat /\ record \in Nat /\ router.term \in Terms
  BY LeasingAssumption DEF TypeOK, RouterState, LeasingAssumption
<1> HIDE DEF r
<1>3. GrantTerm(r, ms)
  BY DEF r
<1>4. /\ router'.proc = r.proc /\ router'.term = r.term /\ router'.led = r.led
      /\ router'.started = r.started /\ router'.inherited = r.inherited
      /\ router'.readings = r.readings
  BY <1>1, <1>3 DEF GrantTerm, RouterState
<1>5. \/ ms = r.term /\ record' = record /\ (r.recorded \/ record >= r.term)
      \/ ms = r.term /\ record < r.term /\ record' = r.term
      \/ ms = record /\ record < r.term /\ record' = record
  BY <1>3 DEF GrantTerm
<1>6. ms <= router.term /\ ms <= record' /\ record' >= record
  BY SMTT(60), <1>1, <1>2, <1>5 DEF RecordInv
<1>7. Longest(router', record') = Longest(router, record)
  BY SMTT(60), <1>1, <1>2, <1>4, <1>5 DEF Longest
<1>8. router'.recorded => record' >= router'.term
  <2>1. (router'.recorded = TRUE /\ ms = r.term) \/ router'.recorded = r.recorded
    BY <1>1, <1>3 DEF GrantTerm, RouterState
  <2> QED BY <1>1, <1>2, <1>4, <1>5, <1>6, <2>1 DEF RecordInv
<1>9. record' \in Terms \cup {0}
  BY <1>1, <1>2, <1>5 DEF RecordInv
<1> QED BY <1>1, <1>4, <1>6, <1>7, <1>8, <1>9 DEF SameRouter, RecordInv

\* The router's record of m is the same but for the grants and failovers under
\* way.
SameHeld(m) ==
    /\ held'[m].known = held[m].known /\ held'[m].acked = held[m].acked
    /\ held'[m].own = held[m].own /\ held'[m].next = held[m].next
    /\ held'[m].ackedGrant = held[m].ackedGrant /\ held'[m].lost = held[m].lost
    /\ held'[m].failing => router.led /\ held[m].known
    /\ ~held[m].known => held'[m] = UnknownHeld

\* A bound by a sum stays one where a term of the sum grows.
LEMMA SumGrows ==
    /\ \A u, a, b, t, s \in Nat : u <= a + t /\ a <= b /\ t <= s => u <= b + s
    /\ \A u, a, t, s \in Nat : u <= a + t /\ t <= s => u <= a + s
    /\ \A u, a, b, t \in Nat : u <= a + t /\ a <= b => u <= b + t
    /\ \A a, b, c \in Nat : a <= b /\ b <= c => a <= c
BY SMTT(60)

\* Times and lengths are numbers.
LEMMA Numeric ==
    ASSUME TypeOK, NEW n \in Nodes, ClocksInv(n)
    PROVE  /\ now \in Nat /\ Clock(n) \in Nat /\ Counted(n) \in Nat /\ Started(n) \in Nat
           /\ Since(held[n], router) \in 0 .. now /\ router.started \in 0 .. now
           /\ Started(n) <= Counted(n) /\ Counted(n) <= Clock(n)
           /\ router.term \in Nat /\ router.term \in Terms /\ record \in Nat
           /\ Longest(router, record) \in Nat
           /\ lease[n] \in LeaseState /\ lease[n].until \in Nat
           /\ \A b \in lease[n].basis : b.at \in Nat
           /\ \A a \in lease[n].answered : a.at \in Nat
           /\ \A g \in grants[n] : g \in Grant /\ g.ms \in Nat
<1>1. /\ now \in Nat /\ boot[n] \in [0 .. now -> Nat] /\ now \in 0 .. now
      /\ Since(held[n], router) \in Nat /\ router.started \in Nat
  BY SMTT(60) DEF TypeOK, RouterState, Since, Held
<1>2. Since(held[n], router) \in 0 .. now /\ router.started \in 0 .. now
  BY SMTT(60), <1>1 DEF ClocksInv
<1>3. Clock(n) \in Nat /\ Counted(n) \in Nat /\ Started(n) \in Nat
  BY <1>1, <1>2 DEF Clock, Counted, Started
<1>4. Started(n) <= Counted(n) /\ Counted(n) <= Clock(n)
  BY <1>1, <1>2 DEF ClocksInv, Clock, Counted, Started
<1>5. /\ router.term \in Nat /\ router.term \in Terms /\ record \in Nat
      /\ Longest(router, record) \in Nat
  BY LeasingAssumption DEF TypeOK, RouterState, LeasingAssumption, Longest
<1>6. lease[n] \in LeaseState /\ lease[n].until \in Nat
  BY DEF TypeOK, LeaseState
<1>7. /\ \A b \in lease[n].basis : b.at \in Nat
      /\ \A a \in lease[n].answered : a.at \in Nat
  BY SMTT(60) DEF TypeOK, LeaseState, Option, Answer
<1>8. \A g \in grants[n] : g \in Grant /\ g.ms \in Nat
  BY SMTT(60) DEF TypeOK, Grant
<1> QED BY <1>1, <1>2, <1>3, <1>4, <1>5, <1>6, <1>7, <1>8

\* A node an action does not touch keeps its part of the invariant.
LEMMA OtherNode ==
    ASSUME TypeOK, TypeOK', NEW m \in Nodes, NodeInv(m),
           now' = now, boot' = boot, SameRouter, KeptOn(m), QueuedNow(m),
           SameHeld(m), turn'[m] = turn[m], grants'[m] = grants[m],
           lease'[m] = lease[m], reply'[m] = reply[m], sent'[m] = sent[m]
    PROVE  NodeInv(m)'
<1>0. /\ ClocksInv(m) /\ HeldInv(m) /\ NumbersInv(m) /\ AnswersInv(m)
      /\ GrantTermsInv(m) /\ LeaseTermInv(m) /\ LostInv(m) /\ ListsInv(m)
  BY DEF NodeInv
<1>1. Clock(m)' = Clock(m)
  BY DEF Clock
<1>2. Since(held[m], router)' = Since(held[m], router)
  BY DEF Since, SameRouter, SameHeld
<1>3. Counted(m)' = Counted(m) /\ Started(m)' = Started(m)
  BY <1>2 DEF Counted, Started, SameRouter
<1>4. ClocksInv(m)'
  BY <1>0, <1>1, <1>2 DEF ClocksInv, ClockKept, SameRouter
<1>5. HeldInv(m)'
  <2>1. sent[m] \in Nat /\ router.readings \in Nat /\ router'.readings \in Nat
    BY DEF TypeOK, RouterState
  <2>2. \A q \in queue[m] : q.reading \in Nat
    BY SMTT(60) DEF TypeOK, Queued
  <2>3. record \in Nat /\ record' \in Nat /\ turn[m].ms \in Nat
    BY DEF TypeOK, Turn
  <2> QED BY SMTT(60), <1>0, <2>1, <2>2, <2>3 DEF HeldInv, SameHeld, SameRouter, QueuedNow
<1>6. \A g : Old(g, router)' <=> Old(g, router)
  BY DEF Old, SameRouter
<1>7. NumbersInv(m)'
  <2>1. /\ held'[m].next = held[m].next /\ held'[m].ackedGrant = held[m].ackedGrant
        /\ router'.proc = router.proc
    BY DEF SameRouter, SameHeld
  <2> QED BY <1>0, <1>6, <2>1 DEF NumbersInv
<1>8. AnswersInv(m)'
  BY <1>0, <1>3, <1>6 DEF AnswersInv, SameRouter, SameHeld
<1>9. record \in Nat /\ record' \in Nat /\ record <= record' /\ router.term \in Nat
  BY LeasingAssumption DEF TypeOK, RouterState, LeasingAssumption, SameRouter
<1>n. /\ Counted(m) \in Nat /\ Started(m) \in Nat /\ lease[m].until \in Nat
      /\ \A b \in lease[m].basis : b.at \in Nat
      /\ \A g \in grants[m] : g.ms \in Nat
  BY <1>0, Numeric
<1>10. GrantTermsInv(m)'
  <2>1. SUFFICES ASSUME NEW g \in grants[m], CanRun(lease[m], g, Clock(m))
                 PROVE  /\ g.ms <= record'
                        /\ ~Old(g, router') => g.ms <= router'.term
                        /\ Old(g, router') => /\ ~held'[m].own /\ ~RanReply(reply'[m])
                                              /\ g.ms <= Longest(router', record')
    BY <1>1 DEF GrantTermsInv
  <2>2. /\ g.ms <= record
        /\ ~Old(g, router) => g.ms <= router.term
        /\ Old(g, router) => /\ ~held[m].own /\ ~RanReply(reply[m])
                             /\ g.ms <= Longest(router, record)
    BY <1>0, <2>1 DEF GrantTermsInv
  <2>3. g.ms <= record'
    BY SMTT(60), <1>n, <1>9, <2>2
  <2> QED BY <1>6, <2>2, <2>3 DEF SameRouter, SameHeld
<1>11. LeaseTermInv(m)'
  <2>1. RunsOwn(m) => RunsOwn(m)'
    BY SMTT(60), <1>3, <1>9, <1>n DEF RunsOwn, SameRouter
  <2>2. RunsOld(m) => RunsOld(m)'
    BY SMTT(60), <1>3, <1>9, <1>n DEF RunsOld, SameRouter, SameHeld
  <2> QED BY <1>0, <1>1, <2>1, <2>2 DEF LeaseTermInv
<1>12. LostInv(m)'
  BY <1>0, <1>1, <1>3 DEF LostInv, SameRouter, SameHeld
<1>13. ListsInv(m)'
  <2>1. \A q \in queue[m] : q.list \in Lists
    BY SMTT(60) DEF TypeOK, Queued
  <2>2. turn[m].list \in Lists /\ turn[m].todo \in Lists
    BY DEF TypeOK, Turn
  <2>3. \A g \in grants[m] : g.list \in Lists
    BY SMTT(60) DEF TypeOK, Grant
  <2>4. \A list \in lease[m].list : list \in Lists
    BY DEF TypeOK, LeaseState, Option
  <2> QED BY <1>0, <1>1, <2>1, <2>2, <2>3, <2>4 DEF ListsInv, KeptOn, QueuedNow
<1> QED BY <1>4, <1>5, <1>7, <1>8, <1>10, <1>11, <1>12, <1>13 DEF NodeInv

\* What the router's record of n may become when it sends to n or hears of it.
Follows(n, h) ==
    /\ h.known /\ h.next = held[n].next
    /\ Since(held[n], router) <= h.acked /\ h.acked <= now
    /\ \A x \in h.ackedGrant : x[1] = router.proc /\ x[2] < h.next
    /\ \A g \in grants[n] : g.grant \notin h.ackedGrant
    /\ \A a \in lease[n].answered : a.grant \in h.ackedGrant => a.at <= boot[n][h.acked]
    /\ h.own => held[n].own \/ RanReply(reply[n])
    /\ h.lost => held[n].lost /\ h.acked = Since(held[n], router)
    /\ h.failing => held[n].failing

\* A record that follows keeps every bound there is on n's grants and lease.
LEMMA FollowsKeeps ==
    ASSUME TypeOK, TypeOK', NEW n \in Nodes, NodeInv(n), NEW h \in Held, Follows(n, h),
           now' = now, boot' = boot, SameRouter, lease'[n] = lease[n],
           held'[n].known, held'[n].acked = h.acked, held'[n].own = h.own
    PROVE  /\ Clock(n)' = Clock(n) /\ Started(n)' = Started(n)
           /\ Counted(n)' = boot[n][h.acked] /\ Counted(n) <= boot[n][h.acked]
           /\ boot[n][h.acked] \in Nat
           /\ ClocksInv(n)'
<1>1. ClocksInv(n)
  BY DEF NodeInv
<1>2. h.acked \in 0 .. now
  BY SMTT(60) DEF Follows, TypeOK, Held
<1>3. Clock(n)' = Clock(n) /\ Started(n)' = Started(n)
  BY DEF Clock, Started, SameRouter
<1>4. Since(held[n], router)' = h.acked
  BY DEF Since
<1>5. Counted(n)' = boot[n][h.acked]
  BY <1>4 DEF Counted
<1>6. Counted(n) <= boot[n][h.acked] /\ boot[n][h.acked] \in Nat
  <2>1. Since(held[n], router) \in 0 .. now
    BY <1>1, Numeric
  <2> QED BY <1>1, <1>2, <2>1 DEF Counted, Follows, ClocksInv, TypeOK
<1>7. ClocksInv(n)'
  <2>1. router.started <= h.acked /\ h.acked <= now
    <3>1. router.started \in Nat /\ Since(held[n], router) \in Nat /\ h.acked \in Nat
      <4>1. now \in Nat /\ Since(held[n], router) \in 0 .. now /\ router.started \in 0 .. now
        BY <1>1, Numeric
      <4> QED BY SMTT(60), <1>2, <4>1
    <3>2. /\ router.started <= Since(held[n], router) /\ Since(held[n], router) <= h.acked
          /\ h.acked <= now
      BY <1>1 DEF ClocksInv, Follows
    <3> QED BY <3>1, <3>2, SumGrows
  <2> QED BY <1>1, <1>3, <1>4, <2>1 DEF ClocksInv, ClockKept, SameRouter
<1> QED BY <1>3, <1>5, <1>6, <1>7

\* Where n's grants in flight are those there were, and no answer is awaited,
\* the bounds on what n may run stand.
LEMMA FollowsBounds ==
    ASSUME TypeOK, TypeOK', NEW n \in Nodes, NodeInv(n), NEW h \in Held, Follows(n, h),
           now' = now, boot' = boot, SameRouter, lease'[n] = lease[n], reply'[n] = {},
           held'[n].known, held'[n].acked = h.acked, held'[n].own = h.own,
           NEW g \in grants[n]
    PROVE  CanRun(lease[n], g, Clock(n)) =>
              /\ g.ms <= record'
              /\ ~Old(g, router') => g.ms <= router'.term
              /\ Old(g, router') => /\ ~held'[n].own /\ ~RanReply(reply'[n])
                                    /\ g.ms <= Longest(router', record')
<1>1. g.ms \in Nat /\ record \in Nat /\ record' \in Nat
  <2>1. grants[n] \subseteq Grant /\ record \in Nat /\ record' \in Nat
    BY DEF TypeOK
  <2> QED BY <2>1 DEF Grant
<1>2. Old(g, router') <=> Old(g, router)
  BY DEF Old, SameRouter
<1>3. ~RanReply(reply'[n])
  BY DEF RanReply
<1>4. record <= record' /\ router'.term = router.term
      /\ Longest(router', record') = Longest(router, record)
  BY DEF SameRouter
<1>5. held'[n].own => held[n].own \/ RanReply(reply[n])
  BY DEF Follows
<1>6. CanRun(lease[n], g, Clock(n)) =>
        /\ g.ms <= record
        /\ ~Old(g, router) => g.ms <= router.term
        /\ Old(g, router) => /\ ~held[n].own /\ ~RanReply(reply[n])
                             /\ g.ms <= Longest(router, record)
  BY DEF NodeInv, GrantTermsInv
<1>7. g.ms <= record => g.ms <= record'
  BY <1>1, <1>4, SumGrows
<1> QED BY <1>2, <1>3, <1>4, <1>5, <1>6, <1>7

\* The lease n runs is bounded by the record that follows as it was before.
LEMMA FollowsLeaseTerm ==
    ASSUME TypeOK, TypeOK', NEW n \in Nodes, NodeInv(n), NEW h \in Held, Follows(n, h),
           now' = now, boot' = boot, SameRouter, lease'[n] = lease[n], reply'[n] = {},
           held'[n].known, held'[n].acked = h.acked, held'[n].own = h.own
    PROVE  LeaseTermInv(n)'
<1>1. ClocksInv(n)
  BY DEF NodeInv
<1>2. /\ Clock(n)' = Clock(n) /\ Started(n)' = Started(n)
      /\ Counted(n)' = boot[n][h.acked] /\ Counted(n) <= boot[n][h.acked]
      /\ boot[n][h.acked] \in Nat
  BY FollowsKeeps
<1>3. /\ record <= record' /\ router'.term = router.term
      /\ Longest(router', record') = Longest(router, record)
  BY DEF SameRouter
<1>4. record' \in Nat
  BY DEF TypeOK
<1>5. /\ Counted(n) \in Nat /\ Started(n) \in Nat /\ router.term \in Nat /\ record \in Nat
      /\ Longest(router, record) \in Nat /\ lease[n].until \in Nat
      /\ \A b \in lease[n].basis : b.at \in Nat
  BY <1>1, Numeric
<1>6. RunsOwn(n) => RunsOwn(n)'
  <2>1. SUFFICES ASSUME RunsOwn(n) PROVE RunsOwn(n)'
    OBVIOUS
  <2>2. /\ lease[n].until <= Counted(n) + router.term /\ lease[n].until <= Counted(n) + record
        /\ \A b \in lease[n].basis : /\ lease[n].until <= b.at + router.term
                                     /\ lease[n].until <= b.at + record
    BY <2>1 DEF RunsOwn
  <2>3. /\ lease[n].until <= Counted(n)' + router.term /\ lease[n].until <= Counted(n)' + record'
        /\ \A b \in lease[n].basis : lease[n].until <= b.at + record'
    BY SMTT(60), <1>2, <1>3, <1>4, <1>5, <2>2
  <2> QED BY <1>3, <2>2, <2>3 DEF RunsOwn
<1>7. ASSUME RunsOld(n) PROVE RunsOld(n)'
  <2>1. ~held'[n].own /\ ~RanReply(reply'[n])
    BY <1>7 DEF RunsOld, Follows, RanReply
  <2> QED BY <1>2, <1>3, <1>4, <1>5, <1>7, <2>1, SumGrows DEF RunsOld
<1> QED BY <1>2, <1>6, <1>7 DEF NodeInv, LeaseTermInv

-----------------------------------------------------------------------------
\* The router's record of a node, before and after the node is known.
LEMMA EntryType ==
    ASSUME TypeOK, NEW n \in Nodes
    PROVE  Entry(n) \in Held
<1>1. FreshHeld \in Held
  BY DEF TypeOK, FreshHeld, Held, Option
<1> QED BY <1>1 DEF TypeOK, Entry

\* A free turn is a turn.
LEMMA FreeTurnType == FreeTurn \in Turn
BY DEF FreeTurn, Turn, Number, Lists

\* The router's fields and the record as they were.
LEMMA RouterKept ==
    ASSUME TypeOK, router' = router, record' = record
    PROVE  SameRouter
BY SMTT(60) DEF SameRouter, TypeOK, RouterState

\* A grant to n leaves the other nodes as they are.
LEMMA SendOthers ==
    ASSUME TypeOK, TypeOK', LeaseInv, NEW n \in Nodes, NEW h, NEW tn, Send(n, h, tn),
           now' = now, boot' = boot, lease' = lease, SameRouter,
           NEW m \in Nodes, m # n, KeptOn(m), QueuedNow(m), sent'[m] = sent[m]
    PROVE  NodeInv(m)'
<1>1. NodeInv(m)
  BY DEF LeaseInv
<1>2. /\ held'[m] = held[m] /\ turn'[m] = turn[m] /\ grants'[m] = grants[m]
      /\ reply'[m] = reply[m]
  BY DEF Send, TypeOK
<1>3. SameHeld(m)
  BY <1>1, <1>2 DEF SameHeld, NodeInv, HeldInv
<1> QED BY <1>1, <1>2, <1>3, OtherNode

\* So does a turn let go of.
LEMMA EndOthers ==
    ASSUME TypeOK, TypeOK', LeaseInv, NEW n \in Nodes, NEW h, NEW wh, NEW back,
           EndTurn(n, h, wh, back), now' = now, boot' = boot, lease' = lease,
           place' = place, sent' = sent, SameRouter,
           NEW m \in Nodes, m # n
    PROVE  NodeInv(m)'
<1>1. NodeInv(m)
  BY DEF LeaseInv
<1>2. /\ held'[m] = held[m] /\ turn'[m] = turn[m] /\ grants'[m] = grants[m]
      /\ reply'[m] = reply[m]
  BY DEF EndTurn, TypeOK
<1>3. queue'[m] = queue[m]
  <2>1. \/ queue' = queue
        \/ \E x : queue' = [queue EXCEPT ![n] = x]
    BY DEF EndTurn
  <2> QED BY <2>1 DEF TypeOK
<1>4. SameHeld(m)
  BY <1>1, <1>2 DEF SameHeld, NodeInv, HeldInv
<1>5. KeptOn(m) /\ QueuedNow(m)
  BY <1>3 DEF KeptOn, QueuedNow
<1> QED BY <1>1, <1>2, <1>4, <1>5, OtherNode

\* What the directory places on m, a round's lists included, is m's.
LEMMA PrimariesClean ==
    ASSUME NEW m, NEW pl, NEW wh
    PROVE  Clean(m, Primaries(m, pl, wh), pl)
BY DEF Clean, Primaries

-----------------------------------------------------------------------------
(* The types.                                                              *)

\* The answers a node keeps are answers (Lease::grant_at's push and pop).
LEMMA NotedType ==
    ASSUME NEW known \in SUBSET Answer, NEW a \in Answer
    PROVE  Noted(known, a) \in SUBSET Answer
BY DEF Noted

\* Reading a grant leaves the node with a lease state (Lease::grant_at).
LEMMA ReadGrantType ==
    ASSUME NEW s \in LeaseState, NEW g \in Grant, NEW t \in Nat
    PROVE  ReadGrant(s, g, t) \in LeaseState
<1>1. Known(s, g) \in SUBSET Answer
  BY DEF Known, LeaseState
<1>2. Basis(s, g) \in SUBSET [at : Nat, by : Number]
  BY DEF Basis, LeaseState, Option
<1>3. g.grant \in Number /\ g.ms \in Nat /\ g.list \in Lists /\ g.holder \in Holder
  BY DEF Grant
<1>4. Noted(Known(s, g), [grant |-> g.grant, at |-> t]) \in SUBSET Answer
  <2>1. [grant |-> g.grant, at |-> t] \in Answer
    BY <1>3 DEF Answer
  <2> QED BY <1>1, <2>1, NotedType
<1>5. ASSUME Newer(s, g)
      PROVE  (CHOOSE a \in From(s, g) : NewerFrom(a, s, g)).at \in Nat
  <2>2. (CHOOSE a \in From(s, g) : NewerFrom(a, s, g)) \in From(s, g)
    BY <1>5 DEF Newer
  <2>3. From(s, g) \subseteq Answer
    BY <1>1 DEF From
  <2> QED BY <2>2, <2>3 DEF Answer
<1>6. AfterGrant(s, g, t) \in LeaseState
  <2> DEFINE from == CHOOSE a \in From(s, g) : NewerFrom(a, s, g)
  <2>1. (IF Newer(s, g) THEN from.at + g.ms ELSE s.until) \in Nat
    BY SMTT(60), <1>3, <1>5 DEF LeaseState
  <2>2. (IF Took(s, g, t) THEN {g.list} ELSE s.list) \in SUBSET Lists
    BY <1>3 DEF LeaseState, Option
  <2>3. (IF Newer(s, g) THEN {[at |-> from.at, by |-> g.grant]} ELSE Basis(s, g))
          \in SUBSET [at : Nat, by : Number]
    BY SMTT(60), <1>2, <1>3, <1>5
  <2>4. {g.holder} \in SUBSET Holder
    BY <1>3
  <2> HIDE DEF from
  <2> QED BY <1>4, <2>1, <2>2, <2>3, <2>4 DEF AfterGrant, LeaseState, Option, from
<1> QED BY <1>6 DEF ReadGrant

\* What a node says of a grant is an answer the router tells apart.
LEMMA SaidType ==
    ASSUME NEW s \in LeaseState, NEW g \in Grant, NEW t \in Nat
    PROVE  Said(s, g, t) \in Reply
<1>1. CASE Superseded(s, g) \/ NeedsList(s, g)
  BY <1>1 DEF Said, Reply
<1>2. CASE ~Superseded(s, g) /\ ~NeedsList(s, g)
  <2>1. AfterGrant(s, g, t) \in LeaseState
    BY <1>2, ReadGrantType DEF ReadGrant
  <2>2. AfterGrant(s, g, t).until \in Nat
    BY <2>1 DEF LeaseState
  <2>3. Newer(s, g) \in BOOLEAN
    BY DEF Newer
  <2> QED BY SMTT(60), <1>2, <2>2, <2>3 DEF Said, Reply
<1> QED BY <1>1, <1>2

\* The record and what a grant runs stay lengths (Router::grant_term).
LEMMA GrantTermType ==
    ASSUME TypeOK, LeasingAssumption, NEW r \in RouterState,
           NEW ms \in {router.term, record}, GrantTerm(r, ms)
    PROVE  ms \in Nat /\ record' \in Nat /\ router' \in RouterState
<1>1. r.term \in Nat /\ router.term \in Nat
  BY DEF TypeOK, RouterState, LeasingAssumption
<1>2. r.term \in Terms /\ record \in Nat
  BY DEF TypeOK, RouterState
<1> QED BY <1>1, <1>2 DEF GrantTerm, RouterState

\* Sending a grant keeps the types of what it writes (Leases::number).
LEMMA SendType ==
    ASSUME TypeOK, NEW n \in Nodes, NEW h \in Held, NEW tn \in Turn, Send(n, h, tn)
    PROVE  /\ grants' \in [Nodes -> SUBSET Grant]
           /\ reply' \in [Nodes -> Option(Reply)]
           /\ turn' \in [Nodes -> Turn]
           /\ held' \in [Nodes -> Held]
<1> DEFINE number == <<router.proc, h.next>>
<1>1. number \in Number
  BY DEF TypeOK, RouterState, Held, Number
<1>2. [holder |-> router.holder, ms |-> tn.ms, list |-> tn.list, with |-> tn.with,
       grant |-> number, acked |-> h.ackedGrant] \in Grant
  BY <1>1 DEF TypeOK, RouterState, Held, Turn, Grant
<1>3. [tn EXCEPT !.phase = "waiting", !.grant = number] \in Turn
  BY <1>1 DEF Turn
<1>4. [h EXCEPT !.next = @ + 1] \in Held
  BY SMTT(60) DEF Held
<1> HIDE DEF number
<1>5. grants' \in [Nodes -> SUBSET Grant]
  BY <1>2 DEF Send, TypeOK, number
<1>6. reply' \in [Nodes -> Option(Reply)]
  BY DEF Send, TypeOK, Option
<1> QED BY <1>3, <1>4, <1>5, <1>6 DEF Send, TypeOK, number

\* Letting a turn go keeps the types of what it writes.
LEMMA EndTurnType ==
    ASSUME TypeOK, NEW n \in Nodes, NEW h \in Held, NEW wh \in [Nodes -> Lists],
           NEW back \in BOOLEAN, EndTurn(n, h, wh, back)
    PROVE  /\ turn' \in [Nodes -> Turn]
           /\ held' \in [Nodes -> Held]
           /\ reply' \in [Nodes -> Option(Reply)]
           /\ left' \in [Nodes -> Lists]
           /\ router' \in RouterState
           /\ queue' \in [Nodes -> SUBSET Queued]
           /\ grants' \in [Nodes -> SUBSET Grant]
<1>1. turn' \in [Nodes -> Turn]
  BY FreeTurnType DEF EndTurn, TypeOK
<1>2. held' \in [Nodes -> Held]
  <2>1. [h EXCEPT !.granting = @ /\ ~turn[n].round] \in Held
    BY DEF Held
  <2> QED BY <2>1 DEF EndTurn, TypeOK
<1>3. reply' \in [Nodes -> Option(Reply)]
  BY DEF EndTurn, TypeOK, Option
<1>4. left' \in [Nodes -> Lists]
  BY DEF EndTurn, TypeOK, Lists
<1>5. router' \in RouterState
  <2>1. [router EXCEPT !.readings = @ + 1] \in RouterState
    <3>1. router.readings + 1 \in Nat
      BY SMTT(60) DEF TypeOK, RouterState
    <3> QED BY <3>1 DEF TypeOK, RouterState
  <2>2. CASE back
    BY <2>1, <2>2 DEF EndTurn
  <2>3. CASE ~back
    BY <2>3 DEF EndTurn, TypeOK
  <2> QED BY <2>2, <2>3
<1>6. queue' \in [Nodes -> SUBSET Queued]
  <2>1. [list |-> Primaries(n, place, wh), round |-> FALSE,
         reading |-> router.readings + 1] \in Queued
    BY SMTT(60) DEF Queued, Primaries, Lists, TypeOK, RouterState
  <2>2. CASE back
    <3>1. queue' = [queue EXCEPT ![n] = @ \cup
                     {[list |-> Primaries(n, place, wh), round |-> FALSE,
                       reading |-> router.readings + 1]}]
      BY <2>2 DEF EndTurn
    <3> QED BY <2>1, <3>1 DEF TypeOK
  <2>3. CASE ~back
    BY <2>3 DEF EndTurn, TypeOK
  <2> QED BY <2>2, <2>3
<1>7. grants' \in [Nodes -> SUBSET Grant]
  BY DEF EndTurn, TypeOK
<1> QED BY <1>1, <1>2, <1>3, <1>4, <1>5, <1>6, <1>7

\* A failover's grants keep the types of what they write.
LEMMA GrantedAfterType ==
    ASSUME TypeOK, LeasingAssumption, NEW n \in Nodes,
           NEW pl, NEW wh, NEW over \in Lists, GrantedAfter(n, pl, wh, over)
    PROVE  /\ sent' \in [Nodes -> Nat]
           /\ queue' \in [Nodes -> SUBSET Queued]
           /\ record' \in Nat
           /\ router' \in RouterState
           /\ grants' \in [Nodes -> SUBSET Grant]
           /\ reply' \in [Nodes -> Option(Reply)]
           /\ turn' \in [Nodes -> Turn]
           /\ held' \in [Nodes -> Held]
<1>1. router.readings + 1 \in Nat
  BY SMTT(60) DEF TypeOK, RouterState
<1>2. \A m : Primaries(m, pl, wh) \in Lists
  BY DEF Primaries, Lists
<1>3. sent' \in [Nodes -> Nat]
  BY <1>1 DEF GrantedAfter, TypeOK
<1>4. queue' \in [Nodes -> SUBSET Queued]
  <2>1. \A m : [list |-> Primaries(m, pl, wh), reading |-> router.readings + 1,
                round |-> FALSE] \in Queued
    BY <1>1, <1>2 DEF Queued
  <2> QED BY <2>1 DEF GrantedAfter, TypeOK
<1>5. PICK ms \in {router.term, record} :
        /\ GrantTerm([router EXCEPT !.readings = router.readings + 1], ms)
        /\ StartGrant(n, Primaries(n, pl, wh), ms, FALSE, over)
  BY DEF GrantedAfter
<1>6. [router EXCEPT !.readings = router.readings + 1] \in RouterState
  BY <1>1 DEF TypeOK, RouterState
<1>7. ms \in Nat /\ record' \in Nat /\ router' \in RouterState
  BY <1>5, <1>6, GrantTermType
<1>8. [FreeTurn EXCEPT !.list = Primaries(n, pl, wh), !.ms = ms, !.round = FALSE, !.over = over,
                       !.with = (Entry(n).list # {Primaries(n, pl, wh)})] \in Turn
  BY <1>2, <1>7, FreeTurnType DEF Turn
<1> QED BY <1>3, <1>4, <1>5, <1>7, <1>8, EntryType, SendType DEF StartGrant

\* Every step keeps the types.
LEMMA TypeStep ==
    ASSUME TypeOK, LeasingAssumption, [Next]_vars
    PROVE  TypeOK'
<1> USE DEF Option
<1>1. ASSUME NEW n \in Nodes, TakeTurn(n) PROVE TypeOK'
  <2>1. PICK q \in queue[n] :
          /\ queue' = [queue EXCEPT ![n] = @ \ {q}]
          /\ \/ /\ q.reading < sent[n]
                /\ held' = [held EXCEPT ![n].granting = @ /\ ~q.round]
                /\ UNCHANGED <<router, record, sent, grants, reply, turn>>
             \/ /\ q.reading >= sent[n]
                /\ sent' = [sent EXCEPT ![n] = q.reading]
                /\ \E ms \in {router.term, record} :
                      GrantTerm(router, ms) /\ StartGrant(n, q.list, ms, q.round, {})
    BY <1>1 DEF TakeTurn
  <2>2. q \in Queued /\ queue' \in [Nodes -> SUBSET Queued]
    BY <2>1 DEF TypeOK
  <2>3. CASE /\ held' = [held EXCEPT ![n].granting = @ /\ ~q.round]
             /\ UNCHANGED <<router, record, sent, grants, reply, turn>>
    <3>1. held' \in [Nodes -> Held]
      <4>1. [held[n] EXCEPT !.granting = @ /\ ~q.round] \in Held
        <5>1. held[n] \in Held
          BY DEF TypeOK
        <5> QED BY <5>1 DEF Held
      <4>2. held' = [held EXCEPT ![n] = [held[n] EXCEPT !.granting = @ /\ ~q.round]]
        BY <2>3 DEF TypeOK
      <4> QED BY <4>1, <4>2 DEF TypeOK
    <3> QED BY <1>1, <2>2, <2>3, <3>1 DEF TakeTurn, TypeOK
  <2>4. CASE /\ sent' = [sent EXCEPT ![n] = q.reading]
             /\ \E ms \in {router.term, record} :
                   GrantTerm(router, ms) /\ StartGrant(n, q.list, ms, q.round, {})
    <3>1. PICK ms \in {router.term, record} :
             GrantTerm(router, ms) /\ StartGrant(n, q.list, ms, q.round, {})
      BY <2>4
    <3>2. ms \in Nat /\ record' \in Nat /\ router' \in RouterState
      <4>1. router \in RouterState /\ record \in Nat
        BY DEF TypeOK
      <4> QED BY <3>1, <4>1, GrantTermType
    <3>3. [FreeTurn EXCEPT !.list = q.list, !.ms = ms, !.round = q.round, !.over = {},
                           !.with = (Entry(n).list # {q.list})] \in Turn
      BY <2>2, <3>2, FreeTurnType DEF Turn, Queued, Lists
    <3>4. /\ grants' \in [Nodes -> SUBSET Grant]
          /\ reply' \in [Nodes -> SUBSET Reply]
          /\ turn' \in [Nodes -> Turn]
          /\ held' \in [Nodes -> Held]
      BY <3>1, <3>3, EntryType, SendType DEF StartGrant
    <3>5. sent' \in [Nodes -> Nat]
      BY <2>2, <2>4 DEF TypeOK, Queued
    <3> QED BY <1>1, <2>2, <3>2, <3>4, <3>5 DEF TakeTurn, TypeOK
  <2> QED BY <2>1, <2>3, <2>4
<1>2. ASSUME NEW n \in Nodes, Hear(n) PROVE TypeOK'
  <2>1. PICK a \in reply[n] :
        LET h    == AfterAnswer(n, a)
            back == turn[n].back \/ (held[n].lost /\ ~h.lost)
            wh   == IF held[n].lost /\ ~h.lost
                    THEN [withheld EXCEPT ![n] = {}] ELSE withheld
            more == Again([turn[n] EXCEPT !.back = back], a)
        IN  /\ withheld' = wh
            /\ \/ \E tn \in more : Send(n, h, tn) /\ UNCHANGED <<router, queue, left>>
               \/ more = {} /\ EndTurn(n, h, wh, back)
    BY <1>2 DEF Hear
  <2> DEFINE h    == AfterAnswer(n, a)
             back == turn[n].back \/ (held[n].lost /\ ~h.lost)
             wh   == IF held[n].lost /\ ~h.lost
                     THEN [withheld EXCEPT ![n] = {}] ELSE withheld
             more == Again([turn[n] EXCEPT !.back = back], a)
  <2>2. a \in Reply /\ turn[n] \in Turn /\ held[n] \in Held
    BY DEF TypeOK
  <2>3. h \in Held
    <3>1. turn[n].grant \in Number /\ turn[n].list \in Lists /\ now \in Nat
      BY <2>2 DEF Turn, TypeOK
    <3>2. a.kind \in {"taken", "kept", "needs_list", "superseded"} /\ a.ran \in BOOLEAN
      BY <2>2 DEF Reply
    <3>3. CASE a.kind = "taken"
      BY <2>2, <3>1, <3>2, <3>3 DEF AfterAnswer, Held
    <3>4. CASE a.kind = "kept"
      BY <2>2, <3>1, <3>4 DEF AfterAnswer, Held
    <3>5. CASE a.kind = "needs_list"
      BY <2>2, <3>5 DEF AfterAnswer, Held
    <3>6. CASE a.kind = "superseded"
      BY <2>2, <3>6 DEF AfterAnswer, Held
    <3> QED BY <3>2, <3>3, <3>4, <3>5, <3>6
  <2>4. back \in BOOLEAN
    BY <2>2 DEF Turn
  <2>5. wh \in [Nodes -> Lists]
    BY DEF TypeOK, Lists
  <2>6. \A tn \in more : tn \in Turn
    <3>1. [turn[n] EXCEPT !.back = back] \in Turn
      BY <2>2, <2>4 DEF Turn
    <3>2. ASSUME NEW u \in Turn PROVE \A tn \in Again(u, a) : tn \in Turn
      <4>1. /\ [u EXCEPT !.with = TRUE] \in Turn
            /\ [u EXCEPT !.with = TRUE, !.followed = TRUE] \in Turn
            /\ [u EXCEPT !.with = FALSE, !.followed = TRUE] \in Turn
        BY DEF Turn
      <4> QED BY <4>1 DEF Again
    <3> QED BY <3>1, <3>2
  <2> HIDE DEF h, back, wh, more
  <2>7. CASE \E tn \in more : Send(n, h, tn) /\ UNCHANGED <<router, queue, left>>
    <3>1. PICK tn \in more : Send(n, h, tn) /\ UNCHANGED <<router, queue, left>>
      BY <2>7
    <3>2. /\ grants' \in [Nodes -> SUBSET Grant]
          /\ reply' \in [Nodes -> SUBSET Reply]
          /\ turn' \in [Nodes -> Turn]
          /\ held' \in [Nodes -> Held]
      BY <2>3, <2>6, <3>1, SendType
    <3>3. withheld' = wh
      BY <2>1 DEF h, wh
    <3> QED BY <1>2, <2>5, <3>1, <3>2, <3>3 DEF Hear, TypeOK, dirVars
  <2>8. CASE EndTurn(n, h, wh, back)
    <3>1. withheld' = wh
      BY <2>1 DEF h, wh
    <3>2. /\ turn' \in [Nodes -> Turn]
          /\ held' \in [Nodes -> Held]
          /\ reply' \in [Nodes -> SUBSET Reply]
          /\ left' \in [Nodes -> Lists]
          /\ router' \in RouterState
          /\ queue' \in [Nodes -> SUBSET Queued]
          /\ grants' \in [Nodes -> SUBSET Grant]
      BY SMTT(60), <2>3, <2>4, <2>5, <2>8, EndTurnType
    <3> QED BY <1>2, <2>5, <3>1, <3>2 DEF Hear, TypeOK, dirVars
  <2> QED BY <2>1, <2>7, <2>8 DEF h, back, wh, more
<1>3. ASSUME NEW n \in Nodes, GiveUp(n) PROVE TypeOK'
  <2>1. held[n] \in Held /\ turn[n].back \in BOOLEAN /\ withheld \in [Nodes -> Lists]
    BY DEF TypeOK, Turn
  <2>2. EndTurn(n, held[n], withheld, turn[n].back)
    BY <1>3 DEF GiveUp
  <2>3. /\ turn' \in [Nodes -> Turn]
        /\ held' \in [Nodes -> Held]
        /\ reply' \in [Nodes -> SUBSET Reply]
        /\ left' \in [Nodes -> Lists]
        /\ router' \in RouterState
        /\ queue' \in [Nodes -> SUBSET Queued]
        /\ grants' \in [Nodes -> SUBSET Grant]
    BY SMTT(60), <2>1, <2>2, EndTurnType
  <2> QED BY <1>3, <2>3 DEF GiveUp, TypeOK, dirVars
<1>4. ASSUME NEW n \in Nodes, NodeReads(n) PROVE TypeOK'
  <2>1. PICK g \in grants[n] :
        /\ grants' = [grants EXCEPT ![n] = @ \ {g}]
        /\ lease' = [lease EXCEPT ![n] = ReadGrant(@, g, Clock(n))]
        /\ reply' = IF turn[n].phase = "waiting" /\ turn[n].grant = g.grant
                    THEN [reply EXCEPT ![n] = {Said(lease[n], g, Clock(n))}]
                    ELSE reply
    BY <1>4 DEF NodeReads
  <2>2. g \in Grant /\ Clock(n) \in Nat /\ lease[n] \in LeaseState
    BY SMTT(60) DEF TypeOK, Clock
  <2>3. ReadGrant(lease[n], g, Clock(n)) \in LeaseState
    BY <2>2, ReadGrantType
  <2>4. Said(lease[n], g, Clock(n)) \in Reply
    BY <2>2, SaidType
  <2>5. lease' \in [Nodes -> LeaseState] /\ grants' \in [Nodes -> SUBSET Grant]
    BY <2>1, <2>3 DEF TypeOK
  <2>6. reply' \in [Nodes -> SUBSET Reply]
    BY <2>1, <2>4 DEF TypeOK
  <2> QED BY <1>4, <2>5, <2>6 DEF NodeReads, TypeOK, dirVars
<1>5. ASSUME Round PROVE TypeOK'
  <2>1. PICK lower \in BOOLEAN :
        LET lead == Leading
            wh   == IF router.led THEN withheld ELSE [n \in Nodes |-> {}]
            r    == [lead EXCEPT !.inherited = IF lower THEN router.term ELSE @,
                                 !.readings = @ + 1]
        IN  /\ record' = IF lower THEN router.term ELSE record
            /\ router' = r
            /\ withheld' = wh
            /\ held' = [n \in Nodes |->
                          [RoundEntry(n) EXCEPT !.granting = TRUE,
                                                !.failing = @ \/ Suspect(RoundEntry(n), r)]]
            /\ queue' = [n \in Nodes |->
                           IF held[n].granting THEN queue[n]
                           ELSE queue[n] \cup {[list |-> Primaries(n, place, wh),
                                                reading |-> r.readings, round |-> TRUE]}]
    BY <1>5 DEF Round
  <2> DEFINE lead == Leading
             wh   == IF router.led THEN withheld ELSE [n \in Nodes |-> {}]
             r    == [lead EXCEPT !.inherited = IF lower THEN router.term ELSE @,
                                  !.readings = @ + 1]
  <2>2. router.term \in Nat /\ router.term \in Terms /\ now \in Nat /\ record \in Nat
    BY DEF TypeOK, RouterState, LeasingAssumption
  <2>3. lead \in RouterState
    <3>1. (IF record > router.term THEN record ELSE router.term) \in Nat
      BY <2>2
    <3>2. router \in RouterState
      BY DEF TypeOK
    <3> QED BY <2>2, <3>1, <3>2 DEF Leading, RouterState
  <2>4. r \in RouterState
    <3> HIDE DEF lead
    <3>1. lead.readings + 1 \in Nat /\ (IF lower THEN router.term ELSE lead.inherited) \in Nat
      BY SMTT(60), <2>2, <2>3 DEF RouterState
    <3> QED BY <2>3, <3>1 DEF RouterState
  <2>5. \A n \in Nodes : RoundEntry(n) \in Held
    <3>1. \A h \in Held : [h EXCEPT !.acked = now] \in Held
      BY <2>2 DEF Held
    <3> QED BY <3>1, EntryType DEF RoundEntry
  <2> HIDE DEF r, lead
  <2>6. held' \in [Nodes -> Held]
    <3>1. ASSUME NEW n \in Nodes
          PROVE  [RoundEntry(n) EXCEPT !.granting = TRUE,
                       !.failing = @ \/ Suspect(RoundEntry(n), r)] \in Held
      <4>1. (RoundEntry(n).failing \/ Suspect(RoundEntry(n), r)) \in BOOLEAN
        OBVIOUS
      <4> QED BY <2>5, <4>1 DEF Held
    <3>2. held' = [n \in Nodes |->
                      [RoundEntry(n) EXCEPT !.granting = TRUE,
                            !.failing = @ \/ Suspect(RoundEntry(n), r)]]
      BY <2>1 DEF r, lead
    <3> QED BY <3>1, <3>2
  <2>7. withheld' \in [Nodes -> Lists]
    <3>1. withheld' = wh
      BY <2>1
    <3> QED BY <3>1 DEF TypeOK, Lists
  <2>8. queue' \in [Nodes -> SUBSET Queued]
    <3>1. \A n : [list |-> Primaries(n, place, wh), reading |-> r.readings,
                  round |-> TRUE] \in Queued
      <4>1. \A n : Primaries(n, place, wh) \in Lists
        BY DEF Primaries, Lists
      <4>2. r.readings \in Nat
        BY <2>4 DEF RouterState
      <4> QED BY <4>1, <4>2 DEF Queued
    <3> HIDE DEF wh
    <3>2. queue' = [n \in Nodes |->
                      IF held[n].granting THEN queue[n]
                      ELSE queue[n] \cup {[list |-> Primaries(n, place, wh),
                                           reading |-> r.readings, round |-> TRUE]}]
      BY <2>1 DEF r, lead, wh
    <3> QED BY <3>1, <3>2 DEF TypeOK
  <2>9. record' \in Nat /\ router' \in RouterState
    <3>1. record' = (IF lower THEN router.term ELSE record) /\ router' = r
      BY <2>1 DEF r, lead
    <3> QED BY <2>2, <2>4, <3>1
  <2> QED BY <1>5, <2>6, <2>7, <2>8, <2>9 DEF Round, TypeOK, nodeVars
<1>6. ASSUME NEW n \in Nodes, ConfirmLapse(n) PROVE TypeOK'
  <2> DEFINE lapsed == ~held[n].refuses /\ ~held[n].lost /\ Lapsed(held[n], router)
  <2>1. [held[n] EXCEPT !.failing = FALSE, !.lost = @ \/ lapsed] \in Held
    <3>1. held[n] \in Held /\ (held[n].lost \/ lapsed) \in BOOLEAN
      BY DEF TypeOK
    <3> QED BY <3>1 DEF Held
  <2>2. held' = [held EXCEPT ![n] = [held[n] EXCEPT !.failing = FALSE, !.lost = @ \/ lapsed]]
    BY <1>6 DEF ConfirmLapse, TypeOK
  <2>3. [FreeTurn EXCEPT !.phase = "failover",
                         !.todo = {t \in Tenants : place[t] = {n}}] \in Turn
    BY FreeTurnType DEF Turn, Lists
  <2>4. turn' \in [Nodes -> Turn]
    BY <1>6, <2>3 DEF ConfirmLapse, TypeOK
  <2>5. held' \in [Nodes -> Held]
    BY <2>1, <2>2 DEF TypeOK
  <2> QED BY <1>6, <2>4, <2>5 DEF ConfirmLapse, TypeOK, nodeVars, dirVars
<1>7. ASSUME NEW n \in Nodes, NEW t \in Tenants, Promote(n, t) PROVE TypeOK'
  <2>1. turn[n] \in Turn /\ turn[n].todo \in SUBSET Tenants /\ turn[n].over \in SUBSET Tenants
    BY DEF TypeOK, Turn, Lists
  <2>2. /\ [turn[n] EXCEPT !.todo = @ \ {t}] \in Turn
        /\ [turn[n] EXCEPT !.todo = @ \ {t}, !.over = @ \cup {t}] \in Turn
    BY <2>1 DEF Turn, Lists
  <2>3. \/ turn' = [turn EXCEPT ![n] = [turn[n] EXCEPT !.todo = @ \ {t}]]
        \/ turn' = [turn EXCEPT ![n] = [turn[n] EXCEPT !.todo = @ \ {t}, !.over = @ \cup {t}]]
    BY <1>7 DEF Promote
  <2>4. turn' \in [Nodes -> Turn]
    BY <2>2, <2>3 DEF TypeOK
  <2>5. place' \in [Tenants -> SUBSET Places]
    <3>1. place' = place \/ \E to \in Places \ {n} : place' = [place EXCEPT ![t] = {to}]
      BY <1>7 DEF Promote
    <3>2. CASE place' = place
      BY <3>2 DEF TypeOK
    <3>3. ASSUME NEW to \in Places \ {n}, place' = [place EXCEPT ![t] = {to}]
          PROVE  place' \in [Tenants -> SUBSET Places]
      BY <3>3 DEF TypeOK
    <3> QED BY <3>1, <3>2, <3>3
  <2> QED BY <1>7, <2>4, <2>5 DEF Promote, TypeOK, nodeVars
<1>8. ASSUME NEW n \in Nodes, FinishFailover(n) PROVE TypeOK'
  <2>1. turn[n].over \in Lists
    BY DEF TypeOK, Turn
  <2>2. withheld' \in [Nodes -> Lists] /\ left' \in [Nodes -> Lists]
    BY <1>8, <2>1 DEF FinishFailover, TypeOK, Lists
  <2>3. GrantedAfter(n, place, withheld', turn[n].over)
    BY <1>8 DEF FinishFailover
  <2> QED BY <1>8, <2>1, <2>2, <2>3, GrantedAfterType DEF FinishFailover, TypeOK
<1>9. ASSUME NEW n \in Nodes, HeldPass(n) PROVE TypeOK'
  <2>1. PICK ready \in SUBSET left[n] :
        /\ \E moved \in SUBSET {t \in ready : place[t] = {n}} :
             \E to \in [moved -> Places \ {n}] :
               place' = [t \in Tenants |-> IF t \in moved THEN {to[t]} ELSE place[t]]
        /\ withheld' = [withheld EXCEPT ![n] = @ \ ready]
        /\ left' = [left EXCEPT ![n] = @ \ ready]
    BY <1>9 DEF HeldPass
  <2>2. place' \in [Tenants -> SUBSET Places]
    BY SMTT(60), <2>1 DEF TypeOK
  <2>3. withheld' \in [Nodes -> Lists] /\ left' \in [Nodes -> Lists]
    BY <2>1 DEF TypeOK, Lists
  <2>4. GrantedAfter(n, place', withheld', left'[n])
    BY <1>9 DEF HeldPass
  <2> QED BY <1>9, <2>2, <2>3, <2>4, GrantedAfterType DEF HeldPass, TypeOK
<1>10. ASSUME NEW n \in Nodes, HeldEnd(n) PROVE TypeOK'
  <2>1. withheld' \in [Nodes -> Lists] /\ left' \in [Nodes -> Lists]
    BY <1>10 DEF HeldEnd, TypeOK, Lists
  <2> QED BY <1>10, <2>1 DEF HeldEnd, TypeOK, nodeVars, dirVars
<1>11. ASSUME NEW t \in Tenants, NEW n \in Nodes, Arrive(t, n) PROVE TypeOK'
  <2>1. router.readings + 1 \in Nat /\ router \in RouterState
    BY SMTT(60) DEF TypeOK, RouterState
  <2>2. [router EXCEPT !.readings = @ + 1] \in RouterState
    BY <2>1 DEF RouterState
  <2>3. [list |-> Primaries(n, place', withheld), round |-> FALSE,
         reading |-> router.readings + 1] \in Queued
    BY <2>1 DEF Queued, Primaries, Lists
  <2>4. queue' \in [Nodes -> SUBSET Queued]
    BY <1>11, <2>3 DEF Arrive, TypeOK
  <2>5. place' \in [Tenants -> SUBSET Places]
    BY <1>11 DEF Arrive, TypeOK, Places
  <2>6. router' \in RouterState
    BY <1>11, <2>2 DEF Arrive
  <2> QED BY <1>11, <2>4, <2>5, <2>6 DEF Arrive, TypeOK, nodeVars
<1>12. ASSUME NextRouter PROVE TypeOK'
  <2>1. PICK term \in Terms, forked \in {0, 1} :
          router' = NewRouter(router.proc + 1, term,
                              [term |-> router.holder.term + forked,
                               history |-> router.holder.history + forked])
    BY <1>12 DEF NextRouter
  <2>2. router.proc + 1 \in Nat
    BY SMTT(60) DEF TypeOK, RouterState
  <2>3. [term |-> router.holder.term + forked,
         history |-> router.holder.history + forked] \in Holder
    BY SMTT(60) DEF TypeOK, RouterState, Holder
  <2>4. term \in Nat /\ now \in Nat
    BY DEF LeasingAssumption, TypeOK
  <2>5. router' \in RouterState
    BY <2>1, <2>2, <2>3, <2>4 DEF NewRouter, RouterState
  <2>6. UnknownHeld \in Held
    BY DEF UnknownHeld, Held
  <2>7. held' \in [Nodes -> Held] /\ turn' \in [Nodes -> Turn]
    BY <1>12, <2>6, FreeTurnType DEF NextRouter
  <2>8. /\ reply' \in [Nodes -> SUBSET Reply] /\ sent' \in [Nodes -> Nat]
        /\ queue' \in [Nodes -> SUBSET Queued]
        /\ withheld' \in [Nodes -> Lists] /\ left' \in [Nodes -> Lists]
    BY <1>12 DEF NextRouter, Lists
  <2> QED BY <1>12, <2>5, <2>7, <2>8 DEF NextRouter, TypeOK, dirVars
<1>13. ASSUME NEW n \in Nodes, NodeRestarts(n) PROVE TypeOK'
  <2>1. NewLease \in LeaseState
    BY DEF NewLease, LeaseState
  <2> QED BY <1>13, <2>1 DEF NodeRestarts, TypeOK, dirVars
<1>14. ASSUME Tick PROVE TypeOK'
  <2>1. PICK step \in [Nodes -> {0, 1}] :
        boot' = [n \in Nodes |->
                   [i \in 0 .. now + 1 |-> IF i <= now THEN boot[n][i]
                                           ELSE boot[n][now] + step[n]]]
    BY <1>14 DEF Tick
  <2>2. now' = now + 1 /\ now \in Nat
    BY <1>14 DEF Tick, TypeOK
  <2>3. ASSUME NEW n \in Nodes, NEW i \in 0 .. now + 1
        PROVE  (IF i <= now THEN boot[n][i] ELSE boot[n][now] + step[n]) \in Nat
    <3>1. boot[n] \in [0 .. now -> Nat] /\ step[n] \in {0, 1}
      BY DEF TypeOK
    <3> QED BY SMTT(60), <2>2, <3>1
  <2>4. boot' \in [Nodes -> [0 .. now' -> Nat]]
    BY <2>1, <2>2, <2>3
  <2> QED BY SMTT(60), <1>14, <2>2, <2>4 DEF Tick, TypeOK, nodeVars, dirVars
<1>15. ASSUME UNCHANGED vars PROVE TypeOK'
  BY <1>15 DEF vars, TypeOK, nodeVars, dirVars
<1> QED
  BY <1>1, <1>2, <1>3, <1>4, <1>5, <1>6, <1>7, <1>8, <1>9, <1>10, <1>11, <1>12,
     <1>13, <1>14, <1>15 DEF Next

\* Type correctness, for every number of nodes and tenants and any leases.
THEOREM TypeCorrect == Spec => []TypeOK
<1>1. Init => TypeOK
  <2> SUFFICES ASSUME Init PROVE TypeOK
    OBVIOUS
  <2> USE DEF Option
  <2>1. PICK term \in Terms : router = NewRouter(0, term, [term |-> 0, history |-> 0])
    BY DEF Init
  <2>2. router \in RouterState
    BY <2>1, LeasingAssumption DEF NewRouter, RouterState, Init, Holder, LeasingAssumption
  <2>3. NewLease \in LeaseState /\ UnknownHeld \in Held
    BY DEF NewLease, LeaseState, UnknownHeld, Held
  <2> QED BY SMTT(60), <2>2, <2>3, FreeTurnType DEF Init, TypeOK, Lists
<1>2. TypeOK /\ [Next]_vars => TypeOK'
  BY TypeStep, LeasingAssumption
<1> QED BY <1>1, <1>2, PTL DEF Spec

-----------------------------------------------------------------------------
(* The steps that send and hear nothing.                                   *)

\* A step that changes only which nodes are granted and what is withheld keeps
\* the invariant (Leases::granting, the end of Router::fail_over_held).
LEMMA Untouched ==
    ASSUME TypeOK, TypeOK', LeaseInv, now' = now, boot' = boot, lease' = lease,
           grants' = grants, reply' = reply, place' = place, record' = record,
           router' = router, turn' = turn, sent' = sent, queue' = queue,
           \A m \in Nodes : SameHeld(m)
    PROVE  LeaseInv'
<1>1. SameRouter /\ RecordInv'
  BY RouterKept DEF LeaseInv, RecordInv
<1>2. ASSUME NEW m \in Nodes PROVE NodeInv(m)'
  <2>1. NodeInv(m) /\ KeptOn(m) /\ QueuedNow(m) /\ SameHeld(m)
    BY DEF LeaseInv, KeptOn, QueuedNow
  <2> QED BY <1>1, <2>1, OtherNode
<1> QED BY <1>1, <1>2 DEF LeaseInv

\* A record that did not change is the same.
LEMMA HeldSame ==
    ASSUME LeaseInv, NEW m \in Nodes, held'[m] = held[m]
    PROVE  SameHeld(m)
BY DEF LeaseInv, NodeInv, HeldInv, SameHeld

\* The end of Router::fail_over_held changes only what the next grants name.
LEMMA HeldEndSafe ==
    ASSUME TypeOK, TypeOK', LeaseInv, NEW n \in Nodes, HeldEnd(n)
    PROVE  LeaseInv'
<1>1. /\ now' = now /\ boot' = boot /\ lease' = lease /\ grants' = grants
      /\ reply' = reply /\ place' = place /\ record' = record /\ router' = router
      /\ turn' = turn /\ sent' = sent /\ queue' = queue /\ held' = held
  BY DEF HeldEnd, nodeVars, dirVars
<1>2. \A m \in Nodes : SameHeld(m)
  BY <1>1, HeldSame
<1> QED BY <1>1, <1>2, Untouched

\* A tenant that arrives was on no node watched, and n is granted what the
\* directory places there.
LEMMA ArriveKeeps ==
    ASSUME TypeOK, TypeOK', LeaseInv, NEW n \in Nodes, NEW t \in Tenants, Arrive(t, n)
    PROVE  LeaseInv'
<1>1. /\ now' = now /\ boot' = boot /\ lease' = lease /\ grants' = grants
      /\ reply' = reply /\ record' = record /\ turn' = turn /\ sent' = sent
      /\ held' = held /\ place' = [place EXCEPT ![t] = {n}]
      /\ place[t] = {} \/ place[t] = {Elsewhere}
      /\ router' = [router EXCEPT !.readings = router.readings + 1]
      /\ queue' = [queue EXCEPT ![n] = @ \cup
                     {[list |-> Primaries(n, place', withheld), round |-> FALSE,
                       reading |-> router.readings + 1]}]
  BY DEF Arrive, nodeVars
<1>2. /\ router'.readings = router.readings + 1 /\ router.readings \in Nat
      /\ router'.proc = router.proc /\ router'.term = router.term
      /\ router'.led = router.led /\ router'.started = router.started
      /\ router'.inherited = router.inherited /\ router'.recorded = router.recorded
  BY <1>1 DEF TypeOK, RouterState
<1>3. SameRouter /\ RecordInv'
  <2>1. record' >= record /\ Longest(router', record') = Longest(router, record)
    BY SMTT(60), <1>1, <1>2 DEF TypeOK, Longest
  <2> QED BY SMTT(60), <1>1, <1>2, <2>1 DEF SameRouter, LeaseInv, RecordInv
<1>4. ASSUME NEW m \in Nodes PROVE NodeInv(m)'
  <2>1. KeptOn(m)
    <3>1. place[t] # {m} /\ \A x \in Tenants : x # t => place'[x] = place[x]
      BY <1>1, LeasingAssumption DEF LeasingAssumption, TypeOK
    <3> QED BY <3>1 DEF KeptOn, Clean, Lists
  <2>2. QueuedNow(m)
    <3>1. Clean(n, Primaries(n, place', withheld), place')
      BY DEF Clean, Primaries
    <3>2. \A q \in queue'[m] :
            \/ q \in queue[m]
            \/ m = n /\ q = [list |-> Primaries(n, place', withheld), round |-> FALSE,
                             reading |-> router.readings + 1]
      BY <1>1 DEF TypeOK
    <3>3. router.readings + 1 <= router'.readings
      BY SMTT(60), <1>2
    <3> QED BY SMTT(60), <3>1, <3>2, <3>3 DEF QueuedNow
  <2>3. SameHeld(m) /\ NodeInv(m)
    BY <1>1, HeldSame DEF LeaseInv
  <2> QED BY <1>1, <1>3, <2>1, <2>2, <2>3, OtherNode
<1> QED BY <1>3, <1>4 DEF LeaseInv

\* A tenant leaves a node that runs nothing, and may run nothing it is still
\* to read (Router::failover).
LEMMA PromoteKeeps ==
    ASSUME TypeOK, TypeOK', LeaseInv, NEW n \in Nodes, NEW t \in Tenants, Promote(n, t)
    PROVE  LeaseInv'
<1>1. /\ now' = now /\ boot' = boot /\ lease' = lease /\ grants' = grants
      /\ reply' = reply /\ record' = record /\ sent' = sent /\ router' = router
      /\ held' = held /\ queue' = queue
      /\ turn[n].phase = "failover" /\ t \in turn[n].todo
  BY DEF Promote, nodeVars
<1>2. \E x : turn' = [turn EXCEPT ![n] =
                        [turn[n] EXCEPT !.todo = turn[n].todo \ {t}, !.over = x]]
  <2>1. turn[n] = [turn[n] EXCEPT !.over = turn[n].over] /\ turn[n] \in Turn
    BY DEF TypeOK, Turn
  <2>2. [turn[n] EXCEPT !.todo = turn[n].todo \ {t}]
          = [turn[n] EXCEPT !.todo = turn[n].todo \ {t}, !.over = turn[n].over]
    BY <2>1 DEF Turn
  <2> QED BY <2>2 DEF Promote
<1>3. turn'[n].phase = "failover" /\ turn'[n].todo \subseteq turn[n].todo \ {t}
  BY SMTT(60), <1>1, <1>2 DEF TypeOK, Turn
<1>4. \A m \in Nodes : m # n => turn'[m] = turn[m]
  BY <1>2 DEF TypeOK
<1>5. \A x \in Tenants : x # t => place'[x] = place[x]
  BY DEF Promote, TypeOK
<1>6. NodeInv(n) /\ place[t] = {n}
  BY <1>1 DEF LeaseInv, NodeInv, ListsInv, Clean
<1>7. SameRouter /\ RecordInv'
  BY <1>1, RouterKept DEF LeaseInv, RecordInv
<1>8. ASSUME NEW m \in Nodes, m # n PROVE NodeInv(m)'
  <2>1. KeptOn(m)
    BY <1>5, <1>6, <1>8 DEF KeptOn, Clean, Lists
  <2>2. SameHeld(m) /\ NodeInv(m) /\ QueuedNow(m)
    BY <1>1, HeldSame DEF LeaseInv, QueuedNow
  <2> QED BY <1>1, <1>4, <1>7, <1>8, <2>1, <2>2, OtherNode
<1>9. NodeInv(n)'
  <2>1. /\ Clock(n)' = Clock(n) /\ Counted(n)' = Counted(n) /\ Started(n)' = Started(n)
        /\ Since(held[n], router)' = Since(held[n], router)
    BY <1>1 DEF Clock, Counted, Started, Since
  <2>2. \A g : Old(g, router)' <=> Old(g, router)
    BY <1>1 DEF Old
  <2>3. /\ ClocksInv(n) /\ HeldInv(n) /\ NumbersInv(n) /\ AnswersInv(n)
        /\ GrantTermsInv(n) /\ LeaseTermInv(n) /\ LostInv(n) /\ ListsInv(n)
    BY <1>6 DEF NodeInv
  <2>4. ClocksInv(n)' /\ AnswersInv(n)'
    BY <1>1, <2>1, <2>2, <2>3 DEF ClocksInv, ClockKept, AnswersInv
  <2>5. HeldInv(n)'
    BY <1>1, <1>3, <2>3 DEF HeldInv
  <2>6. NumbersInv(n)'
    BY <1>1, <1>3, <2>2, <2>3 DEF NumbersInv
  <2>7. GrantTermsInv(n)' /\ LostInv(n)'
    BY <1>1, <2>1, <2>2, <2>3 DEF GrantTermsInv, LostInv
  <2>8. LeaseTermInv(n)'
    BY <1>1, <2>1, <2>3 DEF LeaseTermInv, RunsOwn, RunsOld
  <2>9. ListsInv(n)'
    <3>1. /\ ~Running(lease[n], Clock(n))
          /\ \A g \in grants[n] : ~CanRun(lease[n], g, Clock(n))
      BY <1>1, <2>3 DEF HeldInv, LostInv
    <3>2. Clean(n, turn'[n].todo, place')
      <4>1. turn[n].todo \in Lists
        BY DEF TypeOK, Turn
      <4> QED BY <1>1, <1>3, <1>5, <2>3, <4>1 DEF ListsInv, Clean, Lists
    <3> QED BY <1>1, <1>3, <2>1, <3>1, <3>2 DEF ListsInv
  <2> QED BY <2>4, <2>5, <2>6, <2>7, <2>8, <2>9 DEF NodeInv
<1> QED BY <1>7, <1>8, <1>9 DEF LeaseInv

\* A lapse confirmed in the node's turn: the node runs nothing, and nothing
\* it is still to read can run (Leases::confirm_lapse).
LEMMA LapseIsSafe ==
    ASSUME TypeOK, LeaseInv, NEW n \in Nodes, held[n].failing, Lapsed(held[n], router)
    PROVE  /\ Counted(n) + router.term <= Clock(n)
           /\ ~Running(lease[n], Clock(n))
           /\ \A g \in grants[n] : ~CanRun(lease[n], g, Clock(n))
<1> DEFINE l == TermOf(held[n], router)
<1>1. /\ ClocksInv(n) /\ HeldInv(n) /\ AnswersInv(n)
      /\ GrantTermsInv(n) /\ LeaseTermInv(n) /\ RecordInv
  BY DEF LeaseInv, NodeInv
<1>2. router.led /\ held[n].known
  BY <1>1 DEF HeldInv
<1>3. Since(held[n], router) = held[n].acked
  BY <1>2 DEF Since
<1>4. /\ Clock(n) \in Nat /\ Counted(n) \in Nat /\ Started(n) \in Nat /\ now \in Nat
      /\ held[n].acked \in 0 .. now /\ Started(n) <= Counted(n)
      /\ router.term \in Nat /\ router.term \in Terms /\ lease[n].until \in Nat
      /\ lease[n] \in LeaseState
      /\ \A a \in lease[n].answered : a.at \in Nat
      /\ \A g \in grants[n] : g \in Grant /\ g.ms \in Nat
  BY <1>1, <1>3, Numeric
<1>5. router.inherited \in Terms /\ router.inherited \in Nat
      /\ router.inherited >= router.term
  BY <1>1, LeasingAssumption DEF RecordInv, LeasingAssumption
<1>6. /\ l \in Terms /\ l \in Nat /\ router.term <= l
      /\ ~held[n].own => l = router.inherited
  BY SMTT(60), <1>4, <1>5 DEF TermOf
<1>7. now - held[n].acked > Lapse(l)
  BY DEF Lapsed
<1> HIDE DEF l
<1>8. Counted(n) + l <= Clock(n)
  BY <1>1, <1>3, <1>4, <1>6, <1>7, LapseOnClock DEF Counted
<1>9. Longest(router, record) = router.inherited
  BY <1>2 DEF Longest
<1>10. ~Running(lease[n], Clock(n))
  <2>1. RunsOwn(n) => lease[n].until <= Clock(n)
    BY SMTT(60), <1>4, <1>6, <1>8 DEF RunsOwn
  <2>2. RunsOld(n) => lease[n].until <= Clock(n)
    BY SMTT(60), <1>4, <1>6, <1>8, <1>9 DEF RunsOld
  <2> QED BY SMTT(60), <1>1, <1>4, <2>1, <2>2 DEF LeaseTermInv, Running
<1>11. ASSUME NEW g \in grants[n], CanRun(lease[n], g, Clock(n)) PROVE FALSE
  <2>1. PICK a \in lease[n].answered : a.grant \in g.acked /\ a.at + g.ms > Clock(n)
    BY <1>4, <1>11, CanRunFrom
  <2>2. a.at <= Counted(n)
    BY <1>1, <2>1 DEF AnswersInv
  <2>3. g.ms <= l
    <3>1. /\ ~Old(g, router) => g.ms <= router.term
          /\ Old(g, router) => ~held[n].own /\ g.ms <= Longest(router, record)
      BY <1>1, <1>11 DEF GrantTermsInv
    <3> QED BY SMTT(60), <1>4, <1>6, <1>9, <3>1
  <2>4. a.at \in Nat /\ g.ms \in Nat
    BY <1>4
  <2> QED BY SMTT(60), <1>4, <1>6, <1>8, <2>1, <2>2, <2>3, <2>4
<1> QED BY SMTT(60), <1>4, <1>6, <1>8, <1>10, <1>11

\* A lapse confirmed or not, the node's turn taken for its failover.
LEMMA ConfirmLapseKeeps ==
    ASSUME TypeOK, TypeOK', LeaseInv, NEW n \in Nodes, ConfirmLapse(n)
    PROVE  LeaseInv'
<1> DEFINE lapsed == ~held[n].refuses /\ ~held[n].lost /\ Lapsed(held[n], router)
           over == [FreeTurn EXCEPT !.phase = "failover",
                                    !.todo = {t \in Tenants : place[t] = {n}}]
<1>1. /\ now' = now /\ boot' = boot /\ lease' = lease /\ grants' = grants
      /\ reply' = reply /\ record' = record /\ sent' = sent /\ router' = router
      /\ place' = place /\ queue' = queue
      /\ turn[n].phase = "free" /\ held[n].failing
      /\ held' = [held EXCEPT ![n].failing = FALSE, ![n].lost = @ \/ lapsed]
      /\ turn' = IF lapsed THEN [turn EXCEPT ![n] = over] ELSE turn
  BY DEF ConfirmLapse, nodeVars, dirVars
<1>2. NodeInv(n) /\ held[n] \in Held
  BY DEF LeaseInv, TypeOK
<1>3. /\ held'[n].known = held[n].known /\ held'[n].acked = held[n].acked
      /\ held'[n].own = held[n].own /\ held'[n].next = held[n].next
      /\ held'[n].ackedGrant = held[n].ackedGrant /\ held'[n].failing = FALSE
      /\ held'[n].lost = (held[n].lost \/ lapsed)
  BY SMTT(60), <1>1, <1>2 DEF TypeOK, Held
<1>4. held[n].known /\ router.led
  BY <1>1, <1>2 DEF NodeInv, HeldInv
<1>5. \A m \in Nodes : m # n => held'[m] = held[m]
  BY <1>1 DEF TypeOK
<1>6. CASE ~lapsed
  <2>1. SameHeld(n)
    <3>1. held'[n].lost = held[n].lost
      BY <1>2, <1>3, <1>6 DEF Held
    <3> QED BY <1>3, <1>4, <3>1 DEF SameHeld
  <2>2. \A m \in Nodes : SameHeld(m)
    BY <1>5, <2>1, HeldSame
  <2> QED BY <1>1, <1>6, <2>2, Untouched
<1>7. CASE lapsed
  <2>1. turn' = [turn EXCEPT ![n] = over] /\ held'[n].lost /\ Lapsed(held[n], router)
    BY <1>1, <1>3, <1>7
  <2>2. /\ turn'[n].phase = "failover"
        /\ turn'[n].todo = {t \in Tenants : place[t] = {n}}
    BY SMTT(60), <2>1, FreeTurnType DEF TypeOK, Turn
  <2>3. SameRouter /\ RecordInv'
    BY <1>1, RouterKept DEF LeaseInv, RecordInv
  <2> HIDE DEF lapsed, over
  <2>4. ASSUME NEW m \in Nodes, m # n PROVE NodeInv(m)'
    <3>1. turn'[m] = turn[m] /\ SameHeld(m) /\ NodeInv(m) /\ KeptOn(m) /\ QueuedNow(m)
      BY <1>1, <1>5, <2>1, <2>4, HeldSame DEF TypeOK, LeaseInv, KeptOn, QueuedNow
    <3> QED BY <1>1, <2>3, <3>1, OtherNode
  <2>5. /\ Clock(n)' = Clock(n) /\ Counted(n)' = Counted(n) /\ Started(n)' = Started(n)
        /\ Since(held[n], router)' = Since(held[n], router)
    BY <1>1, <1>3 DEF Clock, Counted, Started, Since
  <2>6. \A g : Old(g, router)' <=> Old(g, router)
    BY <1>1 DEF Old
  <2>7. /\ ClocksInv(n) /\ HeldInv(n) /\ NumbersInv(n) /\ AnswersInv(n)
        /\ GrantTermsInv(n) /\ LeaseTermInv(n) /\ ListsInv(n)
    BY <1>2 DEF NodeInv
  <2>8. ClocksInv(n)' /\ AnswersInv(n)'
    BY <1>1, <1>3, <2>5, <2>6, <2>7 DEF ClocksInv, ClockKept, AnswersInv
  <2>9. HeldInv(n)'
    BY <1>1, <1>3, <1>4, <2>1, <2>2, <2>7 DEF HeldInv
  <2>10. NumbersInv(n)'
    BY <1>1, <1>3, <2>2, <2>6, <2>7 DEF NumbersInv
  <2>11. GrantTermsInv(n)'
    BY <1>1, <1>3, <2>5, <2>6, <2>7 DEF GrantTermsInv
  <2>12. LeaseTermInv(n)'
    BY <1>1, <1>3, <2>5, <2>7 DEF LeaseTermInv, RunsOwn, RunsOld
  <2>13. /\ Counted(n) + router.term <= Clock(n)
         /\ ~Running(lease[n], Clock(n))
         /\ \A g \in grants[n] : ~CanRun(lease[n], g, Clock(n))
    BY <1>1, <2>1, LapseIsSafe
  <2>14. LostInv(n)'
    BY <1>1, <2>5, <2>13 DEF LostInv
  <2>15. ListsInv(n)'
    BY <1>1, <2>2, <2>5, <2>13 DEF ListsInv, Clean
  <2>16. NodeInv(n)'
    BY <2>8, <2>9, <2>10, <2>11, <2>12, <2>14, <2>15 DEF NodeInv
  <2> QED BY <2>3, <2>4, <2>16 DEF LeaseInv
<1> QED BY <1>6, <1>7

\* A node that restarts runs nothing and knows no grant it answered.
LEMMA NodeRestartsKeeps ==
    ASSUME TypeOK, TypeOK', LeaseInv, NEW n \in Nodes, NodeRestarts(n)
    PROVE  LeaseInv'
<1>1. /\ now' = now /\ boot' = boot /\ grants' = grants /\ turn' = turn
      /\ reply' = reply /\ record' = record /\ sent' = sent /\ router' = router
      /\ place' = place /\ queue' = queue /\ held' = held
      /\ lease' = [lease EXCEPT ![n] = NewLease]
  BY DEF NodeRestarts, dirVars
<1>2. SameRouter /\ RecordInv'
  BY <1>1, RouterKept DEF LeaseInv, RecordInv
<1>3. ASSUME NEW m \in Nodes, m # n PROVE NodeInv(m)'
  <2>1. lease'[m] = lease[m] /\ SameHeld(m) /\ NodeInv(m) /\ KeptOn(m) /\ QueuedNow(m)
    BY <1>1, <1>3, HeldSame DEF TypeOK, LeaseInv, KeptOn, QueuedNow
  <2> QED BY <1>1, <1>2, <2>1, OtherNode
<1>4. NodeInv(n)'
  <2>1. /\ ClocksInv(n) /\ HeldInv(n) /\ NumbersInv(n) /\ LostInv(n) /\ ListsInv(n)
    BY DEF LeaseInv, NodeInv
  <2>2. lease'[n] = NewLease /\ lease'[n].answered = {}
    BY <1>1 DEF TypeOK, NewLease
  <2>3. /\ Clock(n)' = Clock(n) /\ Counted(n)' = Counted(n)
        /\ Since(held[n], router)' = Since(held[n], router)
        /\ \A g : Old(g, router)' <=> Old(g, router)
    BY <1>1 DEF Clock, Counted, Since, Old
  <2>4. /\ ~Running(lease'[n], Clock(n))
        /\ \A g \in grants[n] : ~CanRun(lease'[n], g, Clock(n))
    <3>1. Clock(n) \in Nat /\ \A g \in grants[n] : g \in Grant
      BY <2>1, Numeric
    <3> QED BY SMTT(60), <2>2, <3>1, NewLeaseIdle DEF NewLease, Running
  <2>5. ClocksInv(n)' /\ AnswersInv(n)'
    BY <1>1, <2>1, <2>2, <2>3 DEF ClocksInv, ClockKept, AnswersInv
  <2>6. HeldInv(n)' /\ NumbersInv(n)'
    <3>1. HeldInv(n)'
      BY <1>1, <2>1 DEF HeldInv
    <3>2. NumbersInv(n)'
      BY <1>1, <2>1, <2>2, <2>3 DEF NumbersInv
    <3> QED BY <3>1, <3>2
  <2>7. GrantTermsInv(n)' /\ LeaseTermInv(n)' /\ LostInv(n)'
    BY <1>1, <2>1, <2>3, <2>4 DEF GrantTermsInv, LeaseTermInv, LostInv
  <2>8. ListsInv(n)'
    BY <1>1, <2>1, <2>3, <2>4 DEF ListsInv
  <2> QED BY <2>5, <2>6, <2>7, <2>8 DEF NodeInv
<1> QED BY <1>2, <1>3, <1>4 DEF LeaseInv

\* Time passes: what a node runs runs out, and what could not run cannot.
LEMMA TickKeeps ==
    ASSUME TypeOK, TypeOK', LeaseInv, Tick
    PROVE  LeaseInv'
<1>1. /\ lease' = lease /\ now' = now + 1 /\ grants' = grants /\ turn' = turn
      /\ reply' = reply /\ record' = record /\ sent' = sent /\ router' = router
      /\ place' = place /\ queue' = queue /\ held' = held
      /\ \A n \in Nodes : ClockKept(boot'[n], now + 1)
  BY DEF Tick, dirVars, nodeVars
<1>2. RecordInv'
  BY <1>1 DEF LeaseInv, RecordInv
<1>3. ASSUME NEW n \in Nodes PROVE NodeInv(n)'
  <2>1. /\ ClocksInv(n) /\ HeldInv(n) /\ NumbersInv(n) /\ AnswersInv(n)
        /\ GrantTermsInv(n) /\ LeaseTermInv(n) /\ LostInv(n) /\ ListsInv(n)
    BY DEF LeaseInv, NodeInv
  <2>2. PICK d \in {0, 1} :
          boot'[n] = [i \in 0 .. now + 1 |-> IF i <= now THEN boot[n][i]
                                             ELSE boot[n][now] + d]
    BY DEF Tick
  <2>3. /\ now \in Nat /\ Clock(n) \in Nat /\ Since(held[n], router) \in 0 .. now
        /\ router.started \in 0 .. now /\ lease[n] \in LeaseState
        /\ Counted(n) \in Nat /\ router.term \in Nat /\ lease[n].until \in Nat
        /\ \A a \in lease[n].answered : a.at \in Nat
        /\ \A g \in grants[n] : g \in Grant
    BY <2>1, Numeric
  <2>4. \A i \in 0 .. now : boot'[n][i] = boot[n][i] /\ boot[n][i] \in Nat
    <3>1. boot[n] \in [0 .. now -> Nat]
      BY DEF TypeOK
    <3>2. \A i \in 0 .. now : i \in 0 .. now + 1 /\ i <= now
      BY SMTT(60), <2>3
    <3> QED BY <2>2, <3>1, <3>2
  <2>5. boot'[n][now + 1] = boot[n][now] + d
    BY SMTT(60), <2>2, <2>3
  <2>6. Clock(n)' \in Nat /\ Clock(n) <= Clock(n)'
    BY SMTT(60), <1>1, <2>3, <2>4, <2>5 DEF Clock
  <2>7. Since(held[n], router)' = Since(held[n], router)
    BY <1>1 DEF Since
  <2>8. Counted(n)' = Counted(n) /\ Started(n)' = Started(n)
    <3>1. Counted(n)' = boot'[n][Since(held[n], router)]
      BY <2>7 DEF Counted
    <3>2. Started(n)' = boot'[n][router.started]
      BY <1>1 DEF Started
    <3> QED BY <2>3, <2>4, <3>1, <3>2 DEF Counted, Started
  <2>9. \A i, j \in 0 .. now + 1 : i <= j => boot'[n][i] <= boot'[n][j]
    <3>1. SUFFICES ASSUME NEW i \in 0 .. now + 1, NEW j \in 0 .. now + 1, i <= j
                   PROVE  boot'[n][i] <= boot'[n][j]
      OBVIOUS
    <3>2. CASE j <= now
      <4>1. i \in 0 .. now /\ j \in 0 .. now
        BY SMTT(60), <2>3, <3>1, <3>2
      <4> QED BY <2>1, <2>4, <3>1, <4>1 DEF ClocksInv
    <3>3. CASE j = now + 1 /\ i <= now
      <4>1. i \in 0 .. now /\ now \in 0 .. now
        BY SMTT(60), <2>3, <3>3
      <4>2. boot[n][i] <= boot[n][now]
        BY SMTT(60), <2>1, <2>3, <4>1 DEF ClocksInv
      <4> QED BY SMTT(60), <2>4, <2>5, <3>3, <4>1, <4>2
    <3>4. CASE j = now + 1 /\ i = now + 1
      <4>1. boot'[n][now + 1] \in Nat
        BY SMTT(60), <2>3, <2>4, <2>5
      <4> QED BY SMTT(60), <3>4, <4>1
    <3> QED BY SMTT(60), <2>3, <3>1, <3>2, <3>3, <3>4
  <2>10. ClocksInv(n)'
    <3>1. \A a \in lease[n].answered : a.at <= Clock(n)'
      BY <2>1, <2>3, <2>6, SumGrows DEF ClocksInv
    <3>2. Since(held[n], router) <= now + 1 /\ router.started <= Since(held[n], router)
      BY SMTT(60), <2>1, <2>3 DEF ClocksInv
    <3> QED BY <1>1, <2>7, <2>9, <3>1, <3>2 DEF ClocksInv
  <2>11. \A g : Old(g, router)' <=> Old(g, router)
    BY <1>1 DEF Old
  <2>12. Running(lease[n], Clock(n)') => Running(lease[n], Clock(n))
    BY SMTT(60), <2>3, <2>6 DEF Running
  <2>13. \A g \in grants[n] :
           CanRun(lease[n], g, Clock(n)') => CanRun(lease[n], g, Clock(n))
    BY <2>3, <2>6, CanRunLater
  <2>14. HeldInv(n)'
    BY <1>1, <2>1 DEF HeldInv
  <2>15. NumbersInv(n)'
    BY <1>1, <2>1, <2>11 DEF NumbersInv
  <2>16. AnswersInv(n)'
    BY <1>1, <2>1, <2>8, <2>11 DEF AnswersInv
  <2>17. GrantTermsInv(n)'
    BY <1>1, <2>1, <2>11, <2>13 DEF GrantTermsInv
  <2>18. LeaseTermInv(n)'
    BY <1>1, <2>1, <2>8, <2>12 DEF LeaseTermInv, RunsOwn, RunsOld
  <2>19. LostInv(n)'
    <3>1. held[n].lost => /\ Counted(n) + router.term <= Clock(n)
                          /\ ~Running(lease[n], Clock(n))
                          /\ \A g \in grants[n] : ~CanRun(lease[n], g, Clock(n))
      BY <2>1 DEF LostInv
    <3>2. held[n].lost => Counted(n) + router.term <= Clock(n)'
      BY SMTT(60), <2>3, <2>6, <3>1
    <3> QED BY <1>1, <2>8, <2>12, <2>13, <3>1, <3>2 DEF LostInv
  <2>20. ListsInv(n)'
    BY <1>1, <2>1, <2>12, <2>13 DEF ListsInv
  <2> QED BY <2>10, <2>14, <2>15, <2>16, <2>17, <2>18, <2>19, <2>20 DEF NodeInv
<1> QED BY <1>2, <1>3 DEF LeaseInv

==============================================================================
