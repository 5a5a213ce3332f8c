----------------------------- MODULE LeasingInv -----------------------------
(***************************************************************************)
(* The invariant that makes OnePrimary inductive. Its idea: from the lapse *)
(* on, nothing node n has read or may still read lets it run a lease, so a *)
(* tenant may leave it; and whatever is granted after names what the       *)
(* directory places there. CanRun says what a grant in flight may still do *)
(* to its node, and a grant that cannot run never can again.               *)
(***************************************************************************)
EXTENDS Leasing

\* Read at `clock`, the grant would have a node in state s run a lease.
CanRun(s, g, clock) ==
    \E a \in From(s, g) : NewerFrom(a, s, g) /\ a.at + g.ms > clock

\* Every tenant a list names is placed on n.
Clean(n, list, pl) == \A t \in list : pl[t] = {n}

\* Sent by a router process before r.
Old(g, r) == g.grant[1] # r.proc

\* Since when a node is counted as granted, known to the process or not yet.
Since(h, r) == IF h.known THEN h.acked ELSE r.started

\* The longest lease an earlier process may have granted.
Longest(r, rec) ==
    IF r.led THEN r.inherited ELSE IF rec > r.term THEN rec ELSE r.term

\* An answer on its way says that the node ran a lease of this process.
RanReply(rep) == \E a \in rep : a.ran

\* What n's clock read as n was last counted as granted, and as this process
\* started.
Counted(n) == boot[n][Since(held[n], router)]
Started(n) == boot[n][router.started]

------------------------------------------------------------------------------
ClocksInv(n) ==
    /\ \A i, j \in 0 .. now : i <= j => boot[n][i] <= boot[n][j]
    /\ ClockKept(boot[n], now)
    /\ router.started <= Since(held[n], router)
    /\ Since(held[n], router) <= now
    /\ \A a \in lease[n].answered : a.at <= Clock(n)

RecordInv ==
    /\ record \in Terms \cup {0}
    /\ router.recorded => record >= router.term
    /\ router.inherited \in Terms /\ router.inherited >= router.term

HeldInv(n) ==
    /\ held[n].lost \/ held[n].failing => router.led /\ held[n].known
    /\ turn[n].phase = "failover" => held[n].lost
    /\ turn[n].phase # "free" => held[n].known
    /\ turn[n].phase = "waiting" => turn[n].ms <= router.term /\ turn[n].ms <= record
    /\ ~held[n].known => held[n] = UnknownHeld
    /\ sent[n] <= router.readings
    /\ \A q \in queue[n] : q.reading <= router.readings

\* A process's numbers are below its next, and an acknowledged one is of the
\* same process and no longer in flight.
NumbersInv(n) ==
    /\ \A g \in grants[n] :
        /\ g.grant[1] <= router.proc
        /\ ~Old(g, router) => g.grant[2] < held[n].next
        /\ \A x \in g.acked :
            x[1] = g.grant[1] /\ (~Old(g, router) => x[2] < held[n].next)
        /\ \A f \in grants[n] : f.grant \notin g.acked /\ (f.grant = g.grant => f = g)
        /\ g.grant \notin held[n].ackedGrant
        /\ turn[n].phase = "waiting" /\ reply[n] # {} => g.grant # turn[n].grant
    /\ \A x \in held[n].ackedGrant : x[1] = router.proc /\ x[2] < held[n].next
    /\ turn[n].phase = "waiting" =>
        turn[n].grant[1] = router.proc /\ turn[n].grant[2] < held[n].next
    /\ \A a \in lease[n].answered : a.grant[1] <= router.proc

\* An acknowledged answer was given before the node was last counted as
\* granted; one an earlier process heard, before this process started and
\* before any answer this process was given.
AnswersInv(n) ==
    \A a \in lease[n].answered :
        /\ a.grant \in held[n].ackedGrant => a.at <= Counted(n)
        /\ \A g \in grants[n] : a.grant \in g.acked =>
            /\ a.at <= Counted(n)
            /\ Old(g, router) =>
                /\ a.at <= Started(n)
                /\ \A c \in lease[n].answered :
                     c.grant[1] = router.proc => a.at < c.at

\* How long a grant in flight, and the lease a node runs, may last: one of
\* this process, or one of an earlier that no lease of this process followed.
GrantTermsInv(n) ==
    \A g \in grants[n] : CanRun(lease[n], g, Clock(n)) =>
        /\ g.ms <= record
        /\ ~Old(g, router) => g.ms <= router.term
        /\ Old(g, router) => /\ ~held[n].own /\ ~RanReply(reply[n])
                             /\ g.ms <= Longest(router, record)

RunsOwn(n) ==
    /\ lease[n].until <= Counted(n) + router.term
    /\ lease[n].until <= Counted(n) + record
    /\ \A b \in lease[n].basis : /\ lease[n].until <= b.at + router.term
                                 /\ lease[n].until <= b.at + record

RunsOld(n) ==
    /\ ~held[n].own /\ ~RanReply(reply[n])
    /\ lease[n].until <= Started(n) + Longest(router, record)
    /\ lease[n].until <= Started(n) + record
    /\ \A b \in lease[n].basis : lease[n].until <= b.at + record

LeaseTermInv(n) == Running(lease[n], Clock(n)) => RunsOwn(n) \/ RunsOld(n)

\* A node failed over runs nothing, and may run nothing it is still to read.
LostInv(n) ==
    held[n].lost =>
        /\ Counted(n) + router.term <= Clock(n)
        /\ ~Running(lease[n], Clock(n))
        /\ \A g \in grants[n] : ~CanRun(lease[n], g, Clock(n))

\* What is granted, or is to be, names what the directory places on the node.
ListsInv(n) ==
    /\ \A q \in queue[n] :
        q.reading >= sent[n] /\ turn[n].phase # "failover" => Clean(n, q.list, place)
    /\ turn[n].phase = "waiting" => Clean(n, turn[n].list, place)
    /\ turn[n].phase = "failover" => Clean(n, turn[n].todo, place)
    /\ \A g \in grants[n] : CanRun(lease[n], g, Clock(n)) => Clean(n, g.list, place)
    /\ Running(lease[n], Clock(n)) => \A list \in lease[n].list : Clean(n, list, place)

NodeInv(n) ==
    /\ ClocksInv(n) /\ HeldInv(n) /\ NumbersInv(n) /\ AnswersInv(n)
    /\ GrantTermsInv(n) /\ LeaseTermInv(n) /\ LostInv(n) /\ ListsInv(n)

\* The inductive invariant of grant, lapse and failover: Lease::grant_at,
\* Leases::confirm_lapse and Router::fail_over_lapsed keep all of it.
LeaseInv == RecordInv /\ \A n \in Nodes : NodeInv(n)

\* What makes WithheldTracked inductive: a node's grants leave tenants out
\* only while it is lost, and no more once it answered (Leases::answered,
\* Leases::withhold).
WithheldInv ==
    \A n \in Nodes :
        /\ withheld[n] \subseteq left[n]
        /\ withheld[n] # {} => held[n].lost
        /\ turn[n].back => withheld[n] = {}
=============================================================================
