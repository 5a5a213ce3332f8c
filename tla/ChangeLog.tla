----------------------------- MODULE ChangeLog -----------------------------
(* The change ring of a database (fenec-core/src/changes.rs): a bounded      *)
(* queue of marks "this id of this collection changed", a counter, and the   *)
(* smallest cursor the marks still serve.  Its two readers are modelled in   *)
(* Subscriptions (a stream of a collection's changes) and Looks (a held      *)
(* write looking among the rows written since it last looked).               *)
EXTENDS Naturals, SequencesExt

CONSTANT RingCap     \* how many marks the ring holds (`cap`)

ASSUME RingCapAssumption == RingCap \in Nat \ {0}

\* The id a change of a collection's schema is marked by; rows have ids from 1.
SCHEMA_MARK == 0

\* An empty ring at change `seq`: `new` with 0, and `reset` at a load.
Reset(seq) == [ring |-> <<>>, seq |-> seq, horizon |-> seq]

\* `evict`: the oldest mark dropped, the cursors that had to see it with it.
Evict(log) ==
    [log EXCEPT !.ring = Tail(log.ring),
                !.horizon = Max({log.horizon, Head(log.ring).seq})]

\* `record`: one more change, the oldest mark making room for it.
Record(log, cid, id) ==
    LET room == IF Len(log.ring) = RingCap THEN Evict(log) ELSE log
        n == log.seq + 1
    IN [room EXCEPT !.seq = n, !.ring = Append(room.ring, [seq |-> n, cid |-> cid, id |-> id])]

\* The marks of a block that landed, recorded in its order (`note`).
RecordAll(log, marks) ==
    FoldLeft(LAMBDA l, m : Record(l, m[1], m[2]), log, marks)

\* A cursor behind the horizon served all the same.
ServedBehind(log, since) == since <= log.seq

\* Whether a cursor is served from the marks, or has to be seeded again.
Served(log, since) == since <= log.seq /\ since >= log.horizon

\* `since`: the ids of a collection marked after a cursor.
MarkedSince(log, since, cid) ==
    {m.id : m \in {k \in ToSet(log.ring) : k.seq > since /\ k.cid = cid}}

\* `changed_collections`: the collections marked after a cursor.
ChangedSince(log, since) ==
    {m.cid : m \in {k \in ToSet(log.ring) : k.seq > since}}

\* What the ring promises its readers: its marks are the changes past the
\* horizon, one each, in order, up to the counter.
RingWhole(log) ==
    /\ log.horizon + Len(log.ring) = log.seq
    /\ \A i \in DOMAIN log.ring : log.ring[i].seq = log.horizon + i
=============================================================================
