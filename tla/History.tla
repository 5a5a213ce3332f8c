------------------------------ MODULE History -------------------------------
(***************************************************************************)
(* Which history a database's writes belong to (struct History,            *)
(* crates/fenec-core/src/history.rs): its forks, oldest first, each with   *)
(* the change it left its parent at, and whether its writes come from a    *)
(* primary. 0 is the root's id, every database's that never forked.        *)
(***************************************************************************)
EXTENDS Integers, Sequences

\* History::default.
RootHistory == [lineage |-> <<>>, following |-> FALSE]

\* History::current.
Current(h) == IF h.lineage = <<>> THEN 0 ELSE h.lineage[Len(h.lineage)].id

\* Mutant of Forked: a promotion takes writes on under the history it followed.
ForkedSame(h, id, at) ==
    IF h.lineage = <<>> THEN [lineage |-> <<[id |-> id, from |-> at]>>, following |-> FALSE]
    ELSE [h EXCEPT !.following = FALSE]
\* History::forked: a fork at change `at`, taking writes.
Forked(h, id, at) ==
    [lineage |-> Append(h.lineage, [id |-> id, from |-> at]), following |-> FALSE]

\* Database::follow: a primary's history, and no write of its own.
Following(lineage) == [lineage |-> lineage, following |-> TRUE]

\* Mutant of Continues: the change a history was left at is not asked for.
ContinuesById(h, id, seq, now) ==
    IF id = 0 THEN seq = 0
    ELSE seq <= now /\ \E k \in 1 .. Len(h.lineage) : h.lineage[k].id = id

\* History::continues: whether a database `seq` changes into history `id` holds
\* only changes that the one of history h, `now` changes in, holds too.
Continues(h, id, seq, now) ==
    /\ seq <= now
    /\ IF id = 0 THEN seq = 0
       ELSE \E k \in 1 .. Len(h.lineage) :
               /\ h.lineage[k].id = id
               /\ \A j \in 1 .. k - 1 : h.lineage[j].id # id
               /\ seq <= IF k < Len(h.lineage) THEN h.lineage[k + 1].from ELSE now

=============================================================================
