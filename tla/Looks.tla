------------------------------- MODULE Looks -------------------------------
(* What a held write's look answers (fenec-http/src/waits.rs: Looks, Known,  *)
(* and fenec-core/src/engine/wake.rs).  A claim that looked and found        *)
(* nothing knows the rows its filter passes, until the next moment one       *)
(* starts or stops passing with no write; the next look then tests the rows  *)
(* it knows and those the change ring says were written since, instead of    *)
(* running the whole pick.  Checked here: the short look answers what the    *)
(* whole one would, whatever happened between them, and a claim left asleep  *)
(* misses no moment.                                                         *)
(*                                                                           *)
(* One group of one test over one collection, `open and run_at <op> now()`   *)
(* in id order; its rows are written, dropped and made again, altered,       *)
(* compacted and marked among another collection's writes.                   *)
EXTENDS ChangeLog

CONSTANTS
    Ids,        \* the collection's row ids, from 1
    MaxSeq,     \* bound: changes
    MaxTime,    \* bound: the clock
    Settings    \* how run_at is compared with now(): "le", "lt", "gt" or "ge", and
                \* bounds: AMONG, the most rows a look among them tests, changes,
                \* compacts, times the clock is set back

ASSUME LooksAssumption ==
    /\ Ids \subseteq Nat \ {0} /\ {MaxSeq, MaxTime} \subseteq Nat
    /\ Settings \subseteq [op : {"le", "lt", "gt", "ge"}, among : Nat, seqs : 0 .. MaxSeq,
                           compacts : Nat, back : Nat]

VARIABLES
    setting,  \* the comparison, and the bounds
    db,       \* rows, ring, the collection's number, the server's epoch
    time,     \* the clock now() reads
    group,    \* since, known, at: what the group keeps of its last look
    how,      \* how the last look was made
    back      \* times the clock was set back

vars == <<db, time, group, how, back>>

Op == setting.op
AMONG == setting.among
Times == 0 .. MaxTime
Option(S) == {{}} \cup {{x} : x \in S}
The(o) == CHOOSE x \in o : TRUE
RowSet == [run : Times, open : BOOLEAN]
NoRows == [i \in Ids |-> {}]

\* The row's comparison with the time, as the filter evaluates it.
Compared(run, t) ==
    CASE Op = "le" -> run <= t [] Op = "lt" -> run < t
      [] Op = "gt" -> run > t  [] Op = "ge" -> run >= t

Passes(rows, t) == {i \in Ids : \E r \in rows[i] : r.open /\ Compared(r.run, t)}

\* Walk::compared one millisecond early for `<` and `>=`.
WakesAtEarly(rows, at) ==
    LET past == {r.run : r \in {q \in UNION Range(rows) : q.run > at}}
    IN IF past = {} THEN {} ELSE {Min(past)}

\* wakes_at: the least moment past `at` at which a row's comparison turns,
\* counting every row (moments, Walk::compared).
WakesAt(rows, at) ==
    LET strict == Op \in {"le", "gt"}
        past == {r.run : r \in {q \in UNION Range(rows) :
                                   IF strict THEN q.run > at ELSE q.run >= at}}
    IN IF past = {} THEN {} ELSE {Min(past) + IF strict THEN 0 ELSE 1}

First(ids) == IF ids = {} THEN {} ELSE {Min(ids)}

------------------------------------------------------------------------------
(* The database.                                                             *)

Unlooked == UNCHANGED <<time, group, how, back>>

Put ==
    /\ db.log.seq < setting.seqs
    /\ \E i \in Ids, r \in RowSet :
        db' = [db EXCEPT !.rows[i] = {r}, !.log = Record(@, db.cid, i)]
    /\ Unlooked

Del ==
    /\ db.log.seq < setting.seqs
    /\ \E i \in Ids : db.rows[i] # {} /\
        db' = [db EXCEPT !.rows[i] = {}, !.log = Record(@, db.cid, i)]
    /\ Unlooked

Elsewhere ==
    /\ db.log.seq < setting.seqs
    /\ db' = [db EXCEPT !.log = Record(@, 0, 1)]
    /\ Unlooked

\* A change of the schema: what the filter reads of every row may be another.
Alter ==
    /\ db.log.seq < setting.seqs
    /\ \E rows \in [Ids -> Option(RowSet)] :
        /\ \A i \in Ids : rows[i] = {} <=> db.rows[i] = {}
        /\ db' = [db EXCEPT !.rows = rows, !.log = Record(@, db.cid, SCHEMA_MARK)]
    /\ Unlooked

\* Dropped and made again under the name, as one text of two statements: the
\* marks of both, and another number.
Remake ==
    /\ db.log.seq + 1 < setting.seqs
    /\ db' = [db EXCEPT !.rows = NoRows, !.cid = @ + 1,
                        !.log = RecordAll(@, <<<<db.cid, SCHEMA_MARK>>, <<db.cid + 1, SCHEMA_MARK>>>>)]
    /\ Unlooked

\* A compact: the rows stay, and the hub hears a write that says not what it
\* wrote (Hub::notify, Waits::wrote(None)).
Compact ==
    /\ db.epoch < setting.compacts
    /\ db' = [db EXCEPT !.epoch = @ + 1]
    /\ Unlooked

Tick == time < MaxTime /\ time' = time + 1 /\ UNCHANGED <<db, group, how, back>>

SetBack ==
    /\ back < setting.back /\ back' = back + 1
    /\ \E t \in Times : t < time /\ time' = t
    /\ UNCHANGED <<db, group, how>>

------------------------------------------------------------------------------
(* A look, under the read lock: Looks::look.                                 *)

\* Used past the moment a row turns.
HoldsPast(known) ==
    /\ known.epoch = db.epoch
    /\ time >= known.at
    /\ Served(db.log, known.seq)
    /\ known.cid = db.cid
    /\ LET written == MarkedSince(db.log, known.seq, db.cid)
       IN SCHEMA_MARK \notin written /\ Cardinality(known.ids) + Cardinality(written) <= AMONG

\* What it knows is used only where it still holds.
Holds(known) ==
    /\ known.epoch = db.epoch
    /\ time >= known.at
    /\ \A u \in known.until : time < u
    /\ Served(db.log, known.seq)
    /\ known.cid = db.cid
    /\ LET written == MarkedSince(db.log, known.seq, db.cid)
       IN SCHEMA_MARK \notin written /\ Cardinality(known.ids) + Cardinality(written) <= AMONG

KnownOf(ids) ==
    [epoch |-> db.epoch, seq |-> db.log.seq, cid |-> db.cid, ids |-> ids, at |-> time,
     until |-> WakesAt(db.rows, time)]

Looked(manner, found, known, at) ==
    /\ how' = manner
    /\ group' = [since |-> db.log.seq, known |-> known, due |-> FALSE,
                 found |-> found, at |-> at]

\* `job.due`: asked to look whatever was written, or its moment came (jobs).
Due == group.due \/ \E u \in group.at : time >= u

\* Looks::wrote: the test's collection was written since, or a collection with
\* no name left was, or the ring no longer says.
Wrote ==
    /\ db.log.seq # group.since
    /\ Served(db.log, group.since) =>
         \/ db.cid \in ChangedSince(db.log, group.since)
         \/ ~(ChangedSince(db.log, group.since) \subseteq {0, db.cid})

LookSkip ==
    /\ ~Wrote /\ ~Due
    /\ group' = [group EXCEPT !.since = db.log.seq]
    /\ how' = "skip"
    /\ UNCHANGED time

\* Looks::among: the rows it knows and those written since, tested.
LookAmong ==
    /\ Wrote \/ Due
    /\ \E known \in group.known :
        /\ Holds(known)
        /\ LET among == known.ids \cup MarkedSince(db.log, known.seq, db.cid)
               kept == among \cap Passes(db.rows, time)
           IN Looked("among", First(kept),
                     IF Cardinality(kept) <= AMONG THEN {KnownOf(kept)} ELSE {},
                     IF kept = {} THEN WakesAt(db.rows, time) ELSE group.at)
    /\ UNCHANGED time

\* Looks::whole: the pick itself, which reads the clock again as it runs; one
\* that finds nothing knows its test passes no row, where no moment came by
\* then (none_known).
LookWhole ==
    /\ Wrote \/ Due
    /\ ~\E known \in group.known : Holds(known)
    /\ \E t \in {time, time + 1} \cap Times :
        LET found == First(Passes(db.rows, t))
            until == WakesAt(db.rows, time)
        IN /\ Looked("whole", found,
                     IF found = {} /\ \A u \in until : t < u THEN {KnownOf({})} ELSE {},
                     IF found = {} THEN until ELSE group.at)
           /\ time' = t

\* A group whose look found a row looks no more until it runs or loses it (idle).
Look ==
    /\ group.found = {}
    /\ LookSkip \/ LookAmong \/ LookWhole
    /\ UNCHANGED <<db, back>>

\* The head left, its run having taken the row or not, or another's took it: the
\* group looks again at once (leave, wake: `now`).
HandedOn ==
    /\ group.found # {}
    /\ group' = [group EXCEPT !.due = TRUE, !.found = {}]
    /\ UNCHANGED <<db, time, how, back>>

\* The head's run found nothing after all, and its plan says from where and for
\* when the group looks next (Ticket::again): the clock was read before it ran.
Again ==
    /\ group.found # {}
    /\ \E t \in {time, time + 1} \cap Times :
        /\ Passes(db.rows, t) = {} /\ time' = t
        /\ group' = [group EXCEPT !.since = db.log.seq, !.at = WakesAt(db.rows, time),
                                  !.found = {}]
    /\ UNCHANGED <<db, how, back>>

------------------------------------------------------------------------------
Init ==
    /\ setting \in Settings
    /\ db = [rows |-> NoRows, log |-> Reset(0), cid |-> 1, epoch |-> 0]
    /\ time = 0 /\ back = 0
    /\ group = [since |-> 0, known |-> {}, due |-> TRUE, found |-> {}, at |-> {}]
    /\ how = "none"

Step == Put \/ Del \/ Elsewhere \/ Alter \/ Remake \/ Compact \/ Tick \/ SetBack \/ Look
        \/ HandedOn \/ Again
Next == Step /\ UNCHANGED setting

Spec == Init /\ [][Next]_<<setting, vars>>

------------------------------------------------------------------------------
Knowns == [epoch : Nat, seq : 0 .. MaxSeq, cid : Nat, ids : SUBSET Ids,
           at : Times, until : Option(0 .. MaxTime + 1)]

\* The ring is whole, and a group knows no more than one look told it (Group,
\* Known).
TypeOK ==
    /\ db.rows \in [Ids -> Option(RowSet)] /\ db.cid \in Nat /\ db.epoch \in 0 .. setting.compacts
    /\ RingWhole(db.log) /\ db.log.seq \in 0 .. MaxSeq
    /\ time \in Times /\ back \in 0 .. setting.back
    /\ group.since \in 0 .. MaxSeq /\ group.due \in BOOLEAN
    /\ group.known \subseteq Knowns /\ Cardinality(group.known) <= 1
    /\ group.found \in Option(Ids) /\ group.at \in Option(0 .. MaxTime + 1)
    /\ how \in {"none", "skip", "among", "whole"}

\* A look among the rows known and written since finds what the whole pick
\* finds (Looks::among, and its test a_look_among_the_rows_written_picks_as_
\* the_whole_pick): whatever was written, dropped, altered, evicted from the
\* ring or compacted since, and however the clock moved.
AmongPicksAsWhole ==
    [][Look /\ how' = "among" => group'.found = First(Passes(db.rows, time))]_vars

\* What a group knows is true of the rows (Known): where it would be used, the
\* rows its test passes are among those it knows and those written since.
KnownCovers ==
    \A known \in group.known : Holds(known) =>
        Passes(db.rows, time) \subseteq
            known.ids \cup MarkedSince(db.log, known.seq, db.cid)

\* A claim that found nothing and has nothing to look for misses no row
\* (Database::wakes_at: early and never late): none passes until a write it
\* hears of or the moment it wakes for, the clock never set back.
AsleepMissesNothing ==
    back = 0 /\ group.found = {} /\ ~Due /\ ~Wrote => Passes(db.rows, time) = {}

\* What a group knows covers the rows, and asleep it misses none of them (Known,
\* Database::wakes_at).
LooksInv == TypeOK /\ KnownCovers /\ AsleepMissesNothing
=============================================================================
