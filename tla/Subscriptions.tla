--------------------------- MODULE Subscriptions ---------------------------
(* A subscription to a collection: GET /<name>/changes.  The server's stream *)
(* (fenec-http/src/sse.rs, serve) reads the change ring of ChangeLog under   *)
(* the database's read lock, tells what changed as the rows stand, sleeps on *)
(* the hub's mark, and tells rows reaching their @ttl as they do.  The       *)
(* subscriber keeps a copy (web/fenec.js, #applySeed and #applyChange) and   *)
(* comes back with its cursor when the stream breaks.                        *)
(*                                                                           *)
(* One subscriber, one shape of one collection; a row is its value and the   *)
(* moment its time ends.  A statement's block marks one row, or one of       *)
(* another collection.                                                       *)
EXTENDS ChangeLog

CONSTANTS
    Ids,          \* the collection's row ids, from 1
    Vals, Shape,  \* a row's values, and those the subscription's filter takes
    MaxSeq,       \* bound: changes
    MaxTime,      \* bound: the clock
    Settings      \* what is subscribed to -- whether the collection has a @ttl field
                  \* (expiring), whether the subscriber's token has rules (scoped), the
                  \* rows written -- and bounds: changes, the clock, streams broken,
                  \* restarts of the server, restarts that lost writes not yet synced,
                  \* images adopted by a replica serving the stream

ASSUME SubsAssumption ==
    /\ Ids \subseteq Nat \ {0} /\ Shape \subseteq Vals
    /\ {MaxSeq, MaxTime} \subseteq Nat
    /\ Settings \subseteq [expiring : BOOLEAN, scoped : BOOLEAN, ids : SUBSET Ids,
                           seqs : 0 .. MaxSeq, times : 0 .. MaxTime, breaks : Nat,
                           restarts : Nat, losses : Nat, adopts : Nat]

VARIABLES
    setting, \* what is subscribed to, and the bounds
    db,      \* rows, change ring, the collection's number, whether it is there
    disk,    \* the database as of the last sync
    time,    \* the clock now() reads
    hub,     \* Hub::seq, the mark the streams wait on
    stream,  \* the server's side
    pipe,    \* events written and not yet read by the subscriber
    copy,    \* the subscriber's side
    spent    \* what the bounds have used

vars == <<db, disk, time, hub, stream, pipe, copy, spent>>

Expiring == setting.expiring
Scoped == setting.scoped

Never == MaxTime + 1
LastSeq == MaxSeq + Cardinality(Ids)
Option(S) == {{}} \cup {{x} : x \in S}
The(o) == CHOOSE x \in o : TRUE

RowSet == [val : Vals, ends : IF Expiring THEN 0 .. Never ELSE {Never}]
NoRows == [i \in Ids |-> {}]

\* What a read of the shape answers at t: rows past their time are left out
\* (answer_filter, alive).
Shown(rows, t) ==
    {<<i, r.val>> : <<i, r>> \in
        {<<i, r>> \in Ids \X RowSet : r \in rows[i] /\ r.val \in Shape /\ r.ends > t}}

IdsOf(pairs) == {p[1] : p \in pairs}

Seeds == [ev : {"seed"}, seq : 0 .. LastSeq, puts : SUBSET (Ids \X Shape)]
Changes == [ev : {"change"}, seq : 0 .. LastSeq, puts : SUBSET (Ids \X Shape),
            dels : SUBSET Ids, schema : BOOLEAN]
Gone == [ev |-> "error"]

Phases == {"none", "seeding", "look", "reseeding", "expire", "wait"}

NoStream == [phase |-> "none", cursor |-> 0, seen |-> {}, told |-> {},
             next |-> {}, stale |-> TRUE, began |-> 0]

------------------------------------------------------------------------------
(* The database. Every landed block moves the hub's mark under the write     *)
(* lock (Hub::notify, Hub::landed: mark).                                    *)

Landed(rows, log) == db' = [db EXCEPT !.rows = rows, !.log = log] /\ hub' = log.seq

Others == <<disk, time, stream, pipe, copy>>

Put ==
    /\ db.made /\ db.log.seq < setting.seqs
    /\ \E i \in setting.ids, r \in RowSet :
        Landed([db.rows EXCEPT ![i] = {r}], Record(db.log, db.cid, i))
    /\ UNCHANGED <<Others, spent>>

Del ==
    /\ db.made /\ db.log.seq < setting.seqs
    /\ \E i \in Ids :
        /\ \E r \in db.rows[i] : r.ends > time
        /\ Landed([db.rows EXCEPT ![i] = {}], Record(db.log, db.cid, i))
    /\ UNCHANGED <<Others, spent>>

\* A write to another collection, numbered 0 here: a mark of the same ring.
Elsewhere ==
    /\ db.log.seq < setting.seqs
    /\ Landed(db.rows, Record(db.log, 0, 1))
    /\ UNCHANGED <<Others, spent>>

\* The sweep's block of deletes of rows past their time (Database::sweep).
Sweep ==
    /\ db.log.seq < LastSeq
    /\ \E i \in Ids :
        /\ \E r \in db.rows[i] : r.ends <= time
        /\ Landed([db.rows EXCEPT ![i] = {}], Record(db.log, db.cid, i))
    /\ UNCHANGED <<Others, spent>>

\* An alter of the collection: rows kept, a schema mark.
Alter ==
    /\ db.made /\ db.log.seq < setting.seqs
    /\ Landed(db.rows, Record(db.log, db.cid, SCHEMA_MARK))
    /\ UNCHANGED <<Others, spent>>

\* drop_collection, and create_collection under the name: another number.
DropCollection ==
    /\ db.made /\ db.log.seq < setting.seqs
    /\ LET log == Record(db.log, db.cid, SCHEMA_MARK)
       IN db' = [db EXCEPT !.rows = NoRows, !.log = log, !.made = FALSE] /\ hub' = log.seq
    /\ UNCHANGED <<Others, spent>>

CreateCollection ==
    /\ ~db.made /\ db.log.seq < setting.seqs
    /\ LET log == Record(db.log, db.cid + 1, SCHEMA_MARK)
       IN db' = [db EXCEPT !.cid = @ + 1, !.log = log, !.made = TRUE] /\ hub' = log.seq
    /\ UNCHANGED <<Others, spent>>

\* Database::adopt: a replica takes its primary's image, whatever change it
\* stands at; the ring's marks go with what they marked.
Adopt ==
    /\ spent.adopts < setting.adopts
    /\ \E rows \in [Ids -> Option(RowSet)], seq \in 1 .. setting.seqs :
        /\ db' = [db EXCEPT !.rows = rows, !.log = Reset(seq)]
        /\ hub' = seq
    /\ spent' = [spent EXCEPT !.adopts = @ + 1]
    /\ UNCHANGED Others

Tick == time < setting.times /\ time' = time + 1 /\ UNCHANGED <<db, disk, hub, stream, pipe, copy, spent>>

------------------------------------------------------------------------------
(* The stream.                                                               *)

Write(events) == pipe' = pipe \o events

\* The request: the collection has to be there, and a cursor is taken only
\* from a subscriber whose rows need not be known.
Open ==
    /\ copy.phase = "asking" /\ stream.phase = "none"
    /\ copy' = [copy EXCEPT !.phase = IF db.made THEN "reading" ELSE "away"]
    /\ stream' = IF ~db.made THEN NoStream
                 ELSE IF copy.since = {} \/ Scoped
                   THEN [NoStream EXCEPT !.phase = "seeding", !.began = time]
                   ELSE [NoStream EXCEPT !.phase = "look", !.cursor = The(copy.since)]
    /\ UNCHANGED <<db, disk, time, hub, pipe, spent>>

\* `seed`: the rows and the change they are at, under one lock.
SeedTaken(phase) ==
    LET puts == Shown(db.rows, time)
    IN IF db.made
         THEN /\ Write(<<[ev |-> "seed", seq |-> db.log.seq, puts |-> puts]>>)
              /\ stream' = [stream EXCEPT !.phase = phase, !.cursor = db.log.seq,
                                          !.seen = IF Scoped THEN IdsOf(puts) ELSE {},
                                          !.told = {stream.began}, !.stale = TRUE]
         ELSE Write(<<Gone>>) /\ stream' = NoStream

Seed ==
    /\ \/ stream.phase = "seeding" /\ SeedTaken("look")
       \/ stream.phase = "reseeding" /\ SeedTaken("expire")
    /\ UNCHANGED <<db, disk, time, hub, copy, spent>>

\* Database::changes_since: each id marked, told as its row stands now.
Batch(cursor) ==
    LET marked == MarkedSince(db.log, cursor, db.cid)
        puts == {p \in Shown(db.rows, time) : p[1] \in marked}
    IN [ev |-> "change", seq |-> db.log.seq, puts |-> puts,
        dels |-> (marked \ {SCHEMA_MARK}) \ IdsOf(puts), schema |-> SCHEMA_MARK \in marked]

\* A scoped subscriber is told of a row leaving only if it was sent the row.
Filtered(b) == IF Scoped THEN [b EXCEPT !.dels = @ \cap stream.seen] ELSE b

\* A row that left still counted as held.
SeenAfterKept(b) == IF Scoped THEN stream.seen \cup IdsOf(b.puts) ELSE {}

SeenAfter(b) == IF Scoped THEN (stream.seen \ b.dels) \cup IdsOf(b.puts) ELSE {}

Empty(b) == b.puts = {} /\ b.dels = {} /\ ~b.schema

\* The cursor moves every round, told or not: the ring is everyone's.
Look ==
    /\ stream.phase = "look"
    /\ \/ ~db.made /\ Write(<<Gone>>) /\ stream' = NoStream
       \/ /\ db.made /\ ~Served(db.log, stream.cursor)
          /\ stream' = [stream EXCEPT !.phase = "reseeding", !.began = time]
          /\ UNCHANGED pipe
       \/ /\ db.made /\ Served(db.log, stream.cursor)
          /\ LET all == Batch(stream.cursor)
                 b == Filtered(all)
             IN /\ Write(IF Empty(b) THEN <<>> ELSE <<b>>)
                /\ stream' = [stream EXCEPT !.phase = "expire", !.cursor = b.seq,
                                            !.seen = SeenAfter(b),
                                            !.stale = @ \/ all.puts # {} \/ all.dels # {}]
    /\ UNCHANGED <<db, disk, time, hub, copy, spent>>

\* Expiry::due.
Due == stream.told = {} \/ \E at \in stream.next : at <= time

\* Expiry::step: the shape's rows whose time came since it was last told, of
\* the rows as they stand.
CameDue ==
    {i \in Ids : \E r \in db.rows[i] :
        /\ r.val \in Shape /\ r.ends <= time
        /\ \A t \in stream.told : r.ends > t}

\* Expiry::next_at, through wakes_at: the least moment past what was told,
\* among the rows living as it is asked.
NextOf(told) ==
    LET at == IF told = {} THEN time ELSE The(told)
        moments == {r.ends : r \in {q \in UNION Range(db.rows) : q.ends > at /\ q.ends > time}}
    IN IF moments = {} \/ Min(moments) = Never THEN {} ELSE {Min(moments)}

Expire ==
    /\ stream.phase = "expire"
    /\ \/ Expiring /\ Due /\ ~db.made /\ Write(<<Gone>>) /\ stream' = NoStream
       \/ /\ Expiring /\ Due /\ db.made
          /\ LET came == IF Scoped THEN CameDue \cap stream.seen ELSE CameDue
                 told == [stream EXCEPT !.told = {time}, !.stale = TRUE,
                                        !.seen = @ \ came]
             IN IF came # {}
                  THEN /\ Write(<<[ev |-> "change", seq |-> stream.cursor, puts |-> {},
                                   dels |-> came, schema |-> FALSE]>>)
                       /\ stream' = [told EXCEPT !.phase = "look"]
                  ELSE /\ stream' = [told EXCEPT !.phase = "wait", !.next = NextOf({time}),
                                                 !.stale = FALSE]
                       /\ UNCHANGED pipe
       \/ /\ Expiring /\ ~Due
          /\ stream' = [stream EXCEPT !.phase = "wait", !.stale = FALSE,
                            !.next = IF stream.stale THEN NextOf(stream.told) ELSE @]
          /\ UNCHANGED pipe
       \/ /\ ~Expiring /\ stream' = [stream EXCEPT !.phase = "wait"] /\ UNCHANGED pipe
    /\ UNCHANGED <<db, disk, time, hub, copy, spent>>

\* Hub::wait returns for a mark past the cursor or the next moment.
Woken == hub > stream.cursor \/ \E at \in stream.next : at <= time

\* And for the keep-alive, whenever that is.
Wake ==
    /\ stream.phase = "wait"
    /\ stream' = [stream EXCEPT !.phase = "look"]
    /\ UNCHANGED <<db, disk, time, hub, pipe, copy, spent>>

------------------------------------------------------------------------------
(* The subscriber.                                                           *)

\* #streamUrl: seeded once, it goes on from where it stopped.
Ask ==
    /\ copy.phase = "away"
    /\ copy' = [copy EXCEPT !.phase = "asking",
                            !.since = IF copy.seeded /\ ~copy.fresh THEN {copy.cursor} ELSE {}]
    /\ UNCHANGED <<db, disk, time, hub, stream, pipe, spent>>

\* #applySeed: the whole shape written over the copy.
Seeded(c, e) == [c EXCEPT !.rows = e.puts, !.cursor = e.seq, !.seeded = TRUE, !.fresh = FALSE]

\* #applyChange: the ids that left, then the rows as they are now.
Changed(c, e) ==
    [c EXCEPT !.rows = {p \in @ : p[1] \notin e.dels \cup IdsOf(e.puts)} \cup e.puts,
              !.cursor = Max({e.seq, @})]

Hear ==
    /\ copy.phase = "reading" /\ pipe # <<>>
    /\ LET e == Head(pipe)
       IN \/ e.ev = "seed" /\ copy' = Seeded(copy, e) /\ pipe' = Tail(pipe) /\ UNCHANGED stream
          \/ /\ e.ev = "change" /\ ~e.schema
             /\ copy' = Changed(copy, e) /\ pipe' = Tail(pipe) /\ UNCHANGED stream
          \* #refresh: the stream ended from this side, the shape asked whole.
          \/ /\ e.ev = "change" /\ e.schema
             /\ copy' = [copy EXCEPT !.phase = "away", !.fresh = TRUE]
             /\ pipe' = <<>> /\ stream' = NoStream
          \/ /\ e.ev = "error"
             /\ copy' = [copy EXCEPT !.phase = "away"] /\ pipe' = <<>> /\ UNCHANGED stream
    /\ UNCHANGED <<db, disk, time, hub, spent>>

\* The connection goes: what was not read is lost.
Break ==
    /\ copy.phase = "reading" /\ spent.breaks < setting.breaks
    /\ copy' = [copy EXCEPT !.phase = "away"]
    /\ stream' = NoStream /\ pipe' = <<>>
    /\ spent' = [spent EXCEPT !.breaks = @ + 1]
    /\ UNCHANGED <<db, disk, time, hub>>

\* What the file holds of d: its rows and its change, and no marks.
Filed(d) == [d EXCEPT !.log = Reset(d.log.seq)]

Synced ==
    /\ spent.losses < setting.losses /\ disk' = Filed(db)
    /\ UNCHANGED <<db, time, hub, stream, pipe, copy, spent>>

\* The server starts over its file: the ring is emptied at the change the file
\* holds (Database::load, ChangeLog::reset), which may be behind the one the
\* server was at where not all was synced.
Restart ==
    /\ spent.restarts < setting.restarts
    /\ \/ db' = Filed(db) /\ spent' = [spent EXCEPT !.restarts = @ + 1]
       \/ /\ spent.losses < setting.losses /\ db' = disk
          /\ spent' = [spent EXCEPT !.restarts = @ + 1, !.losses = @ + 1]
    /\ copy' = [copy EXCEPT !.phase = "away"]
    /\ stream' = NoStream /\ pipe' = <<>>
    /\ hub' = 0
    /\ UNCHANGED <<disk, time>>

------------------------------------------------------------------------------
Init ==
    /\ setting \in Settings
    /\ db = [rows |-> NoRows, log |-> Reset(0), cid |-> 1, made |-> TRUE]
    /\ time = 0 /\ hub = 0 /\ stream = NoStream /\ pipe = <<>>
    /\ copy = [phase |-> "away", rows |-> {}, cursor |-> 0, seeded |-> FALSE,
               fresh |-> FALSE, since |-> {}]
    /\ disk = db
    /\ spent = [breaks |-> 0, restarts |-> 0, losses |-> 0, adopts |-> 0]

Server == Open \/ Seed \/ Look \/ Expire \/ Wake
Database == Put \/ Del \/ Elsewhere \/ Sweep \/ Alter \/ DropCollection \/ CreateCollection \/ Adopt
Step == Database \/ Tick \/ Server \/ Ask \/ Hear \/ Break \/ Synced \/ Restart
Next == Step /\ UNCHANGED setting

Spec == Init /\ [][Next]_<<setting, vars>>

\* The stream's thread runs on, woken where there is something to wake it for (no
\* keep-alive is counted on), the subscriber reads and comes back, and the sweeper
\* runs every minute.
Fairness ==
    /\ WF_vars(Open) /\ WF_vars(Seed) /\ WF_vars(Look) /\ WF_vars(Expire)
    /\ WF_vars(Woken /\ Wake)
    /\ WF_vars(Ask) /\ WF_vars(Hear) /\ WF_vars(Sweep)

LiveSpec == Spec /\ Fairness

------------------------------------------------------------------------------
\* The stream, what is in the pipe and the copy hold rows, cursors and moments
\* there can be (serve, Seen, #applySeed).
TypeOK ==
    /\ db.rows \in [Ids -> Option(RowSet)] /\ db.made \in BOOLEAN /\ db.cid \in Nat
    /\ db.log \in [ring : Seq([seq : 0 .. LastSeq, cid : Nat, id : Ids \cup {1, SCHEMA_MARK}]),
                   seq : 0 .. LastSeq, horizon : 0 .. LastSeq]
    /\ time \in 0 .. MaxTime /\ hub \in 0 .. LastSeq
    /\ stream \in [phase : Phases, cursor : 0 .. LastSeq, seen : SUBSET Ids,
                   told : Option(0 .. MaxTime), next : Option(0 .. MaxTime),
                   stale : BOOLEAN, began : 0 .. MaxTime]
    /\ pipe \in Seq(Seeds \cup Changes \cup {Gone})
    /\ copy \in [phase : {"away", "asking", "reading"}, rows : SUBSET (Ids \X Shape),
                 cursor : 0 .. LastSeq, seeded : BOOLEAN, fresh : BOOLEAN,
                 since : Option(0 .. LastSeq)]

\* The ring the streams read is whole (ChangeLog::record, evict, reset): its
\* marks are exactly the changes past its horizon.
RingKept == RingWhole(db.log)

\* What the subscriber holds once it has read what is written to it.
Read(c, events) ==
    FoldLeft(LAMBDA d, e : IF e.ev = "seed" THEN Seeded(d, e)
                           ELSE IF e.ev = "change" THEN Changed(d, e) ELSE d, c, events)

Ending(events) == \E i \in DOMAIN events :
    events[i].ev = "error" \/ (events[i].ev = "change" /\ events[i].schema)

\* The cursors a subscriber resumes from name changes of the database it resumes
\* at: no image was adopted, and where writes were lost the seed is remade (Scoped).
CursorsHold == spent.adopts = 0 /\ (spent.losses > 0 => Scoped)

\* A stream asleep with no mark past its cursor (serve's loop, Hub::wait) has
\* told its subscriber everything: read out, the copy holds exactly the living
\* rows of the shape, but for rows whose time came since the stream last told.
AsleepIsTold ==
    CursorsHold /\ stream.phase = "wait" /\ hub <= stream.cursor /\ ~Ending(pipe) =>
        LET held == Read(copy, pipe).rows
            shown == Shown(db.rows, time)
        IN /\ shown \subseteq held
           /\ \A p \in held \ shown : Expiring /\ \E r \in db.rows[p[1]] :
                 r.val = p[2] /\ r.ends <= time /\ \A t \in stream.told : r.ends > t

\* A scoped stream knows the rows its subscriber holds (Seen): each is one it
\* may be told left, and no other id is named to it.
SeenIsHeld ==
    Scoped /\ stream.phase \in {"look", "expire", "wait"} /\ ~Ending(pipe) =>
        IdsOf(Read(copy, pipe).rows) = stream.seen

\* The ring, the streams over it and what they know of their subscriber agree
\* (ChangeLog, Seen).
StreamInv == TypeOK /\ RingKept /\ SeenIsHeld

\* Every subscriber is told of every write, through broken streams, restarts and
\* reseeds (serve, #connect): with the database left alone the copy becomes the
\* shape and stays so -- but for a replica that adopted an image, or an unscoped
\* subscriber whose server lost writes, whose cursor may pass for one served.
Converges ==
    []CursorsHold /\ <>[][FALSE]_<<db, time>> => <>[](copy.rows = Shown(db.rows, time) \/ ~db.made)
=============================================================================
