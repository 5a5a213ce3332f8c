------------------------------ MODULE FeedRing ------------------------------
(***************************************************************************)
(* The ring of a primary's feed: the last records it appended, kept a      *)
(* chunk at a time for the streams that send them, and how far its disk    *)
(* holds them (struct Ring and the methods of Feed that touch nothing      *)
(* else, crates/fenec-http/src/replication.rs).                            *)
(*                                                                         *)
(* A record holds one write or several, a statement's or a block's, and is *)
(* numbered as the last of them, which orders the records: a chunk is the  *)
(* number of its first write and the set of its records' last writes. A    *)
(* record's size is the number of its writes. The times the records carry, *)
(* and the lineage kept beside them, are left out.                         *)
(***************************************************************************)
EXTENDS Integers

CONSTANTS
    Cap,        \* what the ring keeps, at least a chunk over
    ChunkSize,  \* what a chunk takes before the next is begun
    Message     \* what one message of a stream carries; a larger record goes alone

ASSUME RingAssumption == {Cap, ChunkSize, Message} \subseteq Nat \ {0}

\* Feed::new.
EmptyRing == [chunks |-> {}, seq |-> 0, durable |-> 0, epoch |-> 0, closed |-> FALSE]

\* Feed::start: over at seq, all of it on the disk and none of it kept.
Started(r, seq) ==
    [r EXCEPT !.chunks = {}, !.seq = seq, !.durable = seq, !.epoch = @ + 1]

\* The chunk at the back of the ring, if there is one.
Newest(chunks) == {c \in chunks : \A d \in chunks : d.first <= c.first}

\* Mutant of DropOldest: the chunk that overflowed is let go of, not the oldest.
DropNewest(chunks, seq) ==
    IF \A c \in chunks : seq - c.first + 1 <= Cap THEN chunks ELSE chunks \ Newest(chunks)

\* The oldest chunks let go of while what is kept is over the capacity: a chunk
\* stays where it and those after it are within, and the newest always does.
DropOldest(chunks, seq) == {c \in chunks : seq - c.first + 1 <= Cap \/ c \in Newest(chunks)}

\* The ring emptied by a record that is not the one after the last.
LedTo(r, first) ==
    IF first = r.seq + 1 THEN r
    ELSE [r EXCEPT !.chunks = {}, !.epoch = @ + 1,
                   !.durable = IF @ < first - 1 THEN @ ELSE first - 1]

\* The record of the writes first to seq put into the newest chunk where that
\* has room for it, or else into one of its own.
Chunked(chunks, first, seq) ==
    LET room == {c \in Newest(chunks) : seq - c.first + 1 <= ChunkSize}
    IN  IF room = {} THEN chunks \cup {[first |-> first, lasts |-> {seq}]}
        ELSE (chunks \ room) \cup {[first |-> c.first, lasts |-> c.lasts \cup {seq}] : c \in room}

\* Feed::push: the record of n writes, the last of them numbered seq.
Push(r, seq, n) ==
    LET first == seq + 1 - n
        led == LedTo(r, first)
    IN  [led EXCEPT !.chunks = DropOldest(Chunked(@, first, seq), seq), !.seq = seq]

\* Feed::mark_durable: no further than what was appended, and never back.
MarkDurable(r, upto) ==
    LET u == IF upto < r.seq THEN upto ELSE r.seq
    IN  IF u > r.durable THEN [r EXCEPT !.durable = u] ELSE r

\* Feed::serves: every write after the cursor is still kept.
Serves(r, cursor) ==
    cursor = r.seq \/ (cursor < r.seq /\ \E c \in r.chunks : c.first <= cursor + 1)

\* The records kept, by their last writes.
Kept(r) == UNION {c.lasts : c \in r.chunks}

\* What a reader is told where it gets no records.
Told(what) == [is |-> what, first |-> 0, lasts |-> {}]

\* Mutant of DurableFrom: the first record is taken for one the reader has had.
DurableAfter(r, from) == {l \in Kept(r) : l > from /\ l <= r.durable}

\* The records from the one that holds the write `from` to those on the disk.
DurableFrom(r, from) == {l \in Kept(r) : l >= from /\ l <= r.durable}

\* A record after the cursor starts where the cursor is.
StartsAfter(r, cursor) ==
    \E c \in r.chunks : /\ c.first <= cursor + 1 /\ \E l \in c.lasts : cursor + 1 <= l
                        /\ cursor \in c.lasts \/ c.first = cursor + 1

\* Feed::next: the durable records after the cursor, as many as fit a message
\* and one at least. A cursor inside a record is no place a replica stands.
NextAfter(r, cursor, epoch) ==
    LET durable == DurableFrom(r, cursor + 1)
        lasts == {l \in durable : l - cursor <= Message \/ \A p \in durable : l <= p}
    IN  IF r.closed THEN Told("gone")
        ELSE IF r.epoch # epoch THEN Told("moved")
        ELSE IF cursor >= r.durable THEN Told("nothing")
        ELSE IF ~StartsAfter(r, cursor) THEN Told("behind")
        ELSE IF lasts = {} THEN Told("nothing")
        ELSE [is |-> "records", first |-> cursor + 1, lasts |-> lasts]

\* Where the record that holds the write after the cursor starts: after the last
\* record up to the cursor, or with its chunk.
StartOf(r, cursor) ==
    LET starts == {c.first : c \in r.chunks} \cup {l + 1 : l \in Kept(r)}
    IN  CHOOSE s \in starts : s <= cursor + 1 /\ \A p \in starts : p <= cursor + 1 => p <= s

\* Feed::changes_after, for the change stream: from the record that holds the
\* write after the cursor, which a cursor inside one starts before, until what
\* is read makes a message.
ChangesAfter(r, cursor) ==
    LET from == StartOf(r, cursor)
        durable == DurableFrom(r, cursor + 1)
        lasts == {l \in durable : \A p \in durable : p < l => p - from + 1 < Message}
    IN  IF r.closed THEN Told("gone")
        ELSE IF cursor > r.seq THEN Told("ahead")
        ELSE IF cursor >= r.durable THEN Told("nothing")
        ELSE IF \A c \in r.chunks : cursor + 1 < c.first THEN Told("behind")
        ELSE IF lasts = {} THEN Told("nothing")
        ELSE [is |-> "records", first |-> from, lasts |-> lasts]

=============================================================================
