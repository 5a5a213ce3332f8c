------------------------------ MODULE SyncLog ------------------------------
(***************************************************************************)
(* A database's file and the sync log beside it, as an operating system    *)
(* keeps them, and what an open puts back from the log                     *)
(* (crates/fenec-core/src/synclog.rs).                                     *)
(*                                                                         *)
(* A file is a sequence of cells, one a record. A cell is what the         *)
(* database holds once the file is read that far: a record's is the cell   *)
(* before it with one write more, an image's every write it was made from. *)
(* Bad is room the file has and bytes it lost; Torn a record cut short.    *)
(*                                                                         *)
(* The operating system keeps what was written (cache) apart from what is  *)
(* on the disk (disk); `dirty` are the places it would still write. A      *)
(* machine that goes down keeps the disk, and of each dirty place either.  *)
(*                                                                         *)
(* Hashes tell apart what differs: a torn entry or header is none, and the *)
(* fingerprint of the file before a place is its last PrintLen cells.      *)
(***************************************************************************)
EXTENDS Integers, Sequences, FiniteSetsExt

CONSTANTS
    EntryMax,    \* the most cells an entry takes (64 KB in the code)
    Room,        \* the log's room: an entry takes its cells and one more
    PrintLen     \* how many cells a fingerprint reads (4 KB)

ASSUME LogAssumption ==
    EntryMax \in Nat \ {0} /\ Room \in Nat /\ PrintLen \in Nat \ {0}

Bad == <<0>>
Torn == <<-1>>

------------------------------------------------------------------------------
(* Files, as the operating system keeps them.                              *)

\* A file all on the disk.
OnDisk(ino, cells) == [ino |-> ino, cache |-> cells, disk |-> cells, dirty |-> {}]

\* write: cells at the file's end.
WriteAtEnd(f, cells) ==
    [f EXCEPT !.cache = @ \o cells,
              !.dirty = @ \cup (Len(f.cache) + 1 .. Len(f.cache) + Len(cells))]

\* sync_data: every dirty place is written, the file's length with it.
SyncData(f) ==
    [f EXCEPT !.disk = [i \in 1 .. Len(f.cache) |->
                          IF i \in f.dirty THEN f.cache[i]
                          ELSE IF i <= Len(f.disk) THEN f.disk[i] ELSE Bad],
              !.dirty = {}]

\* set_len, back to the first cells.
Truncated(f, len) ==
    [f EXCEPT !.cache = SubSeq(@, 1, len), !.disk = SubSeq(@, 1, Min({len, Len(f.disk)})),
              !.dirty = @ \cap 1 .. len]

\* What a file may hold once the machine went down: of its length and of each
\* dirty place the old or the new, a place past the old length that was never
\* written Bad, and the last one perhaps cut short.
Left(f, len, kept) ==
    [i \in 1 .. len |-> IF i \in kept THEN f.cache[i]
                        ELSE IF i <= Len(f.disk) THEN f.disk[i] ELSE Bad]

AfterPowerLoss(f) ==
    {OnDisk(f.ino, cells) : cells \in
        UNION {LET whole == {Left(f, len, kept) : kept \in SUBSET (f.dirty \cap 1 .. len)}
               IN  IF len > Len(f.disk)
                   THEN whole \cup {[c EXCEPT ![len] = Torn] : c \in whole} ELSE whole :
               len \in Len(f.disk) .. Max({Len(f.cache), Len(f.disk)})}}

------------------------------------------------------------------------------
(* The log: a header and the entries after it.                             *)

TornEntry == [gen |-> 0, at |-> 0, cells |-> <<>>]
NoLog == [made |-> FALSE, head |-> {}, entries |-> <<>>]
EmptyLog == [made |-> TRUE, head |-> {}, entries |-> <<>>]

\* fingerprint: the cells just before a place.
Fingerprint(cells, base) == SubSeq(cells, Max({1, base - PrintLen + 1}), base)

\* What a log may hold once the machine went down: of a header or an entry
\* being written the old, the new or neither; of a removal not yet durable,
\* the log or none.
TornLast(entries) == [entries EXCEPT ![Len(entries)] = TornEntry]

LogAfterPowerLoss(l, ld) ==
    IF l.made # ld.made THEN {l, ld}
    ELSE {[made |-> l.made, head |-> h, entries |-> e] :
            h \in IF l.head = ld.head THEN {l.head} ELSE {l.head, ld.head, {}},
            e \in IF l.entries = ld.entries THEN {l.entries}
                  ELSE {l.entries, ld.entries, TornLast(l.entries)}}

\* The generation an opened log goes on from: the header's next, or the time's,
\* which is past any the log ever had.
Gens(l) == {h.gen : h \in l.head} \cup {l.entries[i].gen : i \in 1 .. Len(l.entries)}

NewGeneration(l, ld) ==
    1 + Max(IF l.head # {} THEN {h.gen : h \in l.head} ELSE {0} \cup Gens(l) \cup Gens(ld))

\* SyncLog::takes.
Takes(s, at, n) ==
    /\ n <= EntryMax
    /\ at = s.at
    /\ s.pos + 1 + n <= Room
    /\ s.begun # {} \/ s.pos > 0

\* SyncLog::append: the header where a generation was begun, and the entry
\* after the last of the generation; what lay past it is read no more.
LogAppend(l, s, cells) ==
    [made |-> TRUE,
     head |-> IF s.begun # {} THEN s.begun ELSE l.head,
     entries |-> Append(SubSeq(l.entries, 1, IF s.begun # {} THEN 0 ELSE s.count),
                        [gen |-> s.gen, at |-> s.at, cells |-> cells])]

------------------------------------------------------------------------------
(* recover: what an open puts back.                                        *)

\* Mutant of Names: a file of the same bytes is taken for the log's own.
NamesAnyInode(h, f) ==
    Len(f.cache) >= h.base /\ Fingerprint(f.cache, h.base) = h.print

\* Whether a header names the file: its inode, and the bytes before the
\* generation's start.
Names(h, f) ==
    /\ h.ino = f.ino
    /\ Len(f.cache) >= h.base
    /\ Fingerprint(f.cache, h.base) = h.print

EndOf(e) == e.at + Len(e.cells)

\* How many entries of the header's generation follow one another, whole.
Whole(l, h) ==
    Max({k \in 0 .. Len(l.entries) :
           \A i \in 1 .. k :
               /\ l.entries[i].gen = h.gen
               /\ l.entries[i].at = IF i = 1 THEN h.base ELSE EndOf(l.entries[i - 1])})

\* An entry the file does not hold is written there again.
Lost(f, e) ==
    \/ EndOf(e) > Len(f.cache)
    \/ SubSeq(f.cache, e.at + 1, EndOf(e)) # e.cells

PutBack(f, l, h) ==
    LET lost == {l.entries[i] : i \in {j \in 1 .. Whole(l, h) : Lost(f, l.entries[j])}}
        over(p) == {e \in lost : p \in e.at + 1 .. EndOf(e)}
    IN  [f EXCEPT
           !.cache = [p \in 1 .. Max({Len(f.cache)} \cup {EndOf(e) : e \in lost}) |->
                        IF over(p) = {} THEN f.cache[p]
                        ELSE LET e == CHOOSE e \in over(p) : TRUE IN e.cells[p - e.at]],
           !.dirty = @ \cup UNION {e.at + 1 .. EndOf(e) : e \in lost}]

------------------------------------------------------------------------------
(* What a load reads of a file.                                            *)

\* The first whole cells, up to bytes that are no record.
Readable(cells) ==
    Max({k \in 0 .. Len(cells) : \A i \in 1 .. k : cells[i] \notin {Bad, Torn}})

\* A record cut short is cut off where the file ends; any other damage is
\* refused.
Loads(cells) == \A i \in 1 .. Len(cells) : cells[i] # Bad

\* What the database holds once the cells are read.
Content(cells) == IF cells = <<>> THEN <<>> ELSE cells[Len(cells)]
============================================================================
