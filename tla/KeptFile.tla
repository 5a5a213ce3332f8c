------------------------------ MODULE KeptFile ------------------------------
(***************************************************************************)
(* What a file and its sync log keep of the writes taken, whatever loses   *)
(* power or is killed next: the state of the disk that every step of a     *)
(* sync, a rewrite, a close and an open hands on to the next.              *)
(*                                                                         *)
(* d is the writes taken, in order. A file starts at an offset o of them:  *)
(* its cell i holds the first o + i. A file grown from nothing has the     *)
(* offset 0, one that starts with an image of n writes n - 1.              *)
(***************************************************************************)
EXTENDS SyncLog

Cell == Seq(Int)
File == [ino : Nat, cache : Seq(Cell), disk : Seq(Cell), dirty : SUBSET Nat]
Header == [gen : Nat \ {0}, base : Nat, ino : Nat, print : Seq(Cell)]
Entry == [gen : Nat, at : Nat, cells : Seq(Cell)]
LogFile == [made : BOOLEAN, head : SUBSET Header, entries : Seq(Entry)]

------------------------------------------------------------------------------
(* The file.                                                               *)

\* A cell that is a record of the writes taken, in its place.
Good(d, o, i, c) == o + i \in 0 .. Len(d) /\ c = SubSeq(d, 1, o + i)

Fits(d, o, cells) ==
    \A i \in 1 .. Len(cells) : cells[i] \in {Bad, Torn} \/ Good(d, o, i, cells[i])

\* A place that holds its record whatever of the file is written when.
Clean(d, o, f, p) ==
    /\ p \in 1 .. Len(f.disk)
    /\ Good(d, o, p, f.disk[p]) /\ Good(d, o, p, f.cache[p])

CleanTo(d, o, f, n) == \A p \in 1 .. n : Clean(d, o, f, p)

\* The operating system's part: what is not dirty is on the disk.
Written(f) ==
    /\ f.dirty \subseteq 1 .. Len(f.cache)
    /\ Len(f.disk) <= Len(f.cache)
    /\ \A i \in 1 .. Len(f.cache) :
          i \notin f.dirty => i <= Len(f.disk) /\ f.disk[i] = f.cache[i]

\* A file holds records of the writes taken, each in its place, and bytes that
\* are none; the image it may start with is on the disk.
FileKept(d, o, f) ==
    /\ f \in File /\ Written(f)
    /\ o \in Int /\ o + 1 >= 0 /\ o <= Len(d)
    /\ Fits(d, o, f.cache) /\ Fits(d, o, f.disk)
    /\ o # 0 => Clean(d, o, f, 1)

------------------------------------------------------------------------------
(* The log: l as written, ld as the disk holds it.                         *)

\* Entry k would be put back under the header, as Whole counts them.
Held(E, h, k) ==
    /\ k \in 1 .. Len(E)
    /\ \A i \in 1 .. k : /\ E[i].gen = h.gen
                         /\ E[i].at = IF i = 1 THEN h.base ELSE EndOf(E[i - 1])

\* What would be put back are records in their place.
HeldGood(d, o, E, h) ==
    \A k \in 1 .. Len(E) : Held(E, h, k) =>
        \A j \in 1 .. Len(E[k].cells) : Good(d, o, E[k].at + j, E[k].cells[j])

\* The file needs nothing of what would be put back.
Retired(d, o, f, E, h) ==
    \A k \in 1 .. Len(E) : Held(E, h, k) => CleanTo(d, o, f, EndOf(E[k]))

\* A header of this file: the bytes it goes on from are on the disk.
HeadKept(d, o, f, h) ==
    CleanTo(d, o, f, h.base) /\ h.print = Fingerprint(f.cache, h.base)

\* What the disk holds of the header's entries, the log as written starts with,
\* and a last entry being written is past it.
Paired(E, Ed, h) ==
    \A k \in 1 .. Len(Ed) : Held(Ed, h, k) =>
        /\ k <= Len(E)
        /\ \A i \in 1 .. k : E[i] = Ed[i]
        /\ E = Ed \/ k < Len(E)

\* A header of another file: no generation this file's log begins is that of
\* the entries beside it, or the file goes on past where they start.
Another(d, o, f, E, h) ==
    E # <<>> => E[1].gen <= h.gen + 1 \/ CleanTo(d, o, f, E[1].at)

Heads(l, ld) == l.head \cup ld.head
Entries(l, ld) == {l.entries, ld.entries}

\* The log's own part. A log as written was made on the disk; it has at most one
\* header, and the one written last has the last generation.
LogPair(l, ld) ==
    /\ l \in LogFile /\ ld \in LogFile
    /\ \A x \in {l, ld} : /\ x.made \/ (x.head = {} /\ x.entries = <<>>)
                          /\ \A g, h \in x.head : g = h
    /\ l.made => ld.made
    /\ \A h \in l.head, g \in ld.head : g.gen <= h.gen

------------------------------------------------------------------------------
(* Both.                                                                   *)

LogKept(d, o, f, l, ld) ==
    /\ LogPair(l, ld)
    /\ \A h \in Heads(l, ld) :
          /\ h.ino <= f.ino
          /\ h.ino = f.ino =>
                /\ HeadKept(d, o, f, h)
                /\ \A E \in Entries(l, ld) : HeldGood(d, o, E, h)
                /\ h \in l.head => Paired(l.entries, ld.entries, h)
                /\ h \notin l.head => \A E \in Entries(l, ld) : Retired(d, o, f, E, h)
          /\ h.ino # f.ino => \A E \in Entries(l, ld) : Another(d, o, f, E, h)

\* A place an open finds its record at, or puts it back.
Safe(d, o, f, l, ld, p) ==
    \/ Clean(d, o, f, p)
    \/ \E h \in l.head \cap ld.head, k \in 1 .. Len(ld.entries) :
          /\ h.ino = f.ino
          /\ Held(ld.entries, h, k)
          /\ p \in ld.entries[k].at + 1 .. EndOf(ld.entries[k])

\* The first n writes are safe.
Reach(d, o, f, l, ld, n) == \A p \in 1 .. n - o : Safe(d, o, f, l, ld, p)

\* The file needs nothing of its log.
AllRetired(d, o, f, l, ld) ==
    \A h \in Heads(l, ld) : h.ino = f.ino =>
        \A E \in Entries(l, ld) : Retired(d, o, f, E, h)

\* A file and its log, the first n writes in them.
Kept(d, o, f, l, ld, n) ==
    FileKept(d, o, f) /\ LogKept(d, o, f, l, ld) /\ Reach(d, o, f, l, ld, n)
=============================================================================
