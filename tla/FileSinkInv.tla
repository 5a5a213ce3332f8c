----------------------------- MODULE FileSinkInv -----------------------------
(***************************************************************************)
(* Why FileSink keeps its promises: what holds of the file, its log, the   *)
(* process's counts and its tail in every state, closed under every step.  *)
(***************************************************************************)
EXTENDS FileSink, KeptFile

\* A process that is not up holds nothing. A durability's counts are of the
\* writes taken, and the one that runs has bytes to sync; what was reported
\* durable the database starts with.
Counts ==
    /\ proc # "up" => /\ pending = <<>> /\ appended = 0 /\ disk = FreeDisk
                      /\ waiting = {}
    /\ \A w \in waiting : w.holds = Len(db) - appended + w.upto
    /\ disk.by \in {"sync", "log"} =>
          /\ disk.holds = Len(db) - appended + disk.upto
          /\ disk.synced < disk.upto /\ disk.upto <= disk.written
    /\ disk.by # "none" => ~disk.failed
    /\ Len(durable) <= Len(db) /\ durable = SubSeq(db, 1, Len(durable))

\* What the disk has until a rename is durable: the file as it was and a log it
\* needs nothing of. The image is on the disk, and nothing was synced since.
OldKept(o) ==
    old # {} =>
        /\ log = NoLog /\ logDisk = NoLog
        /\ Clean(db, o, main, 1)
        /\ proc = "up" /\ ~disk.failed /\ disk.by # "renamed" => disk.synced = 0
        /\ \A q \in old : \E p \in -1 .. Len(db) :
              Kept(main.cache[1], p, q.file, NoLog, q.log, Len(durable))

\* An open: the entries in place, then on the disk, then the header gone.
Opening(o) ==
    /\ proc = "applied" =>
          \A h \in log.head, k \in 1 .. Len(log.entries) :
              h.ino = main.ino /\ Held(log.entries, h, k) =>
                  \A p \in 1 .. EndOf(log.entries[k]) :
                      p <= Len(main.cache) /\ Good(db, o, p, main.cache[p])
    /\ proc = "synced" => AllRetired(db, o, main, log, logDisk)
    /\ proc = "wiped" => log.head = {}
    /\ proc = "load" => \A h \in log.head : h.ino # main.ino

\* Until the sink fails the file and what is pending hold every write taken, each
\* in its place, the entries of the file's own log among them, and what was
\* synced is safe.
Holding(o) ==
    /\ \A i \in 1 .. Len(main.cache) : Good(db, o, i, main.cache[i])
    /\ \A j \in 1 .. Len(pending) : Good(db, o, Len(main.cache) + j, pending[j])
    /\ o + Len(main.cache) + Len(pending) = Len(db)
    /\ disk.written + Len(pending) = appended
    /\ \A h \in Heads(log, logDisk), E \in Entries(log, logDisk) :
          h.ino = main.ino =>
              \A k \in 1 .. Len(E) : Held(E, h, k) => EndOf(E[k]) <= Len(main.cache)
    /\ disk.synced > 0 =>
          Reach(db, o, main, log, logDisk, Len(db) - appended + disk.synced)

\* A generation begun and not yet written: the file is on the disk up to its
\* start, and nothing in the log is of it.
Begun(o) ==
    /\ tail.slog.begun = {[gen |-> tail.slog.gen, base |-> tail.sinceAt, ino |-> main.ino,
                           print |-> Fingerprint(main.cache, tail.sinceAt)]}
    /\ tail.slog.count = 0
    /\ CleanTo(db, o, main, tail.sinceAt)
    /\ AllRetired(db, o, main, log, logDisk)
    /\ \A h \in Heads(log, logDisk) : h.gen < tail.slog.gen
    /\ \A E \in Entries(log, logDisk) :
          E # <<>> => E[1].gen < tail.slog.gen \/ E[1].at < tail.sinceAt

\* A generation in the log: n entries of it, the last up to `end`.
Logged(n, end) ==
    /\ Len(log.entries) = n
    /\ \E h \in log.head : /\ h.ino = main.ino /\ h.gen = tail.slog.gen
                           /\ Held(log.entries, h, n)
    /\ EndOf(log.entries[n]) = end

\* The tail knows the file's end and what was written since the last sync; the
\* log's generation is none of another file's.
Following(o) ==
    LET s == tail.slog
    IN  /\ tail.end = Len(main.cache)
        /\ tail.open =>
              /\ log.made /\ Keeps /\ ~tail.unmade /\ s.gen > 0
              /\ \A h \in Heads(log, logDisk) : h.gen <= s.gen
              /\ \A E \in Entries(log, logDisk) :
                    E # <<>> => E[1].gen <= s.gen \/ E[1].at < tail.end
        /\ ~tail.open =>
              /\ tail.direct
              /\ \A h \in log.head :
                    /\ h.ino # main.ino
                    /\ \A E \in Entries(log, logDisk) :
                          E # <<>> => \/ E[1].gen <= h.gen + 1
                                      \/ E[1].at + disk.written <= tail.end
        /\ disk.by = "log" => ~tail.direct
        /\ ~tail.direct =>
              /\ tail.sinceAt <= tail.end
              /\ tail.since = SubSeq(main.cache, tail.sinceAt + 1, tail.end)
              /\ s.at = tail.sinceAt
              /\ \A p \in 1 .. tail.sinceAt : Safe(db, o, main, log, logDisk, p)
              /\ IF disk.by = "log"
                 THEN /\ Logged(s.count + 1, tail.end)
                      /\ log.entries[s.count + 1].at = tail.sinceAt
                 ELSE Begun(o) \/ (s.begun = {} /\ logDisk = log
                                   /\ Logged(s.count, tail.sinceAt))

\* What the process knows of the file: all of it until the log is forgotten for
\* a rewrite, and the image once that is renamed.
Going(o) ==
    proc = "up" /\ ~disk.failed =>
        /\ disk.by # "renamed" => Holding(o)
        /\ disk.by \notin {"forgot", "renamed"} => Following(o)
        /\ disk.by \in {"forgot", "renamed"} => log = NoLog /\ ~tail.open
        /\ disk.by = "renamed" =>
              /\ logDisk = NoLog
              /\ main = OnDisk(main.ino, <<db>>) /\ o + 1 = Len(db)

\* What every step hands on to the next.
SinkCore ==
    /\ TypeOK /\ Counts
    /\ \E o \in -1 .. Len(db) :
          /\ Kept(db, o, main, log, logDisk, Len(durable))
          /\ OldKept(o) /\ Opening(o) /\ Going(o)

\* The sink's file, its log, its buffer and its tail agree with the writes taken
\* and with one another, whatever failed, was rewritten, was killed or lost
\* power: the state every step of a sync, a rewrite, a close and an open hands
\* on (FileSink, Disk, Tail of fs.rs; append, begin, recover of synclog.rs).
SinkInv == SinkCore /\ FileHolds /\ TailFollows
=============================================================================
