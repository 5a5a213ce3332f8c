--------------------------- MODULE FileSinkWrites ----------------------------
(***************************************************************************)
(* What is written out to the file, what is reported durable, and a sync   *)
(* through the log keep FileSink's invariant.                              *)
(***************************************************************************)
EXTENDS FileSinkOpens

\* Zenon is given a minute a leaf; the leaves that count name the SMT solver.
USE ZenonT(60)

------------------------------------------------------------------------------
(* Writes to the file.                                                     *)

\* What is written since the last sync is the file's end: more of it, as one
\* part.
LEMMA TailGrows ==
    ASSUME NEW S, NEW c \in Seq(S), NEW p \in Seq(S), NEW at \in Nat, at <= Len(c)
    PROVE  SubSeq(c, at + 1, Len(c)) \o p = SubSeq(c \o p, at + 1, Len(c) + Len(p))
<1> DEFINE a == SubSeq(c, at + 1, Len(c))
           b == SubSeq(c \o p, at + 1, Len(c) + Len(p))
<1>1. /\ a \in Seq(S) /\ Len(a) = Len(c) - at
      /\ \A i \in 1 .. Len(c) - at : a[i] = c[at + i]
  BY SMTT(60)
<1>2. /\ c \o p \in Seq(S) /\ Len(c \o p) = Len(c) + Len(p)
      /\ \A i \in 1 .. Len(c) : (c \o p)[i] = c[i]
      /\ \A i \in 1 .. Len(p) : (c \o p)[Len(c) + i] = p[i]
  BY SMTT(60)
<1>3. /\ b \in Seq(S) /\ Len(b) = (Len(c) + Len(p)) - at
      /\ \A i \in 1 .. (Len(c) + Len(p)) - at : b[i] = (c \o p)[at + i]
  <2>1. \A q \in Seq(S) : \A k \in Nat : at <= k /\ k = Len(q) =>
            /\ SubSeq(q, at + 1, k) \in Seq(S) /\ Len(SubSeq(q, at + 1, k)) = k - at
            /\ \A i \in 1 .. k - at : SubSeq(q, at + 1, k)[i] = q[at + i]
    BY SMTT(60)
  <2>2. at <= Len(c) + Len(p) /\ Len(c) + Len(p) \in Nat
    BY SMTT(60)
  <2> DEFINE z == c \o p
             k == Len(c) + Len(p)
  <2>3. z \in Seq(S) /\ k \in Nat /\ at <= k /\ k = Len(z)
    BY <1>2, <2>2
  <2> HIDE DEF z, k
  <2>4. /\ SubSeq(z, at + 1, k) \in Seq(S) /\ Len(SubSeq(z, at + 1, k)) = k - at
        /\ \A i \in 1 .. k - at : SubSeq(z, at + 1, k)[i] = z[at + i]
    BY <2>1, <2>3
  <2>5. QED
    BY <2>4 DEF z, k
<1> HIDE DEF a, b
<1>4. /\ a \o p \in Seq(S) /\ Len(a \o p) = Len(c) - at + Len(p)
      /\ \A i \in 1 .. Len(a) : (a \o p)[i] = a[i]
      /\ \A i \in 1 .. Len(p) : (a \o p)[Len(a) + i] = p[i]
  <2>1. \A q \in Seq(S) : /\ q \o p \in Seq(S) /\ Len(q \o p) = Len(q) + Len(p)
                          /\ \A i \in 1 .. Len(q) : (q \o p)[i] = q[i]
                          /\ \A i \in 1 .. Len(p) : (q \o p)[Len(q) + i] = p[i]
    BY SMTT(60)
  <2>2. QED
    BY <1>1, <2>1
<1>5. Len(a \o p) = Len(b)
  BY SMTT(60), <1>3, <1>4
<1>6. ASSUME NEW i \in 1 .. Len(a \o p)
      PROVE  (a \o p)[i] = b[i]
  <2>1. CASE i <= Len(a)
    <3>1. i \in 1 .. Len(a) /\ i \in 1 .. Len(c) - at /\ at + i \in 1 .. Len(c)
          /\ i \in 1 .. (Len(c) + Len(p)) - at
      BY SMTT(60), <1>1, <1>4, <2>1
    <3>2. QED
      BY <1>1, <1>2, <1>3, <1>4, <3>1
  <2>2. CASE ~(i <= Len(a))
    <3>1. i - Len(a) \in 1 .. Len(p) /\ Len(a) + (i - Len(a)) = i
          /\ Len(c) + (i - Len(a)) = at + i /\ i \in 1 .. (Len(c) + Len(p)) - at
      BY SMTT(60), <1>1, <1>4, <2>2
    <3>2. QED
      BY <1>2, <1>3, <1>4, <3>1
  <2>3. QED
    BY <2>1, <2>2
<1>7. a \o p = b
  BY <1>3, <1>4, <1>5, <1>6, SeqEqual
<1>8. QED
  BY <1>7 DEF a, b

\* What the tail knows stays so as what is pending is written.
LEMMA WroteFollowing ==
    ASSUME TypeOK, db \in Taken, db' = db, NEW o \in Int, FileKept(db, o, main),
           LogKept(db, o, main, log, logDisk), AllWritten(o, main'),
           main'.cache = main.cache \o pending, log' = log,
           logDisk' = logDisk, tail' = Wrote(tail, pending), disk.by # "log",
           disk'.by # "log", disk'.written = disk.written + Len(pending), Following(o)
    PROVE  Following(o)'
<1> DEFINE n == Len(main.cache)
           m == Len(pending)
           s == tail.slog
<1>1. /\ pending \in Seq(Cell) /\ m \in Nat /\ tail.end \in Nat /\ tail.sinceAt \in Nat
      /\ disk.written \in Nat /\ tail.open \in BOOLEAN /\ tail.direct \in BOOLEAN
      /\ tail.slog.gen \in Nat
  BY UpTypes
<1>2. n \in Nat /\ main.cache \in Seq(Cell) /\ main'.cache \in Seq(Cell)
  BY FileTypes DEF AllWritten
<1>3. /\ FileKept(db, o, main') /\ Carried(db, o, main, db, main') /\ main'.ino = main.ino
      /\ Len(main'.cache) = n + m /\ \A i \in 1 .. n : main'.cache[i] = main.cache[i]
  BY DEF AllWritten
<1>4. /\ \A p : Safe(db, o, main, log, logDisk, p) => Safe(db', o, main', log, logDisk, p)
      /\ AllRetired(db, o, main, log, logDisk) => AllRetired(db', o, main', log, logDisk)
  BY <1>3, CarriedLog
<1>5. \A k : CleanTo(db, o, main, k) => CleanTo(db', o, main', k)
  BY <1>3, CarriedClean
<1> DEFINE outgrown == Len(tail.since) + m > EntryMax
<1>6. /\ tail'.open = tail.open /\ tail'.unmade = tail.unmade /\ tail'.slog = s
      /\ tail'.sinceAt = tail.sinceAt /\ tail'.end = tail.end + m
      /\ tail'.direct = (tail.direct \/ (Keeps /\ outgrown))
      /\ tail'.since = (IF ~Keeps \/ tail.direct THEN tail.since
                        ELSE IF outgrown THEN <<>> ELSE tail.since \o pending)
  BY DEF TypeOK, Wrote
<1>7. tail.end = n /\ tail'.end = Len(main'.cache)
  BY <1>3, <1>6 DEF Following
<1>8. LogPair(log, logDisk)
  BY DEF LogKept
<1>9. \A E \in Entries(log, logDisk) : E # <<>> => E[1].at \in Nat /\ E[1].gen \in Nat
  <2>1. \A q \in Seq(Entry) : q # <<>> => 1 \in 1 .. Len(q)
    BY SMTT(60)
  <2>2. \A E \in Entries(log, logDisk) : E \in Seq(Entry)
    BY <1>8, LogTypes
  <2>3. QED
    BY <1>8, <2>1, <2>2, LogTypes
<1>10. ASSUME tail'.open
       PROVE  /\ log'.made /\ Keeps /\ ~tail'.unmade /\ tail'.slog.gen > 0
              /\ \A h \in Heads(log', logDisk') : h.gen <= tail'.slog.gen
              /\ \A E \in Entries(log', logDisk') :
                    E # <<>> => E[1].gen <= tail'.slog.gen \/ E[1].at < tail'.end
  <2>1. /\ log.made /\ Keeps /\ ~tail.unmade /\ s.gen > 0
        /\ \A h \in Heads(log, logDisk) : h.gen <= s.gen
        /\ \A E \in Entries(log, logDisk) :
              E # <<>> => E[1].gen <= s.gen \/ E[1].at < tail.end
    BY <1>6, <1>10 DEF Following
  <2>2. \A a \in Nat : a < tail.end => a < tail'.end
    BY SMTT(60), <1>1, <1>6
  <2>3. QED
    BY <1>6, <1>9, <2>1, <2>2
<1>11. ASSUME ~tail'.open
       PROVE  /\ tail'.direct
              /\ \A h \in log'.head :
                    /\ h.ino # main'.ino
                    /\ \A E \in Entries(log', logDisk') :
                          E # <<>> => \/ E[1].gen <= h.gen + 1
                                      \/ E[1].at + disk'.written <= tail'.end
  <2>1. /\ tail.direct
        /\ \A h \in log.head :
              /\ h.ino # main.ino
              /\ \A E \in Entries(log, logDisk) :
                    E # <<>> => E[1].gen <= h.gen + 1 \/ E[1].at + disk.written <= tail.end
    BY <1>6, <1>11 DEF Following
  <2>2. \A a \in Nat : a + disk.written <= tail.end => a + disk'.written <= tail'.end
    <3> DEFINE e == disk.written
               e2 == disk'.written
    <3>1. e \in Nat /\ tail.end \in Nat /\ m \in Nat /\ e2 = e + m /\ tail'.end = tail.end + m
      BY <1>1, <1>6
    <3> HIDE DEF e, e2, m
    <3>2. \A a \in Nat : a + e <= tail.end => a + e2 <= tail'.end
      BY SMTT(60), <3>1
    <3>3. QED
      BY <3>2 DEF e, e2
  <2>3. QED
    BY <1>3, <1>6, <1>9, <2>1, <2>2
<1>12. ASSUME ~tail'.direct
       PROVE  /\ tail'.sinceAt <= tail'.end
              /\ tail'.since = SubSeq(main'.cache, tail'.sinceAt + 1, tail'.end)
              /\ tail'.slog.at = tail'.sinceAt
              /\ \A p \in 1 .. tail'.sinceAt : Safe(db', o, main', log', logDisk', p)
              /\ Begun(o)' \/ (tail'.slog.begun = {} /\ logDisk' = log'
                               /\ Logged(tail.slog.count, tail.sinceAt)')
  <2>1. ~tail.direct /\ Keeps /\ ~outgrown
    BY <1>6, <1>12 DEF Following
  <2>2. /\ tail.sinceAt <= tail.end
        /\ tail.since = SubSeq(main.cache, tail.sinceAt + 1, tail.end)
        /\ s.at = tail.sinceAt
        /\ \A p \in 1 .. tail.sinceAt : Safe(db, o, main, log, logDisk, p)
        /\ Begun(o) \/ (s.begun = {} /\ logDisk = log /\ Logged(s.count, tail.sinceAt))
    BY <2>1 DEF Following
  <2>3. tail'.since = tail.since \o pending
    BY <1>6, <2>1
  <2>4. tail'.sinceAt <= tail'.end
    BY SMTT(60), <1>1, <1>6, <2>2
  <2>5. tail'.since = SubSeq(main'.cache, tail'.sinceAt + 1, tail'.end)
    <3>1. SubSeq(main.cache, tail.sinceAt + 1, n) \o pending =
              SubSeq(main.cache \o pending, tail.sinceAt + 1, n + m)
      <4>1. tail.sinceAt <= Len(main.cache)
        BY <1>7, <2>2
      <4>2. QED
        BY <1>1, <1>2, <4>1, TailGrows
    <3>2. QED
      BY <1>6, <1>7, <2>2, <2>3, <3>1
  <2>6. ASSUME Begun(o)
        PROVE  Begun(o)'
    <3>1. Fingerprint(main'.cache, tail.sinceAt) = Fingerprint(main.cache, tail.sinceAt)
      <4>1. \A i \in 1 .. tail.sinceAt : i \in 1 .. n
        BY SMTT(60), <1>1, <1>2, <1>7, <2>2
      <4>2. tail.sinceAt <= n /\ tail.sinceAt <= n + m
        BY SMTT(60), <1>1, <1>2, <1>7, <2>2
      <4>3. \A i \in 1 .. tail.sinceAt : main'.cache[i] = main.cache[i]
        BY <1>3, <4>1
      <4>4. QED
        BY <1>1, <1>2, <1>3, <4>2, <4>3, SamePrint
    <3>2. QED
      BY <1>3, <1>4, <1>5, <1>6, <2>6, <3>1 DEF Begun
  <2>7. Logged(s.count, tail.sinceAt) => Logged(tail.slog.count, tail.sinceAt)'
    BY <1>3, <1>6 DEF Logged
  <2>8. QED
    BY <1>4, <1>6, <2>2, <2>4, <2>5, <2>6, <2>7
<1>13. QED
  BY <1>7, <1>10, <1>11, <1>12 DEF Following

\* The types of the tail once more was written.
LEMMA WroteType ==
    ASSUME TypeOK, NEW cells \in Seq(Cell), Len(cells) \in Nat
    PROVE  Wrote(tail, cells) \in
               [open : BOOLEAN, unmade : BOOLEAN, end : Nat, since : Seq(Seq(Int)),
                sinceAt : Nat, direct : BOOLEAN,
                slog : [gen : Nat, pos : Nat, at : Nat, count : Nat,
                        begun : SUBSET [gen : Nat, base : Nat, ino : Nat,
                                        print : Seq(Seq(Int))]]]
<1>1. tail \in [open : BOOLEAN, unmade : BOOLEAN, end : Nat, since : Seq(Seq(Int)),
                sinceAt : Nat, direct : BOOLEAN,
                slog : [gen : Nat, pos : Nat, at : Nat, count : Nat,
                        begun : SUBSET [gen : Nat, base : Nat, ino : Nat,
                                        print : Seq(Seq(Int))]]]
  BY DEF TypeOK
<1> DEFINE outgrown == Len(tail.since) + Len(cells) > EntryMax
           since == IF ~Keeps \/ tail.direct THEN tail.since
                    ELSE IF outgrown THEN <<>> ELSE tail.since \o cells
<1>2. tail.since \in Seq(Seq(Int)) /\ cells \in Seq(Seq(Int)) /\ tail.end \in Nat
      /\ tail.direct \in BOOLEAN
  BY <1>1 DEF Cell
<1>3. tail.since \o cells \in Seq(Seq(Int)) /\ <<>> \in Seq(Seq(Int))
  BY <1>2, ConcatProperties, EmptySeq
<1>4. since \in Seq(Seq(Int))
  BY <1>2, <1>3
<1>5. tail.end + Len(cells) \in Nat /\ (tail.direct \/ (Keeps /\ outgrown)) \in BOOLEAN
  <2>1. tail.end + Len(cells) \in Nat
    BY SMTT(60), <1>2
  <2>2. QED
    BY <2>1
<1> HIDE DEF since, outgrown
<1>6. [tail EXCEPT !.end = tail.end + Len(cells),
                   !.direct = tail.direct \/ (Keeps /\ outgrown),
                   !.since = since] \in
               [open : BOOLEAN, unmade : BOOLEAN, end : Nat, since : Seq(Seq(Int)),
                sinceAt : Nat, direct : BOOLEAN,
                slog : [gen : Nat, pos : Nat, at : Nat, count : Nat,
                        begun : SUBSET [gen : Nat, base : Nat, ino : Nat,
                                        print : Seq(Seq(Int))]]]
  BY <1>1, <1>4, <1>5
<1>7. QED
  BY <1>6 DEF Wrote, since, outgrown

\* What is pending written, by a sync or before one.
LEMMA WritePendingKeeps ==
    ASSUME SinkCore, proc = "up", disk.by = "none", ~disk.failed,
           NEW by \in {"none", "sync"}, NEW w \in [upto : Nat, holds : Nat],
           WritePending(by, w), waiting' \subseteq waiting, old' = old, log' = log,
           logDisk' = logDisk, proc' = proc, db' = db, appended' = appended,
           stopped' = stopped, durable' = durable, writes' = writes,
           by = "sync" => /\ w.holds = Len(db) - appended + w.upto
                          /\ disk.synced < w.upto /\ w.upto <= appended
    PROVE  SinkCore'
<1>1. /\ TypeOK /\ Counts /\ db \in Taken /\ Len(db) \in Nat
  BY CoreTypes
<1>2. PICK o \in -1 .. Len(db) : /\ Kept(db, o, main, log, logDisk, Len(durable))
                                 /\ OldKept(o) /\ Opening(o) /\ Going(o)
  BY DEF SinkCore
<1>3. /\ main' = WriteAtEnd(main, pending) /\ pending' = <<>> /\ tail' = Wrote(tail, pending)
      /\ disk' = [disk EXCEPT !.by = by, !.upto = w.upto, !.holds = w.holds,
                              !.written = disk.written + Len(pending)]
      /\ budget' = budget
  BY DEF WritePending
<1>4. Holding(o) /\ Following(o)
  BY <1>2 DEF Going
<1>5. FileKept(db, o, main) /\ LogKept(db, o, main, log, logDisk)
  BY <1>2 DEF Kept
<1>6. o \in Int
  BY SMTT(60), <1>1
<1>7. /\ pending \in Seq(Cell) /\ Len(pending) \in Nat /\ appended \in Nat
      /\ disk.written \in Nat /\ disk.synced \in Nat /\ disk.synced <= disk.written
      /\ disk.written + Len(pending) = appended
  BY <1>1, <1>4, UpTypes DEF Holding
<1>8. disk.written + Len(pending) \in Nat /\ disk.synced <= disk.written + Len(pending)
      /\ appended <= appended
  <2> DEFINE a == disk.written
             b == disk.synced
             c == Len(pending)
  <2>1. a \in Nat /\ b \in Nat /\ c \in Nat /\ b <= a /\ appended \in Nat
    BY <1>7
  <2> HIDE DEF a, b, c
  <2>2. a + c \in Nat /\ b <= a + c /\ appended <= appended
    BY SMTT(60), <2>1
  <2>3. QED
    BY <2>2 DEF a, b, c
<1>9. /\ disk' \in [by : {"none", "sync", "log", "image", "forgot", "renamed"}, upto : Nat,
                    holds : Nat, written : Nat, synced : Nat, failed : BOOLEAN]
      /\ disk'.by = by /\ disk'.upto = w.upto /\ disk'.holds = w.holds
      /\ disk'.written = disk.written + Len(pending) /\ disk'.synced = disk.synced
      /\ disk'.failed = disk.failed
  <2>1. w.upto \in Nat /\ w.holds \in Nat
    OBVIOUS
  <2>2. disk \in [by : {"none", "sync", "log", "image", "forgot", "renamed"}, upto : Nat,
                  holds : Nat, written : Nat, synced : Nat, failed : BOOLEAN]
    BY <1>1 DEF TypeOK
  <2>3. QED
    BY <1>3, <1>8, <2>1, <2>2
<1>10. AllWritten(o, main')
  BY <1>1, <1>3, <1>4, <1>5, <1>6, PendingWritten
<1>11. main'.cache = main.cache \o pending
  <2>1. main \in File
    BY <1>1, <1>5, FileTypes
  <2>2. QED
    BY <1>3, <2>1 DEF WriteAtEnd, File
<1>12. FileKept(db, o, main') /\ Carried(db, o, main, db, main')
  BY <1>10 DEF AllWritten
<1>13. old # {} => disk'.synced = 0
  BY <1>2, <1>9 DEF OldKept
<1>14. Kept(db', o, main', log', logDisk', Len(durable')) /\ OldKept(o)'
  BY <1>1, <1>2, <1>6, <1>12, <1>13, CarriedKeeps
<1>15. Following(o)'
  BY <1>1, <1>3, <1>4, <1>5, <1>6, <1>9, <1>10, <1>11, WroteFollowing
<1>16. Holding(o)'
  <2>1. \A n : Reach(db, o, main, log, logDisk, n) => Reach(db, o, main', log, logDisk, n)
    BY <1>1, <1>5, <1>12, CarriedLog
  <2>2. disk.synced > 0 => Reach(db, o, main', log, logDisk, Len(db) - appended + disk.synced)
    BY <1>4, <2>1 DEF Holding
  <2>3. /\ \A i \in 1 .. Len(main'.cache) : Good(db, o, i, main'.cache[i])
        /\ o + Len(main'.cache) = Len(db)
        /\ \A h \in Heads(log, logDisk), E \in Entries(log, logDisk) : h.ino = main'.ino =>
              \A k \in 1 .. Len(E) : Held(E, h, k) => EndOf(E[k]) <= Len(main'.cache)
        /\ Len(main'.cache) \in Nat
    BY <1>1, <1>10, <1>12, FileTypes DEF AllWritten
  <2>4. Len(<<>>) = 0 /\ (\A j \in 1 .. 0 : FALSE) /\ \A a \in Int : a + 0 = a
    BY SMTT(60)
  <2>5. /\ o + Len(main'.cache) + Len(pending') = Len(db)
        /\ disk'.written + Len(pending') = appended
        /\ \A j \in 1 .. Len(pending') : Good(db, o, Len(main'.cache) + j, pending'[j])
    <3>1. Len(db) \in Int /\ appended \in Int
      BY SMTT(60), <1>1, <1>7
    <3>2. QED
      BY <1>3, <1>7, <1>9, <2>3, <2>4, <3>1
  <2>6. disk'.synced = disk.synced
    BY <1>9
  <2>7. QED
    BY SMTT(60), <2>2, <2>3, <2>5, <2>6 DEF Holding
<1>17. TypeOK'
  <2>1. tail' \in [open : BOOLEAN, unmade : BOOLEAN, end : Nat, since : Seq(Seq(Int)),
                sinceAt : Nat, direct : BOOLEAN,
                slog : [gen : Nat, pos : Nat, at : Nat, count : Nat,
                        begun : SUBSET [gen : Nat, base : Nat, ino : Nat,
                                        print : Seq(Seq(Int))]]]
    BY <1>1, <1>3, <1>7, WroteType
  <2>2. pending' \in Seq(Seq(Int))
    BY <1>3, EmptySeq
  <2>3. disk'.synced <= disk'.written /\ disk'.written <= appended'
    BY <1>7, <1>8, <1>9
  <2>4. QED
    BY <1>1, <1>3, <1>9, <2>1, <2>2, <2>3 DEF TypeOK
<1>18. Counts'
  <2>1. \A v \in waiting' : v.holds = Len(db') - appended' + v.upto
    BY <1>1 DEF Counts
  <2>2. disk'.by \in {"sync", "log"} =>
          /\ disk'.holds = Len(db') - appended' + disk'.upto
          /\ disk'.synced < disk'.upto /\ disk'.upto <= disk'.written
    BY <1>7, <1>9
  <2>3. QED
    BY <1>1, <1>9, <2>1, <2>2 DEF Counts
<1>19. Opening(o)' /\ Going(o)'
  BY <1>9, <1>15, <1>16 DEF Opening, Going
<1>20. QED
  BY <1>2, <1>14, <1>17, <1>18, <1>19 DEF SinkCore

\* A sink that failed: its file and its log are all there is to say of.
LEMMA FailedCore ==
    ASSUME TypeOK, Counts, proc = "up", proc' = proc, db' = db, appended' = appended,
           tail' = tail, stopped' = stopped, durable' = durable, writes' = writes,
           waiting' \subseteq waiting, pending' \in {pending, <<>>}, budget' \in BudgetType,
           \/ disk' = [disk EXCEPT !.by = "none", !.upto = 0, !.holds = 0, !.failed = TRUE]
           \/ disk' = [disk EXCEPT !.by = "none", !.failed = TRUE]
           \/ disk' = [disk EXCEPT !.failed = TRUE] /\ disk.by = "none",
           NEW o \in -1 .. Len(db), Kept(db', o, main', log', logDisk', Len(durable')),
           OldKept(o)'
    PROVE  SinkCore'
<1>1. disk \in [by : {"none", "sync", "log", "image", "forgot", "renamed"}, upto : Nat,
                holds : Nat, written : Nat, synced : Nat, failed : BOOLEAN]
      /\ 0 \in Nat
  BY DEF TypeOK
<1>2. /\ disk' \in [by : {"none", "sync", "log", "image", "forgot", "renamed"}, upto : Nat,
                    holds : Nat, written : Nat, synced : Nat, failed : BOOLEAN]
      /\ disk'.by = "none" /\ disk'.failed = TRUE /\ disk'.written = disk.written
      /\ disk'.synced = disk.synced
  <2>1. CASE disk' = [disk EXCEPT !.by = "none", !.upto = 0, !.holds = 0, !.failed = TRUE]
    BY <1>1, <2>1
  <2>2. CASE disk' = [disk EXCEPT !.by = "none", !.failed = TRUE]
    BY <1>1, <2>2
  <2>3. CASE disk' = [disk EXCEPT !.failed = TRUE] /\ disk.by = "none"
    BY <1>1, <2>3
  <2>4. QED
    BY <2>1, <2>2, <2>3
<1>3. TypeOK'
  <2>1. pending' \in Seq(Seq(Int))
    <3>1. pending \in Seq(Seq(Int))
      BY DEF TypeOK
    <3>2. <<>> \in Seq(Seq(Int))
      BY EmptySeq
    <3>3. QED
      BY <3>1, <3>2
  <2>2. disk'.synced <= disk'.written /\ disk'.written <= appended'
    BY <1>2 DEF TypeOK
  <2>3. \A v \in waiting' : /\ v \in [upto : Nat, holds : Nat]
                            /\ v.upto <= appended' /\ v.holds <= Len(db')
    BY DEF TypeOK
  <2>4. QED
    BY <1>2, <2>1, <2>2, <2>3 DEF TypeOK, BudgetType
<1>4. Counts'
  BY <1>2 DEF Counts
<1>5. Opening(o)' /\ Going(o)'
  BY <1>2 DEF Opening, Going
<1>6. QED
  BY <1>3, <1>4, <1>5 DEF SinkCore

\* A write that fails.
LEMMA WriteFailsKeeps ==
    ASSUME SinkCore, proc = "up", disk.by = "none", ~disk.failed, WriteFails,
           waiting' \subseteq waiting, old' = old, log' = log,
           logDisk' = logDisk, proc' = proc, db' = db, appended' = appended,
           stopped' = stopped, durable' = durable, writes' = writes
    PROVE  SinkCore'
<1>1. /\ TypeOK /\ Counts /\ db \in Taken /\ Len(db) \in Nat
  BY CoreTypes
<1>2. PICK o \in -1 .. Len(db) : /\ Kept(db, o, main, log, logDisk, Len(durable))
                                 /\ OldKept(o) /\ Opening(o) /\ Going(o)
  BY DEF SinkCore
<1>3. /\ main' \in WrittenPartly /\ pending' = <<>> /\ tail' = tail
      /\ disk' = [disk EXCEPT !.failed = TRUE] /\ Spend("fail")
  BY DEF WriteFails
<1>4. FileKept(db, o, main)
  BY <1>2 DEF Kept
<1>5. o \in Int
  BY SMTT(60), <1>1
<1>6. Holding(o) /\ pending \in Seq(Cell)
  BY <1>1, <1>2, UpTypes DEF Going
<1>7. FileKept(db, o, main') /\ Carried(db, o, main, db, main')
  BY <1>1, <1>3, <1>4, <1>6, WrittenPartlyKept DEF Holding
<1>8. disk'.failed
  BY <1>1, <1>3 DEF TypeOK
<1>9. Kept(db', o, main', log', logDisk', Len(durable')) /\ OldKept(o)'
  BY <1>1, <1>2, <1>5, <1>7, <1>8, CarriedKeeps
<1>10. budget' \in BudgetType
  BY <1>1, <1>3, SpendType
<1>11. QED
  BY <1>1, <1>2, <1>3, <1>9, <1>10, FailedCore

\* A buffer written, and no fsync.
LEMMA WriteOutKeeps ==
    ASSUME SinkCore, WriteOut
    PROVE  SinkCore'
<1>1. /\ proc = "up" /\ disk.by = "none" /\ ~disk.failed /\ old' = old /\ log' = log
      /\ logDisk' = logDisk /\ proc' = proc /\ db' = db /\ appended' = appended
      /\ waiting' = waiting /\ stopped' = stopped /\ durable' = durable /\ writes' = writes
  BY DEF WriteOut
<1> DEFINE w == [upto |-> 0, holds |-> 0]
<1>2. w \in [upto : Nat, holds : Nat]
  BY SMTT(60)
<1>3. CASE WritePending("none", w)
  <2> HIDE DEF w
  <2>1. QED
    BY <1>1, <1>2, <1>3, WritePendingKeeps
<1>4. CASE WriteFails
  BY <1>1, <1>4, WriteFailsKeeps
<1>5. QED
  BY <1>3, <1>4 DEF WriteOut

\* What was reported durable goes on: the writes up to a place that is safe.
LEMMA ReportedKept ==
    ASSUME TypeOK, db \in Taken, db \in Seq(1 .. MaxWrites), Len(db) \in Nat,
           Len(durable) \in Nat, durable \in Seq(1 .. MaxWrites), Len(durable) <= Len(db),
           durable = SubSeq(db, 1, Len(durable)), db' = db,
           NEW w, w.upto \in Nat, w.holds \in Nat, Reported(w),
           NEW o \in Int, NEW n \in Int, n <= Len(db), w.upto > 0 => w.holds <= n,
           Reach(db, o, main', log', logDisk', Len(durable)),
           w.upto > 0 => Reach(db, o, main', log', logDisk', n)
    PROVE  /\ Reach(db, o, main', log', logDisk', Len(durable'))
           /\ durable' \in Seq(1 .. MaxWrites) /\ Len(durable') <= Len(db')
           /\ durable' = SubSeq(db', 1, Len(durable'))
           /\ Len(durable') \in Len(durable) .. Len(db)
<1>1. CASE ~(w.upto > 0 /\ w.holds > Len(durable))
  <2>1. durable' = durable
    BY <1>1 DEF Reported
  <2>2. Len(durable) \in Len(durable) .. Len(db)
    BY SMTT(60)
  <2>3. QED
    BY <2>1, <2>2
<1>2. CASE w.upto > 0 /\ w.holds > Len(durable)
  <2> DEFINE k == w.holds
  <2>1. durable' = SubSeq(db, 1, k) /\ k \in Nat /\ k <= n /\ k > Len(durable)
        /\ Reach(db, o, main', log', logDisk', n)
    BY <1>2 DEF Reported
  <2> HIDE DEF k
  <2>2. k \in 0 .. Len(db) /\ k <= Len(db) /\ k \in Len(durable) .. Len(db)
        /\ \A p \in 1 .. k - o : p \in 1 .. n - o
    BY SMTT(60), <2>1
  <2>3. 1 \in Nat \ {0}
    BY SMTT(60)
  <2>4. SubSeq(db, 1, k) \in Seq(1 .. MaxWrites)
    BY <2>2, <2>3, PartOf
  <2>5. Len(SubSeq(db, 1, k)) = k
    BY <2>2, GoodCut
  <2>6. Reach(db, o, main', log', logDisk', k)
    BY <2>1, <2>2 DEF Reach
  <2>7. QED
    BY <2>1, <2>2, <2>4, <2>5, <2>6
<1>3. QED
  BY <1>1, <1>2

\* A durability that runs: it reports what is durable already, or takes the disk
\* and writes what is pending.
LEMMA RunDurabilityKeeps ==
    ASSUME SinkCore, NEW w \in waiting, RunDurability(w)
    PROVE  SinkCore' /\ db' = db /\ Len(durable') \in Len(durable) .. Len(db)
<1>1. /\ TypeOK /\ Counts /\ db \in Taken /\ Len(db) \in Nat /\ Len(durable) \in Nat
      /\ Len(durable) <= Len(db) /\ durable = SubSeq(db, 1, Len(durable))
      /\ db \in Seq(1 .. MaxWrites) /\ durable \in Seq(1 .. MaxWrites)
  BY CoreTypes
<1>2. /\ proc = "up" /\ disk.by = "none" /\ old' = old /\ log' = log
      /\ logDisk' = logDisk /\ proc' = proc /\ db' = db /\ appended' = appended
      /\ waiting' = waiting \ {w} /\ stopped' = stopped /\ writes' = writes
  BY DEF RunDurability
<1>3. /\ w \in [upto : Nat, holds : Nat] /\ w.upto \in Nat /\ w.holds \in Nat
      /\ w.upto <= appended /\ w.holds <= Len(db) /\ w.holds = Len(db) - appended + w.upto
  BY <1>1 DEF TypeOK, Counts
<1>4. Len(durable) \in Len(durable) .. Len(db)
  BY SMTT(60), <1>1
<1>5. disk.synced \in Nat /\ appended \in Nat /\ disk.synced <= disk.written
      /\ disk.written <= appended /\ disk.written \in Nat
  BY <1>1, UpTypes
<1>6. CASE disk.failed \/ disk.synced >= w.upto
  <2>1. PICK o \in -1 .. Len(db) : /\ Kept(db, o, main, log, logDisk, Len(durable))
                                   /\ OldKept(o) /\ Opening(o) /\ Going(o)
    BY DEF SinkCore
  <2>2. /\ main' = main /\ pending' = pending /\ disk' = disk /\ tail' = tail
        /\ budget' = budget /\ IF disk.failed THEN durable' = durable ELSE Reported(w)
    BY <1>6 DEF RunDurability
  <2>3. o \in Int
    BY SMTT(60), <1>1
  <2>4. /\ FileKept(db, o, main) /\ LogKept(db, o, main, log, logDisk)
        /\ Reach(db, o, main, log, logDisk, Len(durable))
    BY <2>1 DEF Kept
  <2>5. /\ Reach(db, o, main', log', logDisk', Len(durable'))
        /\ durable' \in Seq(1 .. MaxWrites) /\ Len(durable') <= Len(db')
        /\ durable' = SubSeq(db', 1, Len(durable'))
        /\ Len(durable') \in Len(durable) .. Len(db)
        /\ old = {} \/ durable' = durable
    <3>1. CASE disk.failed
      BY <1>1, <1>2, <1>4, <2>2, <2>4, <3>1
    <3>2. CASE ~disk.failed
      <4> DEFINE n == Len(db) - appended + disk.synced
                 a == w.upto
                 b == w.holds
                 e == disk.synced
      <4>1. /\ a \in Nat /\ b \in Nat /\ e \in Nat /\ appended \in Nat /\ Len(db) \in Nat
            /\ e >= a /\ e <= appended /\ b = Len(db) - appended + a
        <5>1. e <= appended
          <6> DEFINE f == disk.written
          <6>1. f \in Nat /\ e \in Nat /\ appended \in Nat /\ e <= f /\ f <= appended
            BY <1>5
          <6> HIDE DEF e, f
          <6>2. QED
            BY SMTT(60), <6>1
        <5>2. QED
          BY <1>1, <1>3, <1>5, <1>6, <3>2, <5>1
      <4>2. n = Len(db) - appended + e
        OBVIOUS
      <4>3. Holding(o) /\ (old # {} => e = 0)
        BY <1>2, <2>1, <3>2 DEF Going, OldKept
      <4>4. e > 0 => Reach(db, o, main', log', logDisk', n)
        BY <1>2, <2>2, <4>3 DEF Holding
      <4> HIDE DEF n, a, b, e
      <4>5. n \in Int /\ n <= Len(db) /\ (a > 0 => b <= n) /\ (a > 0 => e > 0)
            /\ (e = 0 => ~(a > 0))
        BY SMTT(60), <4>1, <4>2
      <4>6. /\ w.upto \in Nat /\ w.holds \in Nat /\ (w.upto > 0 => w.holds <= n)
            /\ (w.upto > 0 => Reach(db, o, main', log', logDisk', n))
            /\ Reach(db, o, main', log', logDisk', Len(durable)) /\ Reported(w)
        BY <1>2, <1>3, <2>2, <2>4, <3>2, <4>4, <4>5 DEF a, b
      <4>7. old # {} => durable' = durable
        BY <4>3, <4>5, <4>6 DEF Reported, a
      <4>8. QED
        BY <1>1, <1>2, <2>3, <4>5, <4>6, <4>7, ReportedKept
    <3>3. QED
      BY <3>1, <3>2
  <2>6. Kept(db', o, main', log', logDisk', Len(durable'))
    BY <1>2, <2>2, <2>4, <2>5 DEF Kept
  <2>7. OldKept(o)'
    BY <1>2, <2>1, <2>2, <2>5 DEF OldKept
  <2>8. TypeOK'
    BY <1>1, <1>2, <2>2, <2>5 DEF TypeOK
  <2>9. Counts'
    BY <1>1, <1>2, <2>2, <2>5 DEF Counts
  <2>10. Opening(o)'
    BY <1>2 DEF Opening
  <2>11. Going(o)'
    <3>1. (Holding(o) => Holding(o)') /\ (Following(o) => Following(o)')
      BY <1>2, <2>2 DEF Holding, Following, Begun, Logged
    <3>2. QED
      BY <1>2, <2>1, <2>2, <3>1 DEF Going
  <2>12. SinkCore'
    BY <1>2, <2>6, <2>7, <2>8, <2>9, <2>10, <2>11 DEF SinkCore
  <2>13. QED
    BY <1>2, <2>5, <2>12
<1>7. CASE ~(disk.failed \/ disk.synced >= w.upto)
  <2>1. durable' = durable /\ (WritePending("sync", w) \/ WriteFails)
    BY <1>7 DEF RunDurability
  <2>2. ~disk.failed /\ disk.synced < w.upto
    <3> DEFINE a == w.upto
               e == disk.synced
    <3>1. a \in Nat /\ e \in Nat /\ ~(e >= a)
      BY <1>3, <1>5, <1>7
    <3> HIDE DEF a, e
    <3>2. e < a
      BY SMTT(60), <3>1
    <3>3. QED
      BY <1>7, <3>2 DEF a, e
  <2>3. waiting' \subseteq waiting
    BY <1>2
  <2>4. CASE WritePending("sync", w)
    <3>1. SinkCore'
      BY <1>2, <1>3, <2>1, <2>2, <2>3, <2>4, WritePendingKeeps
    <3>2. QED
      BY <1>2, <1>4, <2>1, <3>1
  <2>5. CASE WriteFails
    <3>1. SinkCore'
      BY <1>2, <2>1, <2>2, <2>3, <2>5, WriteFailsKeeps
    <3>2. QED
      BY <1>2, <1>4, <2>1, <3>1
  <2>6. QED
    BY <2>1, <2>4, <2>5
<1>8. QED
  BY <1>6, <1>7

------------------------------------------------------------------------------
(* A sync through the log.                                                 *)

\* The log with an entry after those of the tail's generation.
WithEntry(e) ==
    [made |-> TRUE,
     head |-> IF tail.slog.begun # {} THEN tail.slog.begun ELSE log.head,
     entries |-> Append(SubSeq(log.entries, 1, IF tail.slog.begun # {} THEN 0
                                               ELSE tail.slog.count), e)]

TailEntry == [gen |-> tail.slog.gen, at |-> tail.slog.at, cells |-> tail.since]

\* What an entry leaves of the log.
EntryKept(o, e, l) ==
    /\ LogKept(db, o, main, l, logDisk)
    /\ \A p : Safe(db, o, main, log, logDisk, p) => Safe(db, o, main, l, logDisk, p)

\* And a whole one.
EntryWhole(e, l) ==
    /\ Len(l.entries) = tail.slog.count + 1 /\ l.entries[tail.slog.count + 1] = e
    /\ \E h \in l.head : /\ h.ino = main.ino /\ h.gen = tail.slog.gen
                         /\ Held(l.entries, h, tail.slog.count + 1)
    /\ \A h \in Heads(l, logDisk) : h.gen <= tail.slog.gen
    /\ l.entries[1].gen <= tail.slog.gen
    /\ \A h \in Heads(l, logDisk), E \in Entries(l, logDisk) : h.ino = main.ino =>
          \A k \in 1 .. Len(E) : Held(E, h, k) => EndOf(E[k]) <= Len(main.cache)

\* The entry the tail writes holds the file's records, up to its end.
LEMMA TailEntryIs ==
    ASSUME TypeOK, db \in Taken, NEW o \in Int, FileKept(db, o, main), Holding(o),
           Following(o), ~tail.direct
    PROVE  /\ TailEntry \in Entry /\ TailEntry.gen = tail.slog.gen
           /\ TailEntry.at = tail.sinceAt /\ EndOf(TailEntry) = tail.end
           /\ \A j \in 1 .. Len(TailEntry.cells) :
                 Good(db, o, TailEntry.at + j, TailEntry.cells[j])
<1>1. /\ tail.slog.gen \in Nat /\ tail.slog.at \in Nat /\ tail.since \in Seq(Cell)
      /\ tail.sinceAt \in Nat /\ tail.end \in Nat
  BY UpTypes
<1>2. /\ TailEntry \in Entry /\ TailEntry.gen = tail.slog.gen
      /\ TailEntry.at = tail.slog.at /\ TailEntry.cells = tail.since
  BY <1>1 DEF TailEntry, Entry
<1>3. /\ tail.sinceAt <= tail.end /\ tail.end = Len(main.cache)
      /\ tail.since = SubSeq(main.cache, tail.sinceAt + 1, tail.end)
      /\ tail.slog.at = tail.sinceAt
  BY DEF Following
<1>4. main.cache \in Seq(Cell)
  BY FileTypes
<1> DEFINE c == main.cache
           t == tail.since
           a == tail.sinceAt
<1>5. /\ Len(t) = Len(c) - a
      /\ \A j \in 1 .. Len(t) : t[j] = c[a + j]
  <2>1. \A x \in Seq(Cell) : \A b \in Nat : b <= Len(x) =>
            /\ Len(SubSeq(x, b + 1, Len(x))) = Len(x) - b
            /\ \A j \in 1 .. Len(x) - b : SubSeq(x, b + 1, Len(x))[j] = x[b + j]
    BY SMTT(60)
  <2>2. a <= Len(c) /\ t = SubSeq(c, a + 1, Len(c)) /\ c \in Seq(Cell) /\ a \in Nat
    BY <1>1, <1>3, <1>4
  <2> HIDE DEF a, c, t
  <2>3. QED
    BY <2>1, <2>2
<1>6. \A i \in 1 .. Len(c) : Good(db, o, i, c[i])
  BY DEF Holding
<1>7. a \in Nat /\ Len(c) \in Nat /\ a <= Len(c) /\ tail.end = Len(c)
  BY <1>1, <1>3
<1> HIDE DEF a, c, t
<1>8. /\ a + Len(t) = Len(c)
      /\ \A j \in 1 .. Len(t) : a + j \in 1 .. Len(c)
  BY SMTT(60), <1>5, <1>7
<1>9. EndOf(TailEntry) = tail.end
  BY <1>2, <1>3, <1>7, <1>8 DEF EndOf, a, t
<1>10. \A j \in 1 .. Len(t) : Good(db, o, a + j, t[j])
  BY <1>5, <1>6, <1>8
<1>11. QED
  BY <1>2, <1>3, <1>9, <1>10 DEF a, t

\* The tail's entry, whole or cut short, keeps the log.
LEMMA EntryWritten ==
    ASSUME TypeOK, db \in Taken, NEW o \in Int, FileKept(db, o, main),
           LogKept(db, o, main, log, logDisk), Holding(o), Following(o), disk.by = "sync",
           ~tail.direct, NEW e \in {TailEntry, TornEntry}
    PROVE  /\ EntryKept(o, e, WithEntry(e))
           /\ e.gen = tail.slog.gen => EntryWhole(e, WithEntry(e))
<1> DEFINE s == tail.slog
           l2 == WithEntry(e)
<1>1. /\ TailEntry \in Entry /\ TailEntry.gen = s.gen
      /\ TailEntry.at = tail.sinceAt /\ EndOf(TailEntry) = tail.end
      /\ \A j \in 1 .. Len(TailEntry.cells) :
            Good(db, o, TailEntry.at + j, TailEntry.cells[j])
  BY TailEntryIs
<1>2. TornEntry \in Entry /\ TornEntry.gen = 0
  <2>1. <<>> \in Seq(Cell) /\ 0 \in Nat
    BY EmptySeq
  <2>2. QED
    BY <2>1 DEF TornEntry, Entry
<1>3. /\ log.made /\ s.gen > 0 /\ tail.open
      /\ \A h \in Heads(log, logDisk) : h.gen <= s.gen
      /\ Begun(o) \/ (s.begun = {} /\ logDisk = log /\ Logged(s.count, tail.sinceAt))
      /\ tail.end = Len(main.cache)
  BY UpTypes DEF Following
<1>4. /\ e \in Entry /\ (e.gen = 0 \/ e = TailEntry) /\ s.gen \in Nat /\ s.count \in Nat
      /\ (e.gen = s.gen => e = TailEntry)
  <2>1. s.gen \in Nat /\ s.count \in Nat /\ s.gen # 0
    <3>1. s.gen \in Nat /\ s.count \in Nat
      BY UpTypes
    <3>2. \A a \in Nat : a > 0 => a # 0
      BY SMTT(60)
    <3>3. QED
      BY <1>3, <3>1, <3>2
  <2>2. QED
    BY <1>1, <1>2, <2>1
<1>5. LogPair(log, logDisk) /\ log \in LogFile /\ logDisk.made /\ log.head \in SUBSET Header
      /\ log.entries \in Seq(Entry)
  BY <1>3 DEF LogKept, LogPair, LogFile
<1>6. \A h \in Heads(log, logDisk), E \in Entries(log, logDisk) : h.ino = main.ino =>
          \A k \in 1 .. Len(E) : Held(E, h, k) => EndOf(E[k]) <= Len(main.cache)
  BY DEF Holding
<1>7. tail.end \in Nat /\ tail.end <= tail.end
  <2>1. tail.end \in Nat
    BY UpTypes
  <2>2. QED
    BY SMTT(60), <2>1
<1>8. CASE s.begun = {} /\ logDisk = log /\ Logged(s.count, tail.sinceAt)
  <2> DEFINE n == s.count
  <2>1. /\ Len(log.entries) = n /\ EndOf(log.entries[n]) = tail.sinceAt
        /\ \E h \in log.head : h.ino = main.ino /\ h.gen = s.gen /\ Held(log.entries, h, n)
    BY <1>8 DEF Logged
  <2>2. PICK h \in log.head : h.ino = main.ino /\ h.gen = s.gen /\ Held(log.entries, h, n)
    BY <2>1
  <2>3. l2.made /\ l2.head = log.head /\ l2.entries = Append(log.entries, e) /\ l2 \in LogFile
    <3>1. \A q \in Seq(Entry) : SubSeq(q, 1, Len(q)) = q /\ \A x \in Entry : Append(q, x) \in Seq(Entry)
      BY SMTT(60)
    <3>2. l2.made /\ l2.head = log.head /\ l2.entries = Append(SubSeq(log.entries, 1, n), e)
      BY <1>8 DEF WithEntry
    <3>3. l2.entries = Append(log.entries, e) /\ l2.entries \in Seq(Entry)
      BY <1>4, <1>5, <2>1, <3>1, <3>2
    <3>4. l2 = [made |-> TRUE, head |-> log.head, entries |-> Append(log.entries, e)]
      BY <1>8, <3>2, <3>3 DEF WithEntry
    <3>5. QED
      BY <1>5, <3>2, <3>3, <3>4 DEF LogFile
  <2> HIDE DEF l2
  <2>4. LogKept(db, o, main, log, log)
    BY <1>8
  <2>5. GoesOn(db, o, h, EndOf(log.entries[n]), e)
    BY <1>1, <1>4, <2>1, <2>2 DEF GoesOn
  <2>6. OneMore(db, o, main, log, h, n, e, l2)
    BY <1>4, <2>1, <2>2, <2>3, <2>4, <2>5, MoreWritten
  <2>7. ASSUME e.gen = s.gen
        PROVE  EntryWhole(e, l2)
    <3>1. e = TailEntry /\ e.gen = h.gen
      BY <1>4, <2>2, <2>7
    <3>2. /\ Len(l2.entries) = n + 1 /\ l2.entries[n + 1] = e /\ Held(l2.entries, h, n + 1)
      BY <2>6, <3>1 DEF OneMore
    <3>3. \A g \in Heads(l2, log), E \in Entries(l2, log) : \A k \in 1 .. Len(E) :
              Held(E, g, k) =>
                 g = h /\ \/ k \in 1 .. n /\ Held(log.entries, h, k) /\ E[k] = log.entries[k]
                          \/ E[k] = e /\ e.gen = h.gen
      BY <2>6 DEF OneMore
    <3>4. \A g \in Heads(l2, log) : g.gen <= s.gen
      BY <1>3, <1>8, <2>3 DEF Heads
    <3>5. l2.entries[1].gen <= s.gen
      <4>1. l2.entries[1].gen = h.gen
        <5>1. n + 1 \in Nat
          BY SMTT(60), <1>4
        <5>2. QED
          BY <3>2, <5>1, HeldFirst
      <4>2. \A a \in Nat : a <= a
        BY SMTT(60)
      <4>3. QED
        BY <1>4, <2>2, <4>1, <4>2
    <3>6. ASSUME NEW g \in Heads(l2, log), NEW E \in Entries(l2, log), g.ino = main.ino,
                 NEW k \in 1 .. Len(E), Held(E, g, k)
          PROVE  EndOf(E[k]) <= Len(main.cache)
      <4>1. CASE k \in 1 .. n /\ Held(log.entries, h, k) /\ E[k] = log.entries[k]
        BY <1>6, <2>1, <2>2, <4>1 DEF Heads, Entries
      <4>2. CASE E[k] = e
        BY <1>1, <1>3, <1>7, <3>1, <4>2
      <4>3. QED
        BY <3>3, <3>6, <4>1, <4>2
    <3>7. QED
      BY <1>8, <2>2, <2>3, <3>2, <3>4, <3>5, <3>6 DEF EntryWhole
  <2>8. QED
    BY <1>8, <2>6, <2>7 DEF EntryKept, OneMore, l2
<1>9. CASE Begun(o)
  <2> DEFINE h == [gen |-> s.gen, base |-> tail.sinceAt, ino |-> main.ino,
                   print |-> Fingerprint(main.cache, tail.sinceAt)]
  <2>1. /\ s.begun = {h} /\ s.count = 0 /\ CleanTo(db, o, main, tail.sinceAt)
        /\ AllRetired(db, o, main, log, logDisk)
        /\ \A g \in Heads(log, logDisk) : g.gen < s.gen
        /\ \A E \in Entries(log, logDisk) :
              E # <<>> => E[1].gen < s.gen \/ E[1].at < tail.sinceAt
    BY <1>9 DEF Begun
  <2>2. /\ h.gen = s.gen /\ h.base = tail.sinceAt /\ h.ino = main.ino
        /\ h.print = Fingerprint(main.cache, tail.sinceAt) /\ h \in Header
    <3>1. s.begun \in SUBSET [gen : Nat, base : Nat, ino : Nat, print : Seq(Seq(Int))]
      BY UpTypes
    <3>2. h.gen = s.gen /\ h.base = tail.sinceAt /\ h.ino = main.ino
          /\ h.print = Fingerprint(main.cache, tail.sinceAt)
      OBVIOUS
    <3> HIDE DEF h
    <3>3. h \in [gen : Nat, base : Nat, ino : Nat, print : Seq(Seq(Int))] /\ h.gen # 0
      <4>1. \A a \in Nat : a > 0 => a # 0
        BY SMTT(60)
      <4>2. QED
        BY <1>3, <1>4, <2>1, <3>1, <3>2, <4>1
    <3>4. h \in Header
      BY <3>3 DEF Header, Cell
    <3>5. QED
      BY <3>2, <3>4
  <2> HIDE DEF h
  <2>3. l2.made /\ l2.head = {h} /\ l2.entries = <<e>> /\ l2 \in LogFile
    <3>1. \A q \in Seq(Entry) : \A x \in Entry :
              Append(SubSeq(q, 1, 0), x) = <<x>> /\ <<x>> \in Seq(Entry)
      <4>1. \A q \in Seq(Entry) : SubSeq(q, 1, 0) = <<>>
        BY SMTT(60)
      <4>2. \A x \in Entry : Append(<<>>, x) = <<x>> /\ <<x>> \in Seq(Entry)
        BY SMTT(60)
      <4>3. QED
        BY <4>1, <4>2
    <3>2. l2 = [made |-> TRUE, head |-> {h}, entries |-> Append(SubSeq(log.entries, 1, 0), e)]
      BY <2>1 DEF WithEntry
    <3>3. Append(SubSeq(log.entries, 1, 0), e) = <<e>> /\ <<e>> \in Seq(Entry)
      BY <1>4, <1>5, <3>1
    <3>4. {h} \in SUBSET Header
      BY <2>2
    <3>5. l2 = [made |-> TRUE, head |-> {h}, entries |-> <<e>>]
      BY <3>2, <3>3
    <3> HIDE DEF l2
    <3>6. QED
      BY <3>3, <3>4, <3>5 DEF LogFile
  <2> HIDE DEF l2
  <2>4. HeadKept(db, o, main, h)
    BY <2>1, <2>2 DEF HeadKept
  <2>5. GoesOn(db, o, h, h.base, e)
    BY <1>1, <1>4, <2>2 DEF GoesOn
  <2>6. /\ \A g \in Heads(log, logDisk) : g.gen < h.gen
        /\ \A E \in Entries(log, logDisk) : E # <<>> => E[1].gen < h.gen \/ E[1].at < h.base
        /\ main.ino \in Nat
    BY <2>1, <2>2, FileTypes
  <2>7. FirstOne(db, o, main, log, logDisk, h, e, l2)
    BY <1>4, <1>5, <2>1, <2>2, <2>3, <2>4, <2>5, <2>6, FirstWritten
  <2>8. ASSUME e.gen = s.gen
        PROVE  EntryWhole(e, l2)
    <3>1. e = TailEntry /\ e.gen = h.gen
      BY <1>4, <2>2, <2>8
    <3>2. Held(l2.entries, h, 1)
      BY <2>7, <3>1 DEF FirstOne
    <3>3. \A g \in Heads(l2, logDisk), E \in Entries(l2, logDisk) : \A k \in 1 .. Len(E) :
              Held(E, g, k) =>
                 \/ g \in logDisk.head /\ E = logDisk.entries
                 \/ g = h /\ E[k] = e /\ e.gen = h.gen
      BY <2>7 DEF FirstOne
    <3>4. 0 + 1 = 1 /\ (\A a \in Nat : a <= a) /\ \A a, b \in Nat : a < b => a <= b
      BY SMTT(60)
    <3>5. Len(l2.entries) = 1 /\ l2.entries[1] = e
      BY SMTT(60), <2>3
    <3>6. \A g \in Heads(l2, logDisk) : g.gen <= s.gen
      BY <1>3, <1>4, <2>2, <2>3, <3>4 DEF Heads
    <3>7. ASSUME NEW g \in Heads(l2, logDisk), NEW E \in Entries(l2, logDisk),
                 g.ino = main.ino, NEW k \in 1 .. Len(E), Held(E, g, k)
          PROVE  EndOf(E[k]) <= Len(main.cache)
      <4>1. CASE g \in logDisk.head /\ E = logDisk.entries
        BY <1>6, <3>7, <4>1 DEF Heads, Entries
      <4>2. CASE E[k] = e
        BY <1>1, <1>3, <1>7, <3>1, <4>2
      <4>3. QED
        BY <3>3, <3>7, <4>1, <4>2
    <3>8. QED
      BY <1>4, <2>1, <2>2, <2>3, <2>8, <3>2, <3>4, <3>5, <3>6, <3>7 DEF EntryWhole
  <2>9. QED
    BY <2>7, <2>8 DEF EntryKept, FirstOne, l2
<1>10. QED
  BY <1>3, <1>8, <1>9

\* An entry cut short is one in its place that is none.
LEMMA TornAppend ==
    ASSUME NEW q \in Seq(Entry), NEW e \in Entry
    PROVE  TornLast(Append(q, e)) = Append(q, TornEntry)
<1>1. TornEntry \in Entry
  <2>1. <<>> \in Seq(Cell) /\ 0 \in Nat
    BY EmptySeq
  <2>2. QED
    BY <2>1 DEF TornEntry, Entry
<1>2. \A x \in Entry : /\ Append(q, x) \in Seq(Entry) /\ Len(Append(q, x)) = Len(q) + 1
                       /\ \A i \in 1 .. Len(q) : Append(q, x)[i] = q[i]
                       /\ Append(q, x)[Len(q) + 1] = x
  BY SMTT(60)
<1> DEFINE E == Append(q, e)
           F == Append(q, TornEntry)
           T == TornLast(E)
<1>3. /\ E \in Seq(Entry) /\ Len(E) = Len(q) + 1 /\ \A i \in 1 .. Len(q) : E[i] = q[i]
      /\ F \in Seq(Entry) /\ Len(F) = Len(q) + 1 /\ \A i \in 1 .. Len(q) : F[i] = q[i]
      /\ F[Len(q) + 1] = TornEntry
  BY <1>1, <1>2
<1> HIDE DEF E, F
<1>4. /\ T \in Seq(Entry) /\ Len(T) = Len(E)
      /\ \A i \in 1 .. Len(E) : i < Len(E) => T[i] = E[i]
      /\ Len(E) > 0 => T[Len(E)] = TornEntry
  BY <1>3, TornIs
<1> HIDE DEF T
<1>5. Len(q) \in Nat
  BY LenProperties
<1>6. /\ Len(q) + 1 > 0
      /\ \A i \in 1 .. Len(q) + 1 : \/ i = Len(q) + 1
                                    \/ i \in 1 .. Len(q) /\ i < Len(q) + 1
  BY SMTT(60), <1>5
<1>7. \A i \in 1 .. Len(T) : T[i] = F[i]
  BY <1>3, <1>4, <1>6
<1>8. T = F
  BY <1>3, <1>4, <1>7, SeqEqual
<1>9. QED
  BY <1>8 DEF T, E, F

\* What a sync starts from: the tail knows the file.
LEMMA SyncStarts ==
    ASSUME SinkCore, proc = "up", disk.by \in {"sync", "log"}
    PROVE  /\ ~disk.failed
           /\ \E o \in -1 .. Len(db) : /\ Kept(db, o, main, log, logDisk, Len(durable))
                                       /\ OldKept(o) /\ Holding(o) /\ Following(o) /\ o \in Int
                                       /\ tail.open => old = {}
<1>1. TypeOK /\ Counts /\ db \in Taken /\ Len(db) \in Nat
  BY CoreTypes
<1>2. PICK o \in -1 .. Len(db) : /\ Kept(db, o, main, log, logDisk, Len(durable))
                                 /\ OldKept(o) /\ Going(o)
  BY DEF SinkCore
<1>3. ~disk.failed
  BY <1>1 DEF Counts
<1>4. Holding(o) /\ Following(o)
  BY <1>2, <1>3 DEF Going
<1>5. o \in Int
  BY SMTT(60), <1>1
<1>6. tail.open => old = {}
  <2>1. old # {} => log = NoLog
    BY <1>2 DEF OldKept
  <2>2. tail.open => log.made
    BY <1>4 DEF Following
  <2>3. ~NoLog.made
    BY DEF NoLog
  <2>4. QED
    BY <2>1, <2>2, <2>3
<1>7. QED
  BY <1>2, <1>3, <1>4, <1>5, <1>6

\* The header and the entry written, or part of them.
LEMMA LogWriteKeeps ==
    ASSUME SinkCore, LogWrite
    PROVE  SinkCore'
<1>1. TypeOK /\ Counts /\ db \in Taken /\ Len(db) \in Nat
  BY CoreTypes
<1>2. /\ proc = "up" /\ disk.by = "sync" /\ ~tail.direct /\ tail.open /\ main' = main
      /\ old' = old /\ logDisk' = logDisk /\ proc' = proc /\ db' = db /\ pending' = pending
      /\ appended' = appended /\ waiting' = waiting /\ stopped' = stopped /\ writes' = writes
  BY DEF LogWrite, ThroughLog
<1>3. PICK o \in -1 .. Len(db) : /\ Kept(db, o, main, log, logDisk, Len(durable))
                                 /\ OldKept(o) /\ Holding(o) /\ Following(o) /\ o \in Int
                                 /\ old = {}
  BY <1>2, SyncStarts
<1>4. /\ FileKept(db, o, main) /\ LogKept(db, o, main, log, logDisk)
      /\ Reach(db, o, main, log, logDisk, Len(durable))
  BY <1>3 DEF Kept
<1>5. \A e \in {TailEntry, TornEntry} :
          /\ EntryKept(o, e, WithEntry(e))
          /\ e.gen = tail.slog.gen => EntryWhole(e, WithEntry(e))
  BY <1>1, <1>2, <1>3, <1>4, EntryWritten
<1>6. ASSUME NEW e, NEW l, EntryKept(o, e, l)
      PROVE  Kept(db, o, main, l, logDisk, Len(durable))
  BY <1>4, <1>6 DEF EntryKept, Kept, Reach
<1>7. OldKept(o)'
  BY <1>2, <1>3 DEF OldKept
<1>8. LogAppend(log, tail.slog, tail.since) = WithEntry(TailEntry)
  BY DEF LogAppend, WithEntry, TailEntry
<1>9. TailEntry \in Entry /\ TailEntry.gen = tail.slog.gen
      /\ TailEntry.at = tail.sinceAt /\ EndOf(TailEntry) = tail.end
  BY <1>1, <1>2, <1>3, <1>4, TailEntryIs
<1>10. CASE log' = WithEntry(TailEntry) /\ disk' = [disk EXCEPT !.by = "log"]
            /\ UNCHANGED <<tail, durable, budget>>
  <2>1. tail' = tail /\ durable' = durable /\ budget' = budget
    BY <1>10
  <2>2. EntryKept(o, TailEntry, log') /\ EntryWhole(TailEntry, log')
    BY <1>5, <1>9, <1>10
  <2>3. Kept(db', o, main', log', logDisk', Len(durable'))
    BY <1>2, <1>6, <2>1, <2>2
  <2>4. /\ disk'.by = "log" /\ disk'.written = disk.written /\ disk'.synced = disk.synced
        /\ disk'.failed = disk.failed /\ disk'.holds = disk.holds /\ disk'.upto = disk.upto
        /\ disk' \in [by : {"none", "sync", "log", "image", "forgot", "renamed"}, upto : Nat,
                      holds : Nat, written : Nat, synced : Nat, failed : BOOLEAN]
    BY <1>1, <1>10 DEF TypeOK
  <2>5. TypeOK'
    BY <1>1, <1>2, <2>1, <2>4 DEF TypeOK
  <2>6. Counts'
    BY <1>1, <1>2, <2>1, <2>4 DEF Counts
  <2>7. /\ LogKept(db, o, main, log', logDisk)
        /\ \A p : Safe(db, o, main, log, logDisk, p) => Safe(db, o, main, log', logDisk, p)
    BY <2>2 DEF EntryKept
  <2>8. Holding(o)'
    <3>1. disk.synced > 0 =>
              Reach(db, o, main, log', logDisk, Len(db) - appended + disk.synced)
      BY <1>3, <2>7 DEF Holding, Reach
    <3>2. /\ \A i \in 1 .. Len(main.cache) : Good(db, o, i, main.cache[i])
          /\ \A j \in 1 .. Len(pending) : Good(db, o, Len(main.cache) + j, pending[j])
          /\ o + Len(main.cache) + Len(pending) = Len(db)
          /\ disk.written + Len(pending) = appended
      BY <1>3 DEF Holding
    <3>3. \A h \in Heads(log', logDisk), E \in Entries(log', logDisk) : h.ino = main.ino =>
              \A k \in 1 .. Len(E) : Held(E, h, k) => EndOf(E[k]) <= Len(main.cache)
      BY <2>2 DEF EntryWhole
    <3>4. disk'.synced = disk.synced /\ disk'.written = disk.written
      BY <2>4
    <3>5. QED
      BY SMTT(60), <1>2, <3>1, <3>2, <3>3, <3>4 DEF Holding
  <2>9. Following(o)'
    <3>1. /\ log'.made /\ Keeps /\ ~tail.unmade /\ tail.slog.gen > 0
          /\ tail.end = Len(main.cache) /\ tail.sinceAt <= tail.end
          /\ tail.since = SubSeq(main.cache, tail.sinceAt + 1, tail.end)
          /\ tail.slog.at = tail.sinceAt
      BY <1>2, <1>3, <1>10 DEF Following, WithEntry
    <3>2. /\ \A h \in Heads(log', logDisk) : h.gen <= tail.slog.gen
          /\ \A E \in Entries(log', logDisk) :
                E # <<>> => E[1].gen <= tail.slog.gen \/ E[1].at < tail.end
      <4>1. \A E \in Entries(log, logDisk) :
                E # <<>> => E[1].gen <= tail.slog.gen \/ E[1].at < tail.end
        BY <1>2, <1>3 DEF Following
      <4>2. QED
        BY <2>2, <4>1 DEF EntryWhole, Entries
    <3>3. \A p \in 1 .. tail.sinceAt : Safe(db, o, main, log', logDisk, p)
      BY <1>2, <1>3, <2>7 DEF Following
    <3>4. /\ Len(log'.entries) = tail.slog.count + 1
          /\ \E h \in log'.head : /\ h.ino = main.ino /\ h.gen = tail.slog.gen
                                  /\ Held(log'.entries, h, tail.slog.count + 1)
          /\ EndOf(log'.entries[tail.slog.count + 1]) = tail.end
          /\ log'.entries[tail.slog.count + 1].at = tail.sinceAt
      BY <1>9, <2>2 DEF EntryWhole
    <3>5. Logged(tail.slog.count + 1, tail.end)'
      BY <1>2, <2>1, <3>4 DEF Logged
    <3>6. QED
      BY <1>2, <2>1, <2>4, <3>1, <3>2, <3>3, <3>4, <3>5 DEF Following
  <2>10. Opening(o)' /\ Going(o)'
    BY <1>2, <2>4, <2>8, <2>9 DEF Opening, Going
  <2>11. QED
    BY <1>2, <1>7, <2>3, <2>5, <2>6, <2>10 DEF SinkCore
<1>11. CASE /\ log' \in {log, [WithEntry(TailEntry) EXCEPT !.entries = TornLast(@)]}
            /\ SyncFailed
  <2>1. /\ disk' = [disk EXCEPT !.by = "none", !.upto = 0, !.holds = 0, !.failed = TRUE]
        /\ tail' = tail /\ durable' = durable /\ Spend("fail")
    BY <1>11 DEF SyncFailed
  <2>2. budget' \in BudgetType
    BY <1>1, <2>1, SpendType
  <2>3. Kept(db', o, main', log', logDisk', Len(durable'))
    <3>1. CASE log' = log
      BY <1>2, <1>3, <2>1, <3>1
    <3>2. CASE log' = [WithEntry(TailEntry) EXCEPT !.entries = TornLast(@)]
      <4> DEFINE c == IF tail.slog.begun # {} THEN 0 ELSE tail.slog.count
                 q == SubSeq(log.entries, 1, c)
      <4>1. log.entries \in Seq(Entry)
        BY <1>4 DEF LogKept, LogPair, LogFile
      <4>2. c \in 0 .. Len(log.entries)
        <5>1. Len(log.entries) \in Nat
          BY <4>1, LenProperties
        <5>2. \A a \in Nat : 0 \in 0 .. a /\ a \in 0 .. a
          BY SMTT(60)
        <5>3. tail.slog.begun # {} \/ tail.slog.count = Len(log.entries)
          BY <1>2, <1>3 DEF Following, Begun, Logged
        <5>4. QED
          BY <5>1, <5>2, <5>3
      <4>3. q \in Seq(Entry)
        <5>1. \A s \in Seq(Entry) : \A k \in 0 .. Len(s) : SubSeq(s, 1, k) \in Seq(Entry)
          BY SMTT(60)
        <5> HIDE DEF c
        <5>2. QED
          BY <4>1, <4>2, <5>1
      <4>4. TornLast(Append(q, TailEntry)) = Append(q, TornEntry)
        BY <1>9, <4>3, TornAppend
      <4>5. /\ WithEntry(TailEntry) = [made |-> TRUE,
                  head |-> IF tail.slog.begun # {} THEN tail.slog.begun ELSE log.head,
                  entries |-> Append(q, TailEntry)]
            /\ WithEntry(TornEntry) = [made |-> TRUE,
                  head |-> IF tail.slog.begun # {} THEN tail.slog.begun ELSE log.head,
                  entries |-> Append(q, TornEntry)]
        BY DEF WithEntry
      <4> HIDE DEF q
      <4>6. log' = WithEntry(TornEntry)
        <5> DEFINE w == WithEntry(TailEntry)
                   v == WithEntry(TornEntry)
                   h == IF tail.slog.begun # {} THEN tail.slog.begun ELSE log.head
                   a == Append(q, TailEntry)
                   b == Append(q, TornEntry)
        <5>1. /\ w = [made |-> TRUE, head |-> h, entries |-> a]
              /\ v = [made |-> TRUE, head |-> h, entries |-> b]
              /\ TornLast(a) = b /\ log' = [w EXCEPT !.entries = TornLast(@)]
          BY <3>2, <4>4, <4>5
        <5>2. \A M, H, A, B : [[made |-> M, head |-> H, entries |-> A] EXCEPT !.entries = B]
                              = [made |-> M, head |-> H, entries |-> B]
          BY SMTT(60)
        <5> HIDE DEF w, v, h, a, b
        <5>3. w.entries = a
          BY <5>1
        <5>4. log' = [w EXCEPT !.entries = b]
          BY <5>1, <5>3
        <5>5. log' = [[made |-> TRUE, head |-> h, entries |-> a] EXCEPT !.entries = b]
          BY <5>1, <5>4
        <5>6. log' = v
          BY <5>1, <5>2, <5>5
        <5>7. QED
          BY <5>6 DEF v
      <4>7. EntryKept(o, TornEntry, log')
        BY <1>5, <4>6
      <4>8. QED
        BY <1>2, <1>6, <2>1, <4>7
    <3>3. QED
      BY <1>11, <3>1, <3>2
  <2>4. pending' \in {pending, <<>>} /\ waiting' \subseteq waiting
    BY <1>2
  <2>5. QED
    BY <1>1, <1>2, <1>7, <2>1, <2>2, <2>3, <2>4, FailedCore
<1>12. QED
  BY <1>8, <1>10, <1>11 DEF LogWrite

\* The type of a tail.
TailType ==
    [open : BOOLEAN, unmade : BOOLEAN, end : Nat, since : Seq(Seq(Int)),
     sinceAt : Nat, direct : BOOLEAN,
     slog : [gen : Nat, pos : Nat, at : Nat, count : Nat,
             begun : SUBSET [gen : Nat, base : Nat, ino : Nat, print : Seq(Seq(Int))]]]

\* A sync that has done: everything written is safe, and what it reports.
LEMMA SyncDoneKeeps ==
    ASSUME SinkCore, proc = "up", disk.by \in {"sync", "log"}, SyncDone, proc' = proc, db' = db,
           pending' = pending, appended' = appended, waiting' = waiting, stopped' = stopped,
           writes' = writes, budget' \in BudgetType, NEW o \in -1 .. Len(db), o \in Int, Holding(o),
           main'.cache = main.cache, main'.ino = main.ino, FileKept(db, o, main'),
           LogKept(db, o, main', log', logDisk'),
           \A p \in 1 .. Len(main.cache) : Safe(db, o, main', log', logDisk', p),
           Reach(db, o, main', log', logDisk', Len(durable)),
           \A h \in Heads(log', logDisk'), E \in Entries(log', logDisk') : h.ino = main.ino =>
              \A k \in 1 .. Len(E) : Held(E, h, k) => EndOf(E[k]) <= Len(main.cache),
           old' = {}, tail' \in TailType, Following(o)'
    PROVE  SinkCore' /\ db' = db /\ Len(durable') \in Len(durable) .. Len(db)
<1>1. /\ TypeOK /\ Counts /\ db \in Taken /\ Len(db) \in Nat /\ Len(durable) \in Nat
      /\ Len(durable) <= Len(db) /\ durable = SubSeq(db, 1, Len(durable))
      /\ db \in Seq(1 .. MaxWrites) /\ durable \in Seq(1 .. MaxWrites)
  BY CoreTypes
<1>2. /\ disk.upto \in Nat /\ disk.holds \in Nat /\ disk.written \in Nat /\ disk.synced \in Nat
      /\ disk.failed \in BOOLEAN /\ appended \in Nat /\ Len(pending) \in Nat
      /\ disk.written <= appended
  BY <1>1, UpTypes
<1>3. Len(main.cache) \in Nat
  BY FileTypes, <1>1
<1> DEFINE n == (Len(db) - appended) + disk.written
           m == Len(main.cache)
<1>4. n = o + m /\ n \in Int /\ n <= Len(db)
  <2>1. (o + m) + Len(pending) = Len(db) /\ disk.written + Len(pending) = appended
    BY DEF Holding
  <2>2. /\ m \in Nat /\ Len(db) \in Nat /\ appended \in Nat /\ disk.written \in Nat
        /\ Len(pending) \in Nat /\ o \in Int
    BY <1>1, <1>2, <1>3
  <2> HIDE DEF m
  <2>3. QED
    BY SMTT(60), <2>1, <2>2
<1>5. disk.holds <= n
  <2>1. disk.holds = (Len(db) - appended) + disk.upto /\ disk.upto <= disk.written
    BY <1>1 DEF Counts
  <2>2. QED
    BY SMTT(60), <1>1, <1>2, <2>1
<1>6. Reach(db, o, main', log', logDisk', n)
  <2>1. n - o = m
    BY SMTT(60), <1>3, <1>4
  <2>2. QED
    BY <2>1 DEF Reach
<1> HIDE DEF n
<1>7. /\ Reported(disk)
      /\ disk' = [disk EXCEPT !.by = "none", !.upto = 0, !.holds = 0, !.synced = disk.written]
  BY DEF SyncDone
<1>8. /\ Reach(db, o, main', log', logDisk', Len(durable'))
      /\ durable' \in Seq(1 .. MaxWrites) /\ Len(durable') <= Len(db')
      /\ durable' = SubSeq(db', 1, Len(durable'))
      /\ Len(durable') \in Len(durable) .. Len(db)
  BY <1>1, <1>2, <1>4, <1>5, <1>6, <1>7, ReportedKept
<1>9. Kept(db', o, main', log', logDisk', Len(durable'))
  BY <1>8 DEF Kept
<1>10. /\ disk'.by = "none" /\ disk'.upto = 0 /\ disk'.holds = 0 /\ disk'.synced = disk.written
       /\ disk'.written = disk.written /\ disk'.failed = disk.failed
       /\ disk' \in [by : {"none", "sync", "log", "image", "forgot", "renamed"}, upto : Nat,
                     holds : Nat, written : Nat, synced : Nat, failed : BOOLEAN]
  <2>1. 0 \in Nat
    BY SMTT(60)
  <2>2. QED
    BY <1>1, <1>2, <1>7, <2>1 DEF TypeOK
<1>11. disk'.synced <= disk'.written /\ disk'.written <= appended'
  BY SMTT(60), <1>2, <1>10
<1>12. TypeOK'
  <2>1. /\ proc' \in {"down", "applied", "synced", "wiped", "load", "up", "refused"}
        /\ writes' \in 0 .. MaxWrites /\ pending' \in Seq(Seq(Int)) /\ appended' \in Nat
        /\ stopped' \in BOOLEAN
        /\ \A w \in waiting' : /\ w \in [upto : Nat, holds : Nat]
                               /\ w.upto <= appended' /\ w.holds <= Len(db')
    BY <1>1 DEF TypeOK
  <2>2. QED
    BY <1>1, <1>8, <1>10, <1>11, <2>1 DEF TypeOK, TailType, BudgetType
<1>13. Counts'
  <2>1. \A w \in waiting' : w.holds = Len(db') - appended' + w.upto
    BY <1>1 DEF Counts
  <2>2. QED
    BY <1>8, <1>10, <2>1 DEF Counts
<1>14. Holding(o)'
  <2>1. /\ \A i \in 1 .. Len(main.cache) : Good(db, o, i, main.cache[i])
        /\ \A j \in 1 .. Len(pending) : Good(db, o, Len(main.cache) + j, pending[j])
        /\ o + Len(main.cache) + Len(pending) = Len(db)
        /\ disk.written + Len(pending) = appended
    BY DEF Holding
  <2>2. Reach(db, o, main', log', logDisk', Len(db) - appended + disk'.synced)
    BY <1>6, <1>10 DEF n
  <2>3. /\ db' = db /\ pending' = pending /\ appended' = appended
        /\ main'.cache = main.cache /\ main'.ino = main.ino /\ disk'.written = disk.written
    BY <1>10
  <2>4. \A h \in Heads(log', logDisk'), E \in Entries(log', logDisk') : h.ino = main.ino =>
              \A k \in 1 .. Len(E) : Held(E, h, k) => EndOf(E[k]) <= Len(main.cache)
    OBVIOUS
  <2>5. QED
    BY SMTT(60), <2>1, <2>2, <2>3, <2>4 DEF Holding
<1>15. OldKept(o)' /\ Opening(o)' /\ Going(o)'
  BY <1>10, <1>14 DEF OldKept, Opening, Going
<1>16. QED
  BY <1>8, <1>9, <1>12, <1>13, <1>15 DEF SinkCore

\* The log's fsync: what was written since the last sync is in its last entry.
LEMMA LogSyncKeeps ==
    ASSUME SinkCore, LogSync
    PROVE  SinkCore' /\ db' = db /\ Len(durable') \in Len(durable) .. Len(db)
<1>1. /\ TypeOK /\ Counts /\ db \in Taken /\ Len(db) \in Nat /\ Len(durable) \in Nat
      /\ Len(durable) <= Len(db)
  BY CoreTypes
<1>2. /\ proc = "up" /\ disk.by = "log" /\ main' = main /\ old' = old /\ log' = log
      /\ proc' = proc /\ db' = db /\ pending' = pending /\ appended' = appended
      /\ waiting' = waiting /\ stopped' = stopped /\ writes' = writes
  BY DEF LogSync
<1>3. PICK o \in -1 .. Len(db) : /\ Kept(db, o, main, log, logDisk, Len(durable))
                                 /\ OldKept(o) /\ Holding(o) /\ Following(o) /\ o \in Int
                                 /\ (tail.open => old = {})
  BY <1>2, SyncStarts
<1>4. /\ FileKept(db, o, main) /\ LogKept(db, o, main, log, logDisk)
      /\ Reach(db, o, main, log, logDisk, Len(durable))
  BY <1>3 DEF Kept
<1>5. ~tail.direct /\ tail.open
  BY <1>1, <1>2, <1>3, UpTypes DEF Following
<1>6. old = {}
  BY <1>3, <1>5
<1>7. CASE /\ logDisk' = log
           /\ tail' = [tail EXCEPT !.since = <<>>, !.sinceAt = tail.end,
                         !.slog = [tail.slog EXCEPT !.begun = {}, !.count = @ + 1,
                                                    !.pos = @ + 1 + Len(tail.since),
                                                    !.at = @ + Len(tail.since)]]
           /\ SyncDone /\ UNCHANGED budget
  <2>1. logDisk' = log /\ budget' = budget /\ SyncDone
    BY <1>7
  <2>2. /\ LogKept(db, o, main, log, log)
        /\ \A p : Safe(db, o, main, log, logDisk, p) => Safe(db, o, main, log, log, p)
    BY <1>4, LogSyncKept
  <2>3. /\ Logged(tail.slog.count + 1, tail.end)
        /\ log.entries[tail.slog.count + 1].at = tail.sinceAt
        /\ \A p \in 1 .. tail.sinceAt : Safe(db, o, main, log, logDisk, p)
        /\ tail.slog.at = tail.sinceAt /\ tail.end = Len(main.cache)
        /\ log.made /\ Keeps /\ ~tail.unmade /\ tail.slog.gen > 0
        /\ tail.sinceAt <= tail.end
    BY <1>2, <1>3, <1>5 DEF Following
  <2>4. /\ tail.sinceAt \in Nat /\ tail.end \in Nat /\ Len(tail.since) \in Nat
        /\ tail.slog.pos \in Nat /\ tail.slog.at \in Nat /\ tail.slog.count \in Nat
        /\ tail.slog.gen \in Nat /\ tail.open \in BOOLEAN /\ tail.unmade \in BOOLEAN
        /\ tail.direct \in BOOLEAN
    BY <1>1, UpTypes
  <2>5. \A p \in 1 .. Len(main.cache) : Safe(db, o, main, log, log, p)
    <3> SUFFICES ASSUME NEW p \in 1 .. tail.end
                 PROVE  Safe(db, o, main, log, log, p)
      BY <2>3
    <3>1. CASE p \in 1 .. tail.sinceAt
      BY <2>2, <2>3, <3>1
    <3>2. CASE p \notin 1 .. tail.sinceAt
      <4>1. p \in tail.sinceAt + 1 .. tail.end
        BY SMTT(60), <2>4, <3>2
      <4>2. PICK h \in log.head : /\ h.ino = main.ino
                                  /\ Held(log.entries, h, tail.slog.count + 1)
        BY <2>3 DEF Logged
      <4>3. tail.slog.count + 1 \in 1 .. Len(log.entries)
        BY <4>2 DEF Held
      <4>4. /\ EndOf(log.entries[tail.slog.count + 1]) = tail.end
            /\ log.entries[tail.slog.count + 1].at = tail.sinceAt
        BY <2>3 DEF Logged
      <4>5. h \in log.head \cap log.head
        BY <4>2
      <4>6. QED
        BY <4>1, <4>2, <4>3, <4>4, <4>5 DEF Safe
    <3>3. QED
      BY <3>1, <3>2
  <2>6. Reach(db, o, main, log, log, Len(durable))
    BY <1>4, <2>2 DEF Reach
  <2>7. /\ tail'.open = tail.open /\ tail'.unmade = tail.unmade /\ tail'.direct = tail.direct
        /\ tail'.end = tail.end /\ tail'.since = <<>> /\ tail'.sinceAt = tail.end
        /\ tail'.slog.gen = tail.slog.gen /\ tail'.slog.begun = {}
        /\ tail'.slog.count = tail.slog.count + 1
        /\ tail'.slog.at = tail.slog.at + Len(tail.since)
        /\ tail' \in TailType
    <3> DEFINE S == [tail.slog EXCEPT !.begun = {}, !.count = @ + 1,
                                      !.pos = @ + 1 + Len(tail.since),
                                      !.at = @ + Len(tail.since)]
    <3>1. /\ tail.slog.count + 1 \in Nat /\ tail.slog.at + Len(tail.since) \in Nat
          /\ tail.slog.pos + 1 + Len(tail.since) \in Nat
      BY SMTT(60), <2>4
    <3>2. <<>> \in Seq(Seq(Int))
      BY EmptySeq
    <3>3. /\ {} \in SUBSET [gen : Nat, base : Nat, ino : Nat, print : Seq(Seq(Int))]
      OBVIOUS
    <3>4. tail \in TailType
      BY <1>1 DEF TypeOK, TailType
    <3>5. tail.slog \in [gen : Nat, pos : Nat, at : Nat, count : Nat,
               begun : SUBSET [gen : Nat, base : Nat, ino : Nat, print : Seq(Seq(Int))]]
      BY <3>4 DEF TailType
    <3>6. /\ S \in [gen : Nat, pos : Nat, at : Nat, count : Nat,
               begun : SUBSET [gen : Nat, base : Nat, ino : Nat, print : Seq(Seq(Int))]]
          /\ S.gen = tail.slog.gen /\ S.begun = {} /\ S.count = tail.slog.count + 1
          /\ S.at = tail.slog.at + Len(tail.since)
      BY <3>1, <3>3, <3>5
    <3>7. tail' = [tail EXCEPT !.since = <<>>, !.sinceAt = tail.end, !.slog = S]
      BY SMTT(60), <1>7
    <3> HIDE DEF S
    <3>8. QED
      BY <2>4, <3>2, <3>4, <3>6, <3>7 DEF TailType
  <2>8. tail' \in TailType
    BY <2>7
  <2>9. Following(o)'
    <3>1. tail'.slog.at = tail.end
      <4>1. EndOf(TailEntry) = tail.end
        BY <1>1, <1>3, <1>4, <1>5, TailEntryIs
      <4>2. EndOf(TailEntry) = tail.slog.at + Len(tail.since)
        BY DEF EndOf, TailEntry
      <4>3. QED
        BY <2>7, <4>1, <4>2
    <3>2. <<>> = SubSeq(main.cache, tail.end + 1, tail.end)
      <4>1. main.cache \in Seq(Cell)
        BY <1>1, <1>4, FileTypes
      <4>2. \A s \in Seq(Cell) : SubSeq(s, Len(s) + 1, Len(s)) = <<>>
        BY SMTT(60)
      <4>3. QED
        BY <2>3, <4>1, <4>2
    <3>3. tail.end <= tail.end
      BY SMTT(60), <2>4
    <3>4. Logged(tail.slog.count, tail.sinceAt)'
      BY <1>2, <2>3, <2>7 DEF Logged
    <3>5. /\ \A h \in Heads(log, log) : h.gen <= tail.slog.gen
          /\ \A E \in Entries(log, log) :
                E # <<>> => E[1].gen <= tail.slog.gen \/ E[1].at < tail.end
      BY <1>3, <1>5 DEF Following, Heads, Entries
    <3>6. disk'.by = "none"
      BY <1>1, <2>1 DEF SyncDone, TypeOK
    <3>7. \A p \in 1 .. tail.end : Safe(db, o, main, log, log, p)
      BY <2>3, <2>5
    <3>8. QED
      BY <1>2, <1>5, <2>1, <2>3, <2>7, <3>1, <3>2, <3>3, <3>4, <3>5, <3>6, <3>7 DEF Following
  <2>10. \A h \in Heads(log, log), E \in Entries(log, log) : h.ino = main.ino =>
             \A k \in 1 .. Len(E) : Held(E, h, k) => EndOf(E[k]) <= Len(main.cache)
    BY <1>3 DEF Holding, Heads, Entries
  <2>11. budget' \in BudgetType
    BY <1>1, <2>1 DEF TypeOK, BudgetType
  <2>12. QED
    BY <1>2, <1>3, <1>4, <1>6, <2>1, <2>2, <2>5, <2>6, <2>8, <2>9, <2>10, <2>11, SyncDoneKeeps
<1>8. CASE SyncFailed /\ UNCHANGED logDisk
  <2>1. /\ disk' = [disk EXCEPT !.by = "none", !.upto = 0, !.holds = 0, !.failed = TRUE]
        /\ tail' = tail /\ durable' = durable /\ Spend("fail") /\ logDisk' = logDisk
    BY <1>8 DEF SyncFailed
  <2>2. budget' \in BudgetType
    BY <1>1, <2>1, SpendType
  <2>3. /\ Kept(db', o, main', log', logDisk', Len(durable')) /\ OldKept(o)'
        /\ pending' \in {pending, <<>>} /\ waiting' \subseteq waiting
    BY <1>2, <1>3, <1>6, <2>1 DEF OldKept
  <2>4. SinkCore'
    BY <1>1, <1>2, <2>1, <2>2, <2>3, FailedCore
  <2>5. Len(durable) \in Len(durable) .. Len(db)
    BY SMTT(60), <1>1
  <2>6. QED
    BY <1>2, <2>1, <2>4, <2>5
<1>9. QED
  BY <1>7, <1>8 DEF LogSync

==============================================================================
