---------------------------- MODULE FileSinkOpens ----------------------------
(***************************************************************************)
(* The end of a process, an open, and what a process that is up appends,   *)
(* flushes and finds failed keep FileSink's invariant. What the operations *)
(* on a file and its log keep is proved in FileSinkFacts; here is what the *)
(* process adds: its buffer, its counts and its tail.                      *)
(***************************************************************************)
EXTENDS FileSinkInv, FileSinkFacts

\* Zenon is given a minute a leaf; the leaves that count name the SMT solver.
USE ZenonT(60)

------------------------------------------------------------------------------
(* Types.                                                                  *)

BudgetType == [writes : 0 .. MaxWrites, crash : Nat, fail : Nat, swap : Nat, waiting : Nat]

\* The writes a database holds.
LEMMA WritesTaken ==
    ASSUME NEW s \in Seq(1 .. MaxWrites)
    PROVE  s \in Taken /\ Len(s) \in Nat
<1>1. MaxWrites \in Nat
  BY SinkAssumption
<1>2. 1 .. MaxWrites \subseteq Nat \ {0}
  BY SMTT(60), <1>1
<1>3. QED
  BY <1>2, SeqMonotonic, LenProperties DEF Taken

\* A bound spent stays a bound.
LEMMA SpendType ==
    ASSUME TypeOK, NEW w \in {"crash", "fail", "swap"}, Spend(w)
    PROVE  budget' \in BudgetType /\ budget'.writes = budget.writes
<1>1. /\ budget \in BudgetType /\ budget' = [budget EXCEPT ![w] = budget[w] - 1]
      /\ budget[w] > 0
  BY DEF TypeOK, Spend, BudgetType
<1>2. budget[w] \in Nat
  BY <1>1 DEF BudgetType
<1>3. budget[w] - 1 \in Nat
  BY SMTT(60), <1>1, <1>2
<1>4. QED
  BY <1>1, <1>3 DEF BudgetType

\* What a process held is gone: what is left is the file, its log and the writes
\* reported durable.
LEMMA EndedCore ==
    ASSUME TypeOK, Ended, db' \in Seq(1 .. MaxWrites), durable' \in Seq(1 .. MaxWrites),
           writes' \in 0 .. MaxWrites,
           budget' \in BudgetType, Len(durable') <= Len(db'),
           durable' = SubSeq(db', 1, Len(durable')), NEW o \in -1 .. Len(db'),
           Kept(db', o, main', log', logDisk', Len(durable')), OldKept(o)'
    PROVE  SinkCore'
<1>1. /\ proc' = "down" /\ pending' = <<>> /\ appended' = 0 /\ disk' = FreeDisk
      /\ tail' = NewTail(0) /\ waiting' = {} /\ stopped' = FALSE
  BY DEF Ended
<1>2. <<>> \in Seq(Seq(Int)) /\ 0 \in Nat /\ 0 <= 0
  BY SMTT(60)
<1>3. TypeOK'
  <2>1. /\ FreeDisk \in [by : {"none", "sync", "log", "image", "forgot", "renamed"}, upto : Nat,
                         holds : Nat, written : Nat, synced : Nat, failed : BOOLEAN]
        /\ FreeDisk.synced = 0 /\ FreeDisk.written = 0
    BY <1>2 DEF FreeDisk
  <2>2. NoSyncLog \in [gen : Nat, pos : Nat, at : Nat, count : Nat,
                       begun : SUBSET [gen : Nat, base : Nat, ino : Nat,
                                       print : Seq(Seq(Int))]]
    BY <1>2 DEF NoSyncLog
  <2>3. NewTail(0) \in [open : BOOLEAN, unmade : BOOLEAN, end : Nat, since : Seq(Seq(Int)),
                        sinceAt : Nat, direct : BOOLEAN,
                        slog : [gen : Nat, pos : Nat, at : Nat, count : Nat,
                                begun : SUBSET [gen : Nat, base : Nat, ino : Nat,
                                                print : Seq(Seq(Int))]]]
    BY <1>2, <2>2 DEF NewTail
  <2>4. QED
    BY <1>1, <1>2, <2>1, <2>3 DEF TypeOK, BudgetType
<1>4. Counts'
  BY <1>1 DEF Counts, FreeDisk
<1>5. Opening(o)' /\ Going(o)'
  BY <1>1 DEF Opening, Going
<1>6. QED
  BY <1>3, <1>4, <1>5 DEF SinkCore

\* What the disk has until a rename is durable stays so while the image stays.
LEMMA OldStays ==
    ASSUME db' \in Taken, NEW o \in Int, OldKept(o), old' \subseteq old, log' = log,
           logDisk' = logDisk, durable' = durable,
           old # {} => Clean(db', o, main', 1) /\ main'.cache[1] = main.cache[1],
           old # {} /\ proc' = "up" /\ ~disk'.failed /\ disk'.by # "renamed" => disk'.synced = 0
    PROVE  OldKept(o)'
<1>1. SUFFICES ASSUME old # {}
               PROVE  \A q \in old : \E p \in -1 .. Len(db') :
                          Kept(main'.cache[1], p, q.file, NoLog, q.log, Len(durable))
  BY DEF OldKept
<1>2. SUFFICES ASSUME NEW q \in old, NEW p \in -1 .. Len(db),
                      Kept(main'.cache[1], p, q.file, NoLog, q.log, Len(durable))
               PROVE  p \in -1 .. Len(db')
  BY <1>1 DEF OldKept
<1> DEFINE c == main'.cache[1]
<1>3. Good(db', o, 1, c)
  BY <1>1 DEF Clean
<1>4. o + 1 \in 0 .. Len(db')
  BY <1>3 DEF Good
<1>5. Len(c) = o + 1
  <2>1. 1 \in Int
    BY SMTT(60)
  <2>2. QED
    BY <1>3, <2>1, GoodRecord
<1>6. p \in Int /\ p + 1 >= 0 /\ p <= Len(c)
  BY <1>2 DEF Kept, FileKept
<1> HIDE DEF c
<1>7. Len(db') \in Nat
  BY LenProperties DEF Taken
<1>8. QED
  BY SMTT(60), <1>4, <1>5, <1>6, <1>7

\* A step that only carries the file on: what it keeps, and what the disk has
\* until a rename is durable.
LEMMA CarriedKeeps ==
    ASSUME db \in Taken, NEW o \in Int, Kept(db, o, main, log, logDisk, Len(durable)),
           OldKept(o), old' \subseteq old, log' = log, logDisk' = logDisk,
           durable' = durable, db' = db, FileKept(db, o, main'), Carried(db, o, main, db, main'),
           old # {} /\ proc' = "up" /\ ~disk'.failed /\ disk'.by # "renamed" => disk'.synced = 0
    PROVE  Kept(db', o, main', log', logDisk', Len(durable')) /\ OldKept(o)'
<1>1. Kept(db', o, main', log', logDisk', Len(durable'))
  BY KeptCarried
<1>2. old # {} => Clean(db', o, main', 1) /\ main'.cache[1] = main.cache[1]
  BY DEF OldKept, Carried
<1>3. db' \in Taken
  OBVIOUS
<1>4. OldKept(o)'
  BY <1>2, <1>3, OldStays
<1>5. QED
  BY <1>1, <1>4

\* What the state says of the file, for the steps below.
LEMMA CoreTypes ==
    ASSUME SinkCore
    PROVE  /\ TypeOK /\ Counts /\ db \in Taken /\ Len(db) \in Nat /\ Len(durable) \in Nat
           /\ Len(durable) <= Len(db) /\ durable = SubSeq(db, 1, Len(durable))
           /\ db \in Seq(1 .. MaxWrites) /\ durable \in Seq(1 .. MaxWrites)
<1>1. TypeOK /\ Counts
  BY DEF SinkCore
<1>2. db \in Seq(1 .. MaxWrites) /\ db \in Taken /\ Len(db) \in Nat
  BY <1>1, WritesTaken DEF TypeOK
<1>3. Len(durable) <= Len(db) /\ durable = SubSeq(db, 1, Len(durable))
  BY <1>1 DEF Counts
<1>4. Len(durable) \in Nat /\ durable \in Seq(1 .. MaxWrites)
  BY <1>1, WritesTaken DEF TypeOK
<1>5. QED
  BY <1>1, <1>2, <1>3, <1>4

------------------------------------------------------------------------------
(* Ends.                                                                   *)

\* A process is killed: the file stays as written.
LEMMA KillKeeps ==
    ASSUME SinkCore, Kill
    PROVE  SinkCore'
<1>1. TypeOK /\ db \in Taken /\ Len(durable) <= Len(db) /\ durable = SubSeq(db, 1, Len(durable))
      /\ db \in Seq(1 .. MaxWrites) /\ Len(db) \in Nat /\ durable \in Seq(1 .. MaxWrites)
  BY CoreTypes
<1>2. PICK o \in -1 .. Len(db) : Kept(db, o, main, log, logDisk, Len(durable)) /\ OldKept(o)
  BY DEF SinkCore
<1>3. /\ Ended /\ main' = main /\ old' = old /\ log' = log /\ logDisk' = logDisk
      /\ db' = db /\ durable' = durable /\ writes' = writes /\ proc' = "down"
  BY DEF Kill, Ended, fileVars
<1>4. budget' \in BudgetType
  BY <1>1, SpendType DEF Kill
<1>5. o \in Int
  BY SMTT(60), <1>1
<1>6. OldKept(o)'
  <2>1. old # {} => Clean(db', o, main', 1) /\ main'.cache[1] = main.cache[1]
    BY <1>2, <1>3 DEF OldKept
  <2>2. QED
    BY <1>1, <1>2, <1>3, <1>5, <2>1, OldStays
<1>7. writes' \in 0 .. MaxWrites
  BY <1>1, <1>3 DEF TypeOK
<1>8. QED
  BY <1>1, <1>2, <1>3, <1>4, <1>6, <1>7, EndedCore

\* A failed write or fsync leaves a file as good as it was.
LEMMA FailedKept ==
    ASSUME ~DropsPages, NEW d \in Taken, NEW o, NEW f, FileKept(d, o, f),
           NEW f2 \in FailedSync(f)
    PROVE  FileKept(d, o, f2) /\ Carried(d, o, f, d, f2)
<1>1. f2 = f \/ f2 = SyncData(f)
  BY DEF FailedSync
<1>2. Carried(d, o, f, d, f)
  BY DEF Carried
<1>3. QED
  BY <1>1, <1>2, SyncKept

\* A write that stops partway through what is pending, in a record or between
\* two, leaves a file as good as it was (Disk::write_pending).
LEMMA WrittenPartlyKept ==
    ASSUME db \in Taken, NEW o, FileKept(db, o, main), pending \in Seq(Cell),
           \A j \in 1 .. Len(pending) : Good(db, o, Len(main.cache) + j, pending[j]),
           NEW f2 \in WrittenPartly
    PROVE  FileKept(db, o, f2) /\ Carried(db, o, main, db, f2)
<1>1. PICK k \in 0 .. Len(pending), torn \in {<<>>, <<Torn>>} :
          f2 = WriteAtEnd(main, SubSeq(pending, 1, k) \o torn)
  <2>1. PICK k \in 0 .. Len(pending) :
            f2 \in {WriteAtEnd(main, SubSeq(pending, 1, k) \o torn) :
                      torn \in IF k < Len(pending) THEN {<<>>, <<Torn>>} ELSE {<<>>}}
    BY DEF WrittenPartly
  <2>2. PICK torn \in IF k < Len(pending) THEN {<<>>, <<Torn>>} ELSE {<<>>} :
            f2 = WriteAtEnd(main, SubSeq(pending, 1, k) \o torn)
    BY <2>1
  <2>3. torn \in {<<>>, <<Torn>>}
    BY <2>2
  <2>4. QED
    BY <2>2, <2>3
<1>2. QED
  BY <1>1, PartlyKept

\* What is pending written: the file holds every write taken.
AllWritten(o, f) ==
    /\ FileKept(db, o, f) /\ Carried(db, o, main, db, f) /\ f.ino = main.ino
    /\ Len(f.cache) = Len(main.cache) + Len(pending)
    /\ \A i \in 1 .. Len(main.cache) : f.cache[i] = main.cache[i]
    /\ \A i \in 1 .. Len(f.cache) : Good(db, o, i, f.cache[i])
    /\ o + Len(f.cache) = Len(db)
    /\ \A h \in Heads(log, logDisk), E \in Entries(log, logDisk) :
          h.ino = f.ino => \A k \in 1 .. Len(E) : Held(E, h, k) => EndOf(E[k]) <= Len(f.cache)

\* What is pending, written out, completes the file (Disk::write_pending).
LEMMA PendingWritten ==
    ASSUME TypeOK, db \in Taken, NEW o \in Int, FileKept(db, o, main),
           LogKept(db, o, main, log, logDisk), Holding(o)
    PROVE  AllWritten(o, WriteAtEnd(main, pending))
<1> DEFINE f == WriteAtEnd(main, pending)
           n == Len(main.cache)
           m == Len(pending)
<1>1. pending \in Seq(Cell)
  BY DEF TypeOK, Cell
<1>2. n \in Nat /\ m \in Nat
  <2>1. n \in Nat
    BY FileTypes
  <2>2. m \in Nat
    BY <1>1, LenProperties
  <2>3. QED
    BY <2>1, <2>2
<1>3. /\ \A i \in 1 .. n : Good(db, o, i, main.cache[i])
      /\ \A j \in 1 .. m : Good(db, o, n + j, pending[j])
      /\ o + n + m = Len(db)
      /\ \A h \in Heads(log, logDisk), E \in Entries(log, logDisk) :
            h.ino = main.ino => \A k \in 1 .. Len(E) : Held(E, h, k) => EndOf(E[k]) <= n
  BY DEF Holding
<1>4. /\ FileKept(db, o, f) /\ Carried(db, o, main, db, f) /\ f.ino = main.ino
      /\ Len(f.cache) = n + m
      /\ \A i \in 1 .. n : f.cache[i] = main.cache[i]
      /\ \A j \in 1 .. m : f.cache[n + j] = pending[j]
  <2>1. WrittenTo(db, o, main, pending, f)
    BY <1>1, <1>3, WriteKept
  <2>2. QED
    BY <2>1 DEF WrittenTo
<1> HIDE DEF f, n, m
<1>5. \A i \in 1 .. n + m : i \in 1 .. n \/ (i - n \in 1 .. m /\ n + (i - n) = i)
  BY SMTT(60), <1>2
<1>6. \A i \in 1 .. Len(f.cache) : Good(db, o, i, f.cache[i])
  BY <1>3, <1>4, <1>5
<1>7. o + Len(f.cache) = Len(db)
  BY SMTT(60), <1>2, <1>3, <1>4
<1>8. \A E \in Entries(log, logDisk) : \A k \in 1 .. Len(E) :
          EndOf(E[k]) <= n => EndOf(E[k]) <= Len(f.cache)
  <2>1. \A E \in Entries(log, logDisk) : \A k \in 1 .. Len(E) : EndOf(E[k]) \in Nat
    BY LogTypes DEF LogKept
  <2>2. \A a \in Nat : a <= n => a <= n + m
    BY SMTT(60), <1>2
  <2>3. QED
    BY <1>4, <2>1, <2>2
<1>9. QED
  BY <1>3, <1>4, <1>6, <1>7, <1>8 DEF AllWritten, f, n, m

\* The file synced with every write taken in it, and the log removed.
LEMMA ForgottenKept ==
    ASSUME NEW d \in Taken, NEW o, NEW f, NEW l, NEW ld, NEW n, Kept(d, o, f, l, ld, n),
           \A i \in 1 .. Len(f.cache) : Good(d, o, i, f.cache[i]),
           \A h \in Heads(l, ld), E \in Entries(l, ld) : h.ino = f.ino =>
              \A k \in 1 .. Len(E) : Held(E, h, k) => EndOf(E[k]) <= Len(f.cache)
    PROVE  Kept(d, o, SyncData(f), NoLog, ld, n)
<1>1. FileKept(d, o, f) /\ LogKept(d, o, f, l, ld) /\ Reach(d, o, f, l, ld, n)
  BY DEF Kept
<1>2. /\ FileKept(d, o, SyncData(f)) /\ Carried(d, o, f, d, SyncData(f))
      /\ LogKept(d, o, SyncData(f), l, ld) /\ AllRetired(d, o, SyncData(f), l, ld)
  BY <1>1, AllSynced
<1>3. Reach(d, o, SyncData(f), l, ld, n)
  BY <1>1, <1>2, CarriedLog
<1>4. /\ NoLog \in LogFile /\ NoLog.head = {} /\ NoLog.entries = <<>> /\ NoLog.made = FALSE
  <2>1. <<>> \in Seq(Entry)
    BY SMTT(60)
  <2>2. QED
    BY <2>1 DEF NoLog, LogFile
<1>5. LogKept(d, o, SyncData(f), NoLog, ld) /\ Reach(d, o, SyncData(f), NoLog, ld, n)
  BY <1>2, <1>3, <1>4, ForgetKept
<1>6. QED
  BY <1>2, <1>5 DEF Kept

\* A close: what is pending written, the file synced, the log removed; or any of
\* it failed.
LEMMA CloseKeeps ==
    ASSUME ~DropsPages, SinkCore, Close
    PROVE  SinkCore'
<1>1. TypeOK /\ db \in Taken /\ Len(durable) <= Len(db) /\ durable = SubSeq(db, 1, Len(durable))
      /\ db \in Seq(1 .. MaxWrites) /\ Len(db) \in Nat /\ durable \in Seq(1 .. MaxWrites)
  BY CoreTypes
<1>2. PICK o \in -1 .. Len(db) : /\ Kept(db, o, main, log, logDisk, Len(durable)) /\ OldKept(o)
                                 /\ Going(o)
  BY DEF SinkCore
<1>3. /\ Ended /\ proc = "up" /\ disk.by = "none" /\ old' = old /\ logDisk' = logDisk
      /\ db' = db /\ durable' = durable /\ writes' = writes /\ proc' = "down"
  BY DEF Close, Ended
<1>4. o \in Int
  BY SMTT(60), <1>1
<1>5. writes' \in 0 .. MaxWrites /\ budget \in BudgetType
  BY <1>1, <1>3 DEF TypeOK, BudgetType
<1>6. FileKept(db, o, main) /\ LogKept(db, o, main, log, logDisk)
  BY <1>2 DEF Kept
<1>7. SUFFICES /\ budget' \in BudgetType
               /\ Kept(db', o, main', log', logDisk', Len(durable')) /\ OldKept(o)'
  BY <1>1, <1>2, <1>3, <1>5, EndedCore
<1> DEFINE f == WriteAtEnd(main, pending)
           logged == Keeps /\ (tail.open \/ log.made)
<1>8. CASE log' = log /\ budget' \in BudgetType /\ FileKept(db, o, main')
           /\ Carried(db, o, main, db, main')
  BY <1>1, <1>2, <1>3, <1>4, <1>8, CarriedKeeps
<1>9. CASE disk.failed /\ UNCHANGED <<main, log, budget>>
  <2>1. Carried(db, o, main, db, main')
    BY <1>9 DEF Carried
  <2>2. QED
    BY <1>5, <1>6, <1>8, <1>9, <2>1
<1>10. ASSUME ~disk.failed
       PROVE  /\ AllWritten(o, f)
              /\ pending \in Seq(Cell)
              /\ \A j \in 1 .. Len(pending) : Good(db, o, Len(main.cache) + j, pending[j])
  <2>1. Holding(o)
    BY <1>2, <1>3, <1>10 DEF Going
  <2>2. QED
    BY <1>1, <1>4, <1>6, <2>1, PendingWritten DEF Holding, TypeOK, Cell
<1>11. CASE ~disk.failed /\ logged /\ main' = SyncData(f) /\ log' = NoLog /\ UNCHANGED budget
  <2>1. AllWritten(o, f)
    BY <1>10, <1>11
  <2> HIDE DEF f
  <2>2. FileKept(db, o, f) /\ Carried(db, o, main, db, f)
    BY <2>1 DEF AllWritten
  <2>3. Kept(db, o, f, log, logDisk, Len(durable))
    BY <1>1, <1>2, <2>2, KeptCarried
  <2>4. Kept(db, o, SyncData(f), NoLog, logDisk, Len(durable))
    BY <1>1, <2>1, <2>3, ForgottenKept DEF AllWritten
  <2>5. FileKept(db, o, SyncData(f)) /\ Carried(db, o, f, db, SyncData(f))
    BY <1>1, <2>2, SyncKept
  <2>6. old # {} => log' = log
    BY <1>2, <1>11 DEF OldKept
  <2>7. CASE old = {}
    BY <1>3, <1>5, <1>11, <2>4, <2>7 DEF OldKept
  <2>8. CASE old # {}
    <3>1. Clean(db', o, main', 1) /\ main'.cache[1] = main.cache[1]
      BY <1>2, <1>3, <1>11, <2>2, <2>5, <2>8 DEF OldKept, Carried
    <3>2. OldKept(o)'
      BY <1>1, <1>2, <1>3, <1>4, <2>6, <2>8, <3>1, OldStays
    <3>3. QED
      BY <1>3, <1>5, <1>11, <2>4, <3>2
  <2>9. QED
    BY <2>7, <2>8
<1>12. CASE ~disk.failed /\ ~logged /\ main' = f /\ UNCHANGED <<log, budget>>
  BY <1>5, <1>8, <1>10, <1>12 DEF AllWritten
<1>13. CASE /\ ~disk.failed /\ Spend("fail")
            /\ main' \in WrittenPartly \cup (IF logged THEN FailedSync(f) ELSE {})
            /\ UNCHANGED log
  <2>1. budget' \in BudgetType
    BY <1>1, <1>13, SpendType
  <2>2. AllWritten(o, f) /\ FileKept(db, o, f) /\ Carried(db, o, main, db, f)
    BY <1>10, <1>13 DEF AllWritten
  <2> HIDE DEF f
  <2>3. CASE main' \in WrittenPartly
    <3>1. FileKept(db, o, main') /\ Carried(db, o, main, db, main')
      BY <1>1, <1>6, <1>10, <1>13, <2>3, WrittenPartlyKept
    <3>2. QED
      BY <1>8, <1>13, <2>1, <3>1
  <2>4. CASE main' \in FailedSync(f)
    <3>1. FileKept(db, o, main') /\ Carried(db, o, f, db, main')
      BY <1>1, <2>2, <2>4, FailedKept
    <3>2. Carried(db, o, main, db, main')
      BY <2>2, <3>1 DEF Carried
    <3>3. QED
      BY <1>8, <1>13, <2>1, <3>1, <3>2
  <2>5. QED
    BY <1>13, <2>3, <2>4
<1>14. QED
  BY <1>9, <1>11, <1>12, <1>13 DEF Close

\* The machine loses power, a rename not yet durable among what may be lost.
LEMMA PowerLossKeeps ==
    ASSUME SinkCore, PowerLoss
    PROVE  SinkCore'
<1>1. TypeOK /\ db \in Taken /\ Len(durable) <= Len(db) /\ durable = SubSeq(db, 1, Len(durable))
      /\ db \in Seq(1 .. MaxWrites) /\ Len(db) \in Nat /\ durable \in Seq(1 .. MaxWrites)
  BY CoreTypes
<1>2. PICK o \in -1 .. Len(db) : Kept(db, o, main, log, logDisk, Len(durable)) /\ OldKept(o)
  BY DEF SinkCore
<1>3. /\ Ended /\ old' = {} /\ logDisk' = log' /\ db' = db /\ durable' = durable
      /\ writes' = writes
  BY DEF PowerLoss
<1>4. o \in Int
  BY SMTT(60), <1>1
<1>5. budget' \in BudgetType /\ writes' \in 0 .. MaxWrites
  BY <1>1, <1>3, SpendType DEF PowerLoss, TypeOK
<1>6. ASSUME NEW p \in -1 .. Len(db), Kept(db, p, main', log', logDisk', Len(durable))
      PROVE  SinkCore'
  <2>1. OldKept(p)'
    BY <1>3 DEF OldKept
  <2>2. QED
    BY <1>1, <1>3, <1>5, <1>6, <2>1, EndedCore
<1>7. PICK q \in {[file |-> main, log |-> logDisk]} \cup old :
          main' \in AfterPowerLoss(q.file) /\ log' \in LogAfterPowerLoss(log, q.log)
  BY DEF PowerLoss
<1>8. CASE q = [file |-> main, log |-> logDisk]
  <2>1. main' \in AfterPowerLoss(main) /\ log' \in LogAfterPowerLoss(log, logDisk)
    BY <1>7, <1>8
  <2>2. Kept(db, o, main', log', log', Len(durable))
    BY <1>1, <1>2, <2>1, LossKeeps
  <2>3. QED
    BY <1>2, <1>3, <1>6, <2>2
<1>9. CASE q \in old
  <2> DEFINE c == main.cache[1]
  <2>1. PICK p \in -1 .. Len(db) : Kept(c, p, q.file, NoLog, q.log, Len(durable))
    BY <1>2, <1>9 DEF OldKept
  <2>2. log = NoLog /\ Good(db, o, 1, c)
    BY <1>2, <1>9 DEF OldKept, Clean
  <2>3. o + 1 \in 0 .. Len(db) /\ c = SubSeq(db, 1, o + 1)
    BY <2>2 DEF Good
  <2>4. c \in Taken
    BY <1>1, <1>4, <2>3, GoodCut
  <2>5. FileKept(SubSeq(db, 1, o + 1), p, q.file)
    BY <2>1, <2>3 DEF Kept
  <2>6. FileKept(db, p, q.file) /\ Carried(SubSeq(db, 1, o + 1), p, q.file, db, q.file)
    BY <1>1, <2>3, <2>5, Grown
  <2>7. Kept(db, p, q.file, NoLog, q.log, Len(durable))
    BY <1>1, <2>1, <2>3, <2>4, <2>6, KeptCarried
  <2>8. Kept(db, p, main', log', log', Len(durable))
    BY <1>1, <1>7, <2>2, <2>7, LossKeeps
  <2>9. QED
    BY <1>3, <1>6, <2>8
<1>10. QED
  BY <1>7, <1>8, <1>9

\* A copy of the file as it once was is put in its place.
LEMMA ReplacedKeeps ==
    ASSUME SinkCore, Replaced
    PROVE  /\ SinkCore'
           /\ \E n \in 0 .. Len(db) : db' = SubSeq(db, 1, n)
           /\ durable' = db'
<1>1. TypeOK /\ Counts /\ db \in Taken /\ db \in Seq(1 .. MaxWrites) /\ Len(db) \in Nat
  BY CoreTypes
<1>2. PICK o \in -1 .. Len(db) : Kept(db, o, main, log, logDisk, Len(durable))
  BY DEF SinkCore
<1>3. /\ old' = {} /\ log' = log /\ logDisk' = logDisk /\ writes' = writes /\ proc = "down"
      /\ EntriesFollow(log, logDisk) /\ proc' = "down"
      /\ waiting' = waiting /\ stopped' = stopped
      /\ pending' = pending /\ appended' = appended /\ disk' = disk /\ tail' = tail
  BY DEF Replaced, sinkVars
<1>4. o \in Int
  BY SMTT(60), <1>1
<1>5. budget' \in BudgetType /\ writes' \in 0 .. MaxWrites
  BY <1>1, <1>3, SpendType DEF Replaced, TypeOK
<1>6. FileKept(db, o, main) /\ LogKept(db, o, main, log, logDisk) /\ LogPair(log, logDisk)
  BY <1>2 DEF Kept, LogKept
<1>7. PICK n \in 0 .. Readable(main.cache) :
          /\ main' = OnDisk(main.ino + 1, SubSeq(main.cache, 1, n))
          /\ db' = Content(SubSeq(main.cache, 1, n)) /\ durable' = db'
  BY DEF Replaced
<1> DEFINE c == SubSeq(main.cache, 1, n)
<1>8. /\ c \in Seq(Cell) /\ Len(c) = n /\ (n = 0 => Content(c) = <<>>)
      /\ n > 0 => /\ o + n \in 0 .. Len(db) /\ Content(c) = SubSeq(db, 1, o + n)
                  /\ \A i \in 1 .. n : Good(SubSeq(db, 1, o + n), o, i, c[i])
  BY <1>1, <1>6, CopyKept
<1> HIDE DEF c
<1>9. main.ino \in Nat /\ main.ino + 1 \in Nat /\ n \in Nat /\ o + 1 >= 0
  <2>1. main.ino \in Nat /\ o + 1 >= 0
    BY <1>1, <1>6, FileTypes
  <2>2. Len(c) \in Nat
    BY <1>8, LenProperties
  <2>3. QED
    BY SMTT(60), <1>8, <2>1, <2>2
<1>10. PICK m \in Int : /\ db' = SubSeq(db, 1, m) /\ m \in 0 .. Len(db)
                        /\ \E o2 \in Int : /\ o2 + 1 >= 0 /\ o2 + n = m /\ (o2 # 0 => n > 0)
                                           /\ \A i \in 1 .. n : Good(db', o2, i, c[i])
  <2>1. CASE n = 0
    <3>1. db' = <<>>
      BY <1>7, <1>8, <2>1 DEF c
    <3>2. SubSeq(db, 1, 0) = <<>> /\ 0 \in 0 .. Len(db) /\ 0 \in Int /\ 0 + 1 >= 0 /\ 0 + 0 = 0
          /\ \A i \in 1 .. 0 : FALSE
      BY SMTT(60), <1>1
    <3>3. QED
      BY <2>1, <3>1, <3>2
  <2>2. CASE n > 0
    <3>1. o + n \in Int
      BY SMTT(60), <1>4, <1>9
    <3>2. db' = SubSeq(db, 1, o + n)
      BY <1>7, <1>8, <2>2 DEF c
    <3>3. QED
      BY <1>4, <1>8, <1>9, <2>2, <3>1, <3>2
  <2>3. QED
    BY SMTT(60), <1>9, <2>1, <2>2
<1>11. PICK o2 \in Int : /\ o2 + 1 >= 0 /\ o2 + n = m /\ (o2 # 0 => n > 0)
                         /\ \A i \in 1 .. n : Good(db', o2, i, c[i])
  BY <1>10
<1>12. db' \in Taken /\ Len(db') = m /\ db' \in Seq(1 .. MaxWrites)
  <2>1. 1 \in Nat \ {0} /\ (IF 1 <= m THEN m - 1 + 1 ELSE 0) = m
    BY SMTT(60), <1>1, <1>10
  <2>2. db' \in Seq(1 .. MaxWrites) /\ Len(db') = m
    <3>1. SubSeq(db, 1, m) \in Seq(1 .. MaxWrites)
      BY <1>1, <1>10, <2>1, PartOf
    <3>2. Len(SubSeq(db, 1, m)) = m
      BY <1>1, <1>10, GoodCut
    <3>3. QED
      BY <1>10, <3>1, <3>2
  <2>3. QED
    BY <2>2, WritesTaken
<1>13. m \in Nat /\ o2 <= m /\ o2 \in -1 .. m /\ m <= o2 + Len(c) /\ m <= m
  BY SMTT(60), <1>1, <1>8, <1>9, <1>10, <1>11
<1>14. /\ \A h \in Heads(log, logDisk) : h.ino < main.ino + 1
       /\ \A h \in Heads(log, logDisk), E \in Entries(log, logDisk) :
             E # <<>> => E[1].gen <= h.gen + 1
  <2>1. \A h \in Heads(log, logDisk) : h.ino <= main.ino /\ h.ino \in Nat
    BY <1>6, LogTypes DEF LogKept
  <2>2. \A a \in Nat : a <= main.ino => a < main.ino + 1
    BY SMTT(60), <1>9
  <2>3. ASSUME NEW h \in Heads(log, logDisk), NEW E \in Entries(log, logDisk), E # <<>>
        PROVE  E[1].gen <= h.gen + 1
    <3>1. E \in Seq(Entry)
      BY <1>6, LogTypes
    <3>2. 1 \in 1 .. Len(E)
      <4>1. \A s \in Seq(Entry) : s # <<>> => 1 \in 1 .. Len(s)
        BY SMTT(60)
      <4>2. QED
        BY <2>3, <3>1, <4>1
    <3>3. QED
      BY <1>3, <3>2 DEF EntriesFollow, Heads, Entries
  <2>4. QED
    BY <2>1, <2>2, <2>3
<1>15. /\ FileKept(db', o2, main') /\ LogKept(db', o2, main', log, logDisk)
       /\ Reach(db', o2, main', log, logDisk, m)
  <2>1. main' = OnDisk(main.ino + 1, c)
    BY <1>7 DEF c
  <2>2. \A i \in 1 .. Len(c) : Good(db', o2, i, c[i])
    BY <1>8, <1>11
  <2>3. o2 # 0 => Len(c) > 0
    BY <1>8, <1>11
  <2>4. /\ FileKept(db', o2, OnDisk(main.ino + 1, c))
        /\ LogKept(db', o2, OnDisk(main.ino + 1, c), log, logDisk)
        /\ \A k \in Nat : k <= o2 + Len(c) =>
              Reach(db', o2, OnDisk(main.ino + 1, c), log, logDisk, k)
    BY <1>6, <1>8, <1>9, <1>11, <1>12, <1>13, <1>14, <2>2, <2>3, NewFileKept
  <2>5. QED
    BY <1>13, <2>1, <2>4
<1>16. TypeOK'
  <2>1. waiting = {}
    BY <1>1, <1>3 DEF Counts
  <2>2. QED
    BY <1>1, <1>3, <1>5, <1>7, <1>12, <2>1 DEF TypeOK, BudgetType
<1>17. Counts'
  <2>1. durable' = SubSeq(db', 1, Len(durable'))
    <3>1. \A s \in Taken : s = SubSeq(s, 1, Len(s))
      BY SMTT(60) DEF Taken
    <3>2. QED
      BY <1>7, <1>12, <3>1
  <2>2. /\ pending' = <<>> /\ appended' = 0 /\ disk' = FreeDisk /\ waiting' = {}
    BY <1>1, <1>3 DEF Counts
  <2>3. Len(durable') <= Len(db')
    BY <1>7, <1>12, <1>13
  <2>4. QED
    BY <2>1, <2>2, <2>3 DEF Counts, FreeDisk
<1>18. OldKept(o2)' /\ Opening(o2)' /\ Going(o2)'
  BY <1>3 DEF OldKept, Opening, Going
<1>19. Kept(db', o2, main', log', logDisk', Len(durable'))
  BY <1>3, <1>7, <1>12, <1>15 DEF Kept
<1>20. o2 \in -1 .. Len(db')
  BY <1>12, <1>13
<1>21. SinkCore'
  BY <1>16, <1>17, <1>18, <1>19, <1>20 DEF SinkCore
<1>22. QED
  BY <1>7, <1>10, <1>21

------------------------------------------------------------------------------
(* Opens.                                                                  *)

\* A step of an open leaves the process's counts alone.
LEMMA OpenCore ==
    ASSUME TypeOK, Counts, proc # "up",
           proc' \in {"applied", "synced", "wiped", "load", "refused"},
           db' = db, UNCHANGED <<sinkVars, waiting, stopped, durable, writes, budget>>,
           NEW o \in -1 .. Len(db), Kept(db', o, main', log', logDisk', Len(durable')),
           OldKept(o)', Opening(o)'
    PROVE  SinkCore'
<1>1. /\ pending' = pending /\ appended' = appended /\ disk' = disk /\ tail' = tail
      /\ waiting' = waiting /\ stopped' = stopped /\ durable' = durable /\ writes' = writes
      /\ budget' = budget /\ proc' # "up"
  BY DEF sinkVars
<1>2. TypeOK'
  BY <1>1 DEF TypeOK
<1>3. Counts'
  BY <1>1 DEF Counts
<1>4. Going(o)'
  BY <1>1 DEF Going
<1>5. QED
  BY <1>2, <1>3, <1>4 DEF SinkCore

\* The log's entries are put back where the file lost them.
LEMMA RecoverKeeps ==
    ASSUME SinkCore, Recover
    PROVE  SinkCore'
<1>1. TypeOK /\ Counts /\ db \in Taken /\ Len(db) \in Nat
  BY CoreTypes
<1>2. PICK o \in -1 .. Len(db) : Kept(db, o, main, log, logDisk, Len(durable)) /\ OldKept(o)
  BY DEF SinkCore
<1>3. /\ proc = "down" /\ proc' = "applied" /\ db' = db /\ old' = old /\ log' = log
      /\ logDisk' = logDisk /\ durable' = durable
      /\ UNCHANGED <<sinkVars, waiting, stopped, durable, writes, budget>>
  BY DEF Recover
<1>4. PICK h \in log.head : Names(h, main) /\ main' = PutBack(main, log, h)
  BY DEF Recover
<1>5. FileKept(db, o, main) /\ LogKept(db, o, main, log, logDisk)
  BY <1>2 DEF Kept
<1>6. FileKept(db, o, main') /\ Carried(db, o, main, db, main') /\ InPlace(db, o, main', log, h)
  BY <1>1, <1>4, <1>5, PutBackKept
<1>7. o \in Int
  BY SMTT(60), <1>1
<1>8. Kept(db', o, main', log', logDisk', Len(durable')) /\ OldKept(o)'
  BY <1>1, <1>2, <1>3, <1>6, <1>7, CarriedKeeps
<1>9. Opening(o)'
  <2>1. \A g \in log.head : g = h
    BY <1>5 DEF LogKept, LogPair
  <2>2. QED
    BY <1>3, <1>6, <2>1 DEF Opening, InPlace
<1>10. QED
  BY <1>1, <1>3, <1>8, <1>9, OpenCore

\* The file is synced once the entries are back.
LEMMA RecoverSyncKeeps ==
    ASSUME SinkCore, RecoverSync
    PROVE  SinkCore'
<1>1. TypeOK /\ Counts /\ db \in Taken /\ Len(db) \in Nat
  BY CoreTypes
<1>2. PICK o \in -1 .. Len(db) : Kept(db, o, main, log, logDisk, Len(durable)) /\ Opening(o)
  BY DEF SinkCore
<1>3. /\ proc = "applied" /\ proc' = "synced" /\ db' = db /\ old' = {} /\ log' = log
      /\ logDisk' = logDisk /\ durable' = durable /\ main' = SyncData(main)
      /\ UNCHANGED <<sinkVars, waiting, stopped, durable, writes, budget>>
  BY DEF RecoverSync
<1>4. FileKept(db, o, main) /\ LogKept(db, o, main, log, logDisk)
  BY <1>2 DEF Kept
<1>5. \A h \in log.head : h.ino = main.ino => InPlace(db, o, main, log, h)
  BY <1>2, <1>3 DEF Opening, InPlace
<1>6. /\ FileKept(db, o, main') /\ Carried(db, o, main, db, main')
      /\ AllRetired(db, o, main', log, logDisk)
  BY <1>1, <1>3, <1>4, <1>5, RecoverSynced
<1>7. Kept(db', o, main', log', logDisk', Len(durable'))
  BY <1>1, <1>2, <1>3, <1>6, KeptCarried
<1>8. OldKept(o)' /\ Opening(o)'
  BY <1>3, <1>6 DEF OldKept, Opening
<1>9. QED
  BY <1>1, <1>3, <1>7, <1>8, OpenCore

\* A header wiped: the file needs nothing of the log.
LEMMA WipeKeeps ==
    ASSUME SinkCore, Wipe
    PROVE  SinkCore'
<1>1. TypeOK /\ Counts /\ db \in Taken /\ Len(db) \in Nat
  BY CoreTypes
<1>2. PICK o \in -1 .. Len(db) : /\ Kept(db, o, main, log, logDisk, Len(durable)) /\ Opening(o)
                                 /\ OldKept(o)
  BY DEF SinkCore
<1>3. /\ proc = "synced" /\ proc' = "wiped" /\ db' = db /\ old' = old
      /\ logDisk' = logDisk /\ durable' = durable /\ main' = main
      /\ log' = [log EXCEPT !.head = {}]
      /\ UNCHANGED <<sinkVars, waiting, stopped, durable, writes, budget>>
  BY DEF Wipe
<1>4. /\ FileKept(db, o, main) /\ LogKept(db, o, main, log, logDisk)
      /\ Reach(db, o, main, log, logDisk, Len(durable))
  BY <1>2 DEF Kept
<1>5. AllRetired(db, o, main, log, logDisk)
  BY <1>2, <1>3 DEF Opening
<1>6. /\ log' \in LogFile /\ log'.head = {} /\ log'.entries = log.entries
      /\ log'.made = log.made /\ (log.made => logDisk.made) /\ (log.made \/ log.entries = <<>>)
  BY <1>3, <1>4 DEF LogKept, LogPair, LogFile
<1>7. LogKept(db, o, main, log', logDisk) /\ Reach(db, o, main, log', logDisk, Len(durable))
  BY <1>4, <1>5, <1>6, ForgetKept
<1>8. Kept(db', o, main', log', logDisk', Len(durable'))
  BY <1>3, <1>4, <1>7 DEF Kept
<1>9. OldKept(o)'
  <2>1. CASE old = {}
    BY <1>3, <2>1 DEF OldKept
  <2>2. CASE old # {}
    <3>1. log' = log
      <4>1. [NoLog EXCEPT !.head = {}] = NoLog
        BY SMTT(60) DEF NoLog
      <4>2. log = NoLog
        BY <1>2, <2>2 DEF OldKept
      <4>3. QED
        BY <1>3, <4>1, <4>2
    <3>2. Clean(db', o, main', 1) /\ main'.cache[1] = main.cache[1]
      BY <1>2, <1>3, <2>2 DEF OldKept
    <3>3. o \in Int
      BY SMTT(60), <1>1
    <3>4. QED
      BY <1>1, <1>2, <1>3, <3>1, <3>2, <3>3, OldStays
  <2>3. QED
    BY <2>1, <2>2
<1>10. Opening(o)'
  BY <1>3, <1>6 DEF Opening
<1>11. QED
  BY <1>1, <1>3, <1>8, <1>9, <1>10, OpenCore

\* And the log synced.
LEMMA WipeSyncKeeps ==
    ASSUME SinkCore, WipeSync
    PROVE  SinkCore'
<1>1. TypeOK /\ Counts /\ db \in Taken /\ Len(db) \in Nat
  BY CoreTypes
<1>2. PICK o \in -1 .. Len(db) : /\ Kept(db, o, main, log, logDisk, Len(durable)) /\ Opening(o)
                                 /\ OldKept(o)
  BY DEF SinkCore
<1>3. /\ proc = "wiped" /\ proc' = "load" /\ db' = db /\ old' = old
      /\ logDisk' = log /\ durable' = durable /\ main' = main /\ log' = log
      /\ UNCHANGED <<sinkVars, waiting, stopped, durable, writes, budget>>
  BY DEF WipeSync
<1>4. /\ FileKept(db, o, main) /\ LogKept(db, o, main, log, logDisk)
      /\ Reach(db, o, main, log, logDisk, Len(durable))
  BY <1>2 DEF Kept
<1>5. /\ LogKept(db, o, main, log, log)
      /\ \A p : Safe(db, o, main, log, logDisk, p) => Safe(db, o, main, log, log, p)
  BY <1>4, LogSyncKept
<1>6. Reach(db, o, main, log, log, Len(durable))
  BY <1>4, <1>5 DEF Reach
<1>7. Kept(db', o, main', log', logDisk', Len(durable'))
  BY <1>3, <1>4, <1>5, <1>6 DEF Kept
<1>8. OldKept(o)'
  BY <1>2, <1>3 DEF OldKept
<1>9. Opening(o)'
  BY <1>2, <1>3 DEF Opening
<1>10. QED
  BY <1>1, <1>3, <1>7, <1>8, <1>9, OpenCore

\* A file no header of the log names, has none of its own.
LEMMA NothingToRecoverKeeps ==
    ASSUME SinkCore, NothingToRecover
    PROVE  SinkCore'
<1>1. TypeOK /\ Counts /\ db \in Taken /\ Len(db) \in Nat
  BY CoreTypes
<1>2. PICK o \in -1 .. Len(db) : Kept(db, o, main, log, logDisk, Len(durable)) /\ OldKept(o)
  BY DEF SinkCore
<1>3. /\ proc = "down" /\ proc' = "load" /\ db' = db /\ old' = old
      /\ logDisk' = logDisk /\ durable' = durable /\ main' = main /\ log' = log
      /\ UNCHANGED <<sinkVars, waiting, stopped, durable, writes, budget>>
      /\ (log.made => \A h \in log.head : ~Names(h, main))
  BY DEF NothingToRecover, fileVars
<1>4. FileKept(db, o, main) /\ LogKept(db, o, main, log, logDisk) /\ LogPair(log, logDisk)
  BY <1>2 DEF Kept, LogKept
<1>5. ASSUME NEW h \in log.head, h.ino = main.ino
      PROVE  FALSE
  <2>1. HeadKept(db, o, main, h) /\ h.base \in Nat
    BY <1>4, <1>5, LogTypes DEF LogKept, Heads
  <2>2. h.base <= Len(main.cache)
    BY <1>1, <1>4, <2>1, CleanPlaces DEF HeadKept
  <2>3. h.base \in Nat /\ Len(main.cache) \in Nat
    BY <1>1, <1>4, <2>1, FileTypes
  <2>4. Len(main.cache) >= h.base
    BY SMTT(60), <2>2, <2>3
  <2>5. Names(h, main)
    BY <1>5, <2>1, <2>4 DEF Names, HeadKept
  <2>6. log.made
    BY <1>4, <1>5 DEF LogPair
  <2>7. QED
    BY <1>3, <2>5, <2>6
<1>6. OldKept(o)' /\ Opening(o)'
  BY <1>2, <1>3, <1>5 DEF OldKept, Opening
<1>7. QED
  BY <1>1, <1>2, <1>3, <1>6, OpenCore

\* A file refused stays as it is.
LEMMA RefuseKeeps ==
    ASSUME SinkCore, Refuse
    PROVE  SinkCore'
<1>1. TypeOK /\ Counts
  BY CoreTypes
<1>2. PICK o \in -1 .. Len(db) : Kept(db, o, main, log, logDisk, Len(durable)) /\ OldKept(o)
  BY DEF SinkCore
<1>3. /\ proc = "load" /\ proc' = "refused" /\ db' = db /\ old' = old
      /\ logDisk' = logDisk /\ durable' = durable /\ main' = main /\ log' = log
      /\ UNCHANGED <<sinkVars, waiting, stopped, durable, writes, budget>>
  BY DEF Refuse, fileVars
<1>4. OldKept(o)' /\ Opening(o)'
  BY <1>2, <1>3 DEF OldKept, Opening
<1>5. QED
  BY <1>1, <1>2, <1>3, <1>4, OpenCore

\* A file read: what was reported durable is read, and the tail starts at the
\* file's end.
LEMMA LoadKeeps ==
    ASSUME SinkCore, Load
    PROVE  /\ SinkCore' /\ durable' = durable
           /\ \E n \in Len(durable) .. Len(db) : db' = SubSeq(db, 1, n)
<1>1. /\ TypeOK /\ Counts /\ db \in Taken /\ Len(db) \in Nat /\ Len(durable) \in Nat
      /\ Len(durable) <= Len(db) /\ durable = SubSeq(db, 1, Len(durable))
      /\ db \in Seq(1 .. MaxWrites) /\ durable \in Seq(1 .. MaxWrites)
  BY CoreTypes
<1>2. PICK o \in -1 .. Len(db) : /\ Kept(db, o, main, log, logDisk, Len(durable)) /\ Opening(o)
                                 /\ OldKept(o)
  BY DEF SinkCore
<1> DEFINE r == Readable(main.cache)
<1>3. /\ proc = "load" /\ proc' = "up" /\ old' = old /\ log' = log /\ logDisk' = logDisk
      /\ main' = (IF r < Len(main.cache) THEN SyncData(Truncated(main, r)) ELSE main)
      /\ db' = Content(SubSeq(main.cache, 1, r)) /\ tail' = NewTail(r)
      /\ pending' = <<>> /\ appended' = 0 /\ disk' = FreeDisk /\ waiting' = {}
      /\ stopped' = stopped /\ durable' = durable /\ writes' = writes /\ budget' = budget
  BY <1>1 DEF Load, Counts
<1>4. /\ FileKept(db, o, main) /\ LogKept(db, o, main, log, logDisk)
      /\ Reach(db, o, main, log, logDisk, Len(durable))
  BY <1>2 DEF Kept
<1>5. \A h \in log.head : h.ino # main.ino
  BY <1>2, <1>3 DEF Opening
<1> DEFINE d2 == SubSeq(db, 1, o + r)
<1>6. /\ r \in Nat /\ o + r \in 0 .. Len(db) /\ d2 \in Taken /\ Len(d2) = o + r
      /\ FileKept(d2, o, main') /\ main'.ino = main.ino /\ Len(main'.cache) = r
      /\ \A i \in 1 .. r : main'.cache[i] = main.cache[i] /\ Good(d2, o, i, main'.cache[i])
      /\ \A q \in Nat : CleanTo(db, o, main, q) => q <= r /\ CleanTo(d2, o, main', q)
      /\ db' = d2
  <2>1. /\ r \in Nat /\ o + r \in 0 .. Len(db) /\ d2 \in Taken /\ Len(d2) = o + r
        /\ Content(SubSeq(main.cache, 1, r)) = d2
    BY <1>1, <1>4, ReadKept
  <2>2. FileKept(d2, o, main') /\ main'.ino = main.ino /\ Len(main'.cache) = r
    BY <1>1, <1>3, <1>4, ReadKept
  <2>3. \A i \in 1 .. r : main'.cache[i] = main.cache[i] /\ Good(d2, o, i, main'.cache[i])
    BY <1>1, <1>3, <1>4, ReadKept
  <2>4. \A q \in Nat : CleanTo(db, o, main, q) => q <= r /\ CleanTo(d2, o, main', q)
    BY <1>1, <1>3, <1>4, ReadKept
  <2>5. QED
    BY <1>3, <2>1, <2>2, <2>3, <2>4
<1> HIDE DEF r
<1>7. /\ LogKept(db', o, main', log, logDisk)
      /\ \A h \in Heads(log, logDisk), E \in Entries(log, logDisk) : h.ino = main.ino =>
            \A k \in 1 .. Len(E) : Held(E, h, k) => EndOf(E[k]) <= r
      /\ Len(durable) <= o + r /\ Reach(db', o, main', log, logDisk, Len(durable))
  <2>1. \A i \in 1 .. r : main'.cache[i] = main.cache[i]
    BY <1>6
  <2>2. LogKept(SubSeq(db, 1, o + r), o, main', log, logDisk)
    BY <1>1, <1>4, <1>5, <1>6, <2>1, ReadLog
  <2>3. \A h \in Heads(log, logDisk), E \in Entries(log, logDisk) : h.ino = main.ino =>
            \A k \in 1 .. Len(E) : Held(E, h, k) => EndOf(E[k]) <= r
    BY <1>1, <1>4, <1>5, <1>6, <2>1, ReadLog
  <2>4. \A n \in Nat : Reach(db, o, main, log, logDisk, n) =>
            n <= o + r /\ Reach(SubSeq(db, 1, o + r), o, main', log, logDisk, n)
    BY <1>1, <1>4, <1>5, <1>6, <2>1, ReadLog
  <2>5. QED
    BY <1>1, <1>4, <1>6, <2>2, <2>3, <2>4
<1>8. o \in Int /\ o \in -1 .. o + r /\ Len(durable) \in 0 .. o + r
      /\ o + r \in Len(durable) .. Len(db)
  BY SMTT(60), <1>1, <1>6, <1>7
<1>9. db' \in Taken /\ db' \in Seq(1 .. MaxWrites) /\ Len(db') = o + r
      /\ durable = SubSeq(db', 1, Len(durable))
  <2>1. 1 \in Nat \ {0}
    BY SMTT(60)
  <2>2. SubSeq(db, 1, o + r) \in Seq(1 .. MaxWrites)
    BY <1>1, <1>6, <2>1, PartOf
  <2>3. \A s \in Taken : \A a \in 0 .. Len(s) : \A b \in 0 .. a :
            SubSeq(SubSeq(s, 1, a), 1, b) = SubSeq(s, 1, b)
    BY SMTT(60) DEF Taken
  <2>4. QED
    BY <1>1, <1>6, <1>8, <2>2, <2>3
<1> HIDE DEF d2
<1>10. TypeOK'
  <2>1. <<>> \in Seq(Seq(Int)) /\ 0 \in Nat /\ 0 <= 0
    BY SMTT(60)
  <2>2. /\ FreeDisk \in [by : {"none", "sync", "log", "image", "forgot", "renamed"}, upto : Nat,
                         holds : Nat, written : Nat, synced : Nat, failed : BOOLEAN]
        /\ FreeDisk.synced = 0 /\ FreeDisk.written = 0
    BY <2>1 DEF FreeDisk
  <2>3. NoSyncLog \in [gen : Nat, pos : Nat, at : Nat, count : Nat,
                       begun : SUBSET [gen : Nat, base : Nat, ino : Nat,
                                       print : Seq(Seq(Int))]]
    BY <2>1 DEF NoSyncLog
  <2>4. tail' \in [open : BOOLEAN, unmade : BOOLEAN, end : Nat, since : Seq(Seq(Int)),
                   sinceAt : Nat, direct : BOOLEAN,
                   slog : [gen : Nat, pos : Nat, at : Nat, count : Nat,
                           begun : SUBSET [gen : Nat, base : Nat, ino : Nat,
                                           print : Seq(Seq(Int))]]]
    BY <1>3, <1>6, <2>1, <2>3 DEF NewTail
  <2>5. QED
    BY <1>1, <1>3, <1>9, <2>1, <2>2, <2>4 DEF TypeOK
<1>11. Counts'
  <2>1. Len(durable') <= Len(db') /\ durable' = SubSeq(db', 1, Len(durable'))
    BY <1>3, <1>7, <1>9
  <2>2. QED
    BY <1>3, <2>1 DEF Counts, FreeDisk
<1>12. Kept(db', o, main', log', logDisk', Len(durable'))
  BY <1>3, <1>6, <1>7 DEF Kept
<1>13. OldKept(o)'
  <2>1. ASSUME old # {}
        PROVE  Clean(db', o, main', 1) /\ main'.cache[1] = main.cache[1]
    <3>1. Clean(db, o, main, 1)
      BY <1>2, <2>1 DEF OldKept
    <3>2. 1 \in Nat /\ (\A p \in 1 .. 1 : p = 1) /\ 1 \in 1 .. 1
      BY SMTT(60)
    <3>3. CleanTo(db, o, main, 1)
      BY <3>1, <3>2 DEF CleanTo
    <3>4. 1 <= r /\ CleanTo(db', o, main', 1)
      BY <1>6, <3>2, <3>3
    <3>5. 1 \in 1 .. r
      BY SMTT(60), <1>6, <3>4
    <3>6. QED
      BY <1>6, <3>2, <3>4, <3>5 DEF CleanTo
  <2>2. disk'.synced = 0
    BY <1>3 DEF FreeDisk
  <2>3. QED
    BY <1>2, <1>3, <1>8, <1>9, <2>1, <2>2, OldStays
<1>14. Holding(o)'
  <2>1. disk'.written = 0 /\ disk'.synced = 0
    BY <1>3 DEF FreeDisk
  <2>2. Len(<<>>) = 0 /\ (\A j \in 1 .. 0 : FALSE) /\ 0 + 0 = 0 /\ ~(0 > 0)
    BY SMTT(60)
  <2>3. o + r + 0 = o + r
    BY SMTT(60), <1>6, <1>8
  <2>4. \A i \in 1 .. r : Good(db', o, i, main'.cache[i])
    BY <1>6
  <2>5. Len(pending') = 0
    BY <1>3, <2>2
  <2>6. QED
    BY <1>3, <1>6, <1>7, <1>9, <2>1, <2>2, <2>3, <2>4, <2>5 DEF Holding
<1>15. Following(o)'
  <2>1. ASSUME NEW h \in log.head
        PROVE  /\ h.ino # main'.ino
               /\ \A E \in Entries(log, logDisk) : E # <<>> =>
                     E[1].gen <= h.gen + 1 \/ E[1].at + 0 <= r
    <3>1. h.ino # main'.ino /\ h \in Heads(log, logDisk) /\ LogPair(log, logDisk)
      BY <1>4, <1>5, <1>6, <2>1 DEF Heads, LogKept
    <3>2. ASSUME NEW E \in Entries(log, logDisk), E # <<>>, CleanTo(db', o, main', E[1].at)
          PROVE  E[1].at + 0 <= r
      <4>1. E \in Seq(Entry)
        BY <3>1, LogTypes
      <4>2. \A s \in Seq(Entry) : s # <<>> => 1 \in 1 .. Len(s)
        BY SMTT(60)
      <4>3. 1 \in 1 .. Len(E)
        BY <3>2, <4>1, <4>2
      <4>4. E[1].at \in Nat
        BY <3>1, <4>3, LogTypes
      <4>5. E[1].at <= Len(main'.cache)
        BY <1>6, <3>2, <4>4, CleanPlaces
      <4>6. \A a \in Nat : a + 0 = a
        BY SMTT(60)
      <4>7. QED
        BY <1>6, <4>4, <4>5, <4>6
    <3>3. \A E \in Entries(log, logDisk) : Another(db', o, main', E, h)
      BY <1>7, <3>1 DEF LogKept
    <3>4. QED
      BY <3>1, <3>2, <3>3 DEF Another
  <2>2. /\ tail'.end = r /\ ~tail'.open /\ tail'.direct /\ disk'.by = "none"
        /\ disk'.written = 0
    BY <1>3 DEF NewTail, FreeDisk
  <2>3. QED
    BY <1>3, <1>6, <2>1, <2>2 DEF Following
<1>16. Opening(o)' /\ Going(o)'
  <2>1. disk'.by = "none"
    BY <1>3 DEF FreeDisk
  <2>2. QED
    BY <1>3, <1>14, <1>15, <2>1 DEF Opening, Going
<1>17. o \in -1 .. Len(db')
  BY <1>8, <1>9
<1>18. SinkCore'
  BY <1>10, <1>11, <1>12, <1>13, <1>16, <1>17 DEF SinkCore
<1>19. QED
  BY <1>3, <1>6, <1>8, <1>18 DEF d2

------------------------------------------------------------------------------
(* A process that is up.                                                   *)

\* The types of what a process that is up counts.
LEMMA UpTypes ==
    ASSUME TypeOK
    PROVE  /\ pending \in Seq(Cell) /\ Len(pending) \in Nat /\ appended \in Nat
           /\ disk.by \in {"none", "sync", "log", "image", "forgot", "renamed"}
           /\ disk.upto \in Nat /\ disk.holds \in Nat /\ disk.written \in Nat
           /\ disk.synced \in Nat /\ disk.failed \in BOOLEAN
           /\ disk.synced <= disk.written /\ disk.written <= appended
           /\ tail.open \in BOOLEAN /\ tail.unmade \in BOOLEAN /\ tail.direct \in BOOLEAN
           /\ tail.end \in Nat /\ tail.sinceAt \in Nat /\ tail.since \in Seq(Cell)
           /\ Len(tail.since) \in Nat
           /\ tail.slog.gen \in Nat /\ tail.slog.pos \in Nat /\ tail.slog.at \in Nat
           /\ tail.slog.count \in Nat
           /\ tail.slog.begun \in SUBSET [gen : Nat, base : Nat, ino : Nat,
                                          print : Seq(Seq(Int))]
<1>1. pending \in Seq(Cell) /\ tail.since \in Seq(Cell)
  BY DEF TypeOK, Cell
<1>2. Len(pending) \in Nat /\ Len(tail.since) \in Nat
  BY <1>1, LenProperties
<1>3. /\ disk.by \in {"none", "sync", "log", "image", "forgot", "renamed"}
      /\ disk.upto \in Nat /\ disk.holds \in Nat /\ disk.written \in Nat
      /\ disk.synced \in Nat /\ disk.failed \in BOOLEAN
      /\ disk.synced <= disk.written /\ disk.written <= appended /\ appended \in Nat
  BY DEF TypeOK
<1>4. /\ tail.open \in BOOLEAN /\ tail.unmade \in BOOLEAN /\ tail.direct \in BOOLEAN
      /\ tail.end \in Nat /\ tail.sinceAt \in Nat
      /\ tail.slog \in [gen : Nat, pos : Nat, at : Nat, count : Nat,
                        begun : SUBSET [gen : Nat, base : Nat, ino : Nat,
                                        print : Seq(Seq(Int))]]
  BY DEF TypeOK
<1>5. QED
  BY <1>1, <1>2, <1>3, <1>4

\* What the tail knows stays so while the file's cells, its log and the tail do.
LEMMA FollowingStays ==
    ASSUME db \in Taken, db' \in Taken, NEW o \in Int, FileKept(db, o, main),
           LogKept(db, o, main, log, logDisk), FileKept(db', o, main'),
           Carried(db, o, main, db', main'), main'.cache = main.cache, tail' = tail,
           log' = log, logDisk' = logDisk, disk'.by = "log" <=> disk.by = "log",
           disk'.written = disk.written, Following(o)
    PROVE  Following(o)'
<1>1. /\ \A p : Safe(db, o, main, log, logDisk, p) => Safe(db', o, main', log, logDisk, p)
      /\ AllRetired(db, o, main, log, logDisk) => AllRetired(db', o, main', log, logDisk)
  BY CarriedLog
<1>2. main'.ino = main.ino
  BY DEF Carried
<1>3. \A n : CleanTo(db, o, main, n) => CleanTo(db', o, main', n)
  BY CarriedClean
<1>4. Begun(o) => Begun(o)'
  BY <1>1, <1>2, <1>3 DEF Begun
<1>5. \A n, end : Logged(n, end) => Logged(n, end)'
  BY <1>2 DEF Logged
<1>6. ~tail'.direct =>
         /\ tail'.sinceAt <= tail'.end
         /\ tail'.since = SubSeq(main'.cache, tail'.sinceAt + 1, tail'.end)
         /\ tail'.slog.at = tail'.sinceAt
         /\ \A p \in 1 .. tail'.sinceAt : Safe(db', o, main', log', logDisk', p)
         /\ IF disk'.by = "log"
            THEN /\ Logged(tail.slog.count + 1, tail.end)'
                 /\ log'.entries[tail'.slog.count + 1].at = tail'.sinceAt
            ELSE Begun(o)' \/ (tail'.slog.begun = {} /\ logDisk' = log'
                               /\ Logged(tail.slog.count, tail.sinceAt)')
  BY <1>1, <1>4, <1>5 DEF Following
<1>7. /\ tail'.end = Len(main'.cache)
      /\ tail'.open =>
            /\ log'.made /\ Keeps /\ ~tail'.unmade /\ tail'.slog.gen > 0
            /\ \A h \in Heads(log', logDisk') : h.gen <= tail'.slog.gen
            /\ \A E \in Entries(log', logDisk') :
                  E # <<>> => E[1].gen <= tail'.slog.gen \/ E[1].at < tail'.end
      /\ ~tail'.open =>
            /\ tail'.direct
            /\ \A h \in log'.head :
                  /\ h.ino # main'.ino
                  /\ \A E \in Entries(log', logDisk') :
                        E # <<>> => \/ E[1].gen <= h.gen + 1
                                    \/ E[1].at + disk'.written <= tail'.end
      /\ disk'.by = "log" => ~tail'.direct
  BY <1>2 DEF Following
<1>8. QED
  BY <1>6, <1>7 DEF Following

\* A write taken: it is pending, in its place.
LEMMA AppendKeeps ==
    ASSUME SinkCore, AppendRecord
    PROVE  /\ SinkCore' /\ durable' = durable
           /\ \E w \in 1 .. MaxWrites : db' = Append(db, w)
<1>1. /\ TypeOK /\ Counts /\ db \in Taken /\ Len(db) \in Nat /\ Len(durable) \in Nat
      /\ Len(durable) <= Len(db) /\ durable = SubSeq(db, 1, Len(durable))
      /\ db \in Seq(1 .. MaxWrites) /\ durable \in Seq(1 .. MaxWrites)
  BY CoreTypes
<1>2. PICK o \in -1 .. Len(db) : /\ Kept(db, o, main, log, logDisk, Len(durable))
                                 /\ OldKept(o) /\ Going(o)
  BY DEF SinkCore
<1> DEFINE w == writes + 1
           d2 == Append(db, w)
<1>3. /\ proc = "up" /\ proc' = "up" /\ writes' = w /\ db' = d2 /\ pending' = Append(pending, d2)
      /\ appended' = appended + 1 /\ main' = main /\ old' = old /\ log' = log
      /\ logDisk' = logDisk /\ disk' = disk /\ tail' = tail /\ waiting' = waiting
      /\ stopped' = stopped /\ durable' = durable /\ budget' = budget
      /\ writes < budget.writes /\ disk.by \in {"none", "sync", "log"}
  BY DEF AppendRecord, fileVars
<1>4. w \in 1 .. MaxWrites
  <2>1. writes \in 0 .. MaxWrites /\ budget.writes \in 0 .. MaxWrites /\ MaxWrites \in Nat
    BY <1>1, SinkAssumption DEF TypeOK
  <2>2. QED
    BY SMTT(60), <1>3, <2>1
<1> HIDE DEF w
<1>5. /\ d2 \in Seq(1 .. MaxWrites) /\ d2 \in Taken /\ Len(d2) = Len(db) + 1
      /\ SubSeq(d2, 1, Len(db)) = db /\ d2 \in Cell /\ SubSeq(d2, 1, Len(d2)) = d2
  <2>1. d2 \in Seq(1 .. MaxWrites) /\ Len(d2) = Len(db) + 1
    BY <1>1, <1>4, AppendProperties
  <2>2. d2 \in Taken
    BY <2>1, WritesTaken
  <2>3. w \in Int
    BY SMTT(60), <1>4, SinkAssumption
  <2>4. \A s \in Taken : \A x \in Int : SubSeq(Append(s, x), 1, Len(s)) = s
    BY SMTT(60) DEF Taken
  <2>5. \A s \in Taken : s \in Cell /\ SubSeq(s, 1, Len(s)) = s
    BY SMTT(60) DEF Taken, Cell
  <2>6. QED
    BY <1>1, <2>1, <2>2, <2>3, <2>4, <2>5
<1> HIDE DEF d2
<1>6. o \in Int /\ Len(db) \in 0 .. Len(d2) /\ o \in -1 .. Len(d2)
  BY SMTT(60), <1>1, <1>5
<1>7. FileKept(db, o, main) /\ LogKept(db, o, main, log, logDisk)
  BY <1>2 DEF Kept
<1>8. FileKept(d2, o, main) /\ Carried(db, o, main, d2, main)
  BY <1>5, <1>6, <1>7, Grown
<1>9. Kept(d2, o, main, log, logDisk, Len(durable))
  BY <1>1, <1>2, <1>5, <1>8, KeptCarried
<1>10. OldKept(o)'
  <2>1. old # {} => Clean(db', o, main', 1) /\ main'.cache[1] = main.cache[1]
    BY <1>2, <1>3, <1>8 DEF OldKept, Carried
  <2>2. QED
    BY <1>2, <1>3, <1>5, <1>6, <2>1, OldStays DEF OldKept
<1>11. pending \in Seq(Cell) /\ Len(pending) \in Nat /\ appended \in Nat /\ disk.written \in Nat
       /\ disk.synced \in Nat /\ disk.synced <= disk.written /\ disk.written <= appended
       /\ disk.upto \in Nat /\ disk.holds \in Nat
  BY <1>1, UpTypes
<1>12. /\ pending' \in Seq(Cell) /\ Len(pending') = Len(pending) + 1
       /\ \A j \in 1 .. Len(pending) : pending'[j] = pending[j]
       /\ pending'[Len(pending) + 1] = d2
  <2>1. \A s \in Seq(Cell) : \A x \in Cell :
            /\ Append(s, x) \in Seq(Cell) /\ Len(Append(s, x)) = Len(s) + 1
            /\ \A j \in 1 .. Len(s) : Append(s, x)[j] = s[j]
            /\ Append(s, x)[Len(s) + 1] = x
    BY SMTT(60)
  <2>2. QED
    BY <1>3, <1>5, <1>11, <2>1
<1>13. TypeOK'
  <2>1. appended' \in Nat /\ disk'.written <= appended' /\ \A a \in Nat : a <= appended => a <= appended'
    BY SMTT(60), <1>3, <1>11
  <2>2. \A a \in Nat : a <= Len(db) => a <= Len(db')
    BY SMTT(60), <1>1, <1>3, <1>5
  <2>3. writes' \in 0 .. MaxWrites
    <3>1. \A x \in 1 .. MaxWrites : x \in 0 .. MaxWrites
      BY SMTT(60), SinkAssumption
    <3>2. QED
      BY <1>3, <1>4, <3>1
  <2>4. \A v \in waiting' : /\ v \in [upto : Nat, holds : Nat]
                            /\ v.upto <= appended' /\ v.holds <= Len(db')
    <3>1. \A v \in waiting : /\ v \in [upto : Nat, holds : Nat] /\ v.upto \in Nat
                             /\ v.holds \in Nat /\ v.upto <= appended /\ v.holds <= Len(db)
      BY <1>1 DEF TypeOK
    <3>2. QED
      BY <1>3, <2>1, <2>2, <3>1
  <2>5. pending' \in Seq(Seq(Int))
    BY <1>12 DEF Cell
  <2>6. QED
    BY <1>1, <1>3, <1>5, <2>1, <2>3, <2>4, <2>5 DEF TypeOK
<1>14. Len(db') - appended' = Len(db) - appended
  BY SMTT(60), <1>1, <1>3, <1>5, <1>11
<1>15. Counts'
  <2>1. Len(durable) <= Len(d2)
    BY SMTT(60), <1>1, <1>5
  <2>2. durable = SubSeq(d2, 1, Len(durable))
    <3>1. \A s \in Taken : \A a \in 0 .. Len(s) : \A b \in 0 .. a :
              SubSeq(SubSeq(s, 1, a), 1, b) = SubSeq(s, 1, b)
      BY SMTT(60) DEF Taken
    <3>2. Len(durable) \in 0 .. Len(db)
      BY SMTT(60), <1>1
    <3>3. QED
      BY <1>1, <1>5, <1>6, <3>1, <3>2
  <2>3. QED
    BY <1>1, <1>3, <1>14, <2>1, <2>2 DEF Counts
<1>16. ASSUME Holding(o)
       PROVE  Holding(o)'
  <2>1. Len(main.cache) \in Nat /\ o + Len(main.cache) + Len(pending) = Len(db)
        /\ disk.written + Len(pending) = appended
    BY <1>1, <1>7, <1>16, FileTypes DEF Holding
  <2>2. \A i \in Int : \A c : Good(db, o, i, c) => Good(d2, o, i, c)
    BY <1>8 DEF Carried
  <2>3. \A i \in 1 .. Len(main.cache) : i \in Int
    BY SMTT(60), <2>1
  <2>4. \A i \in 1 .. Len(main.cache) : Good(d2, o, i, main.cache[i])
    BY <1>16, <2>2, <2>3 DEF Holding
  <2>5. ASSUME NEW j \in 1 .. Len(pending)
        PROVE  Good(d2, o, Len(main.cache) + j, pending[j])
    <3>1. Len(main.cache) + j \in Int
      BY SMTT(60), <1>11, <2>1
    <3>2. QED
      BY <1>16, <2>2, <3>1 DEF Holding
  <2>6. Good(d2, o, Len(main.cache) + (Len(pending) + 1), d2)
    <3>1. /\ o + (Len(main.cache) + (Len(pending) + 1)) = Len(d2)
          /\ o + (Len(main.cache) + (Len(pending) + 1)) \in 0 .. Len(d2)
      <4> DEFINE a == Len(main.cache)
                 b == Len(pending)
      <4>1. a \in Nat /\ b \in Nat /\ o \in Int /\ Len(db) \in Nat /\ o + a + b = Len(db)
            /\ Len(d2) = Len(db) + 1
        BY <1>1, <1>5, <1>6, <1>11, <2>1
      <4> HIDE DEF a, b
      <4>2. o + (a + (b + 1)) = Len(d2) /\ o + (a + (b + 1)) \in 0 .. Len(d2)
        BY SMTT(60), <4>1
      <4>3. QED
        BY <4>2 DEF a, b
    <3>2. QED
      BY <1>5, <3>1 DEF Good
  <2>7. \A j \in 1 .. Len(pending) + 1 : j \in 1 .. Len(pending) \/ j = Len(pending) + 1
    BY SMTT(60), <1>11
  <2>8. \A j \in 1 .. Len(pending') : Good(d2, o, Len(main.cache) + j, pending'[j])
    BY <1>12, <2>5, <2>6, <2>7
  <2>9. o + Len(main.cache) + Len(pending') = Len(d2) /\ disk.written + Len(pending') = appended'
    <3> DEFINE a == Len(main.cache)
               b == Len(pending)
               e == disk.written
    <3>1. a \in Nat /\ b \in Nat /\ o \in Int /\ Len(db) \in Nat /\ o + a + b = Len(db)
          /\ Len(d2) = Len(db) + 1 /\ e \in Nat /\ appended \in Nat /\ e + b = appended
          /\ Len(pending') = b + 1 /\ appended' = appended + 1
      BY <1>1, <1>3, <1>5, <1>6, <1>11, <1>12, <2>1
    <3> HIDE DEF a, b, e
    <3>2. o + a + Len(pending') = Len(d2) /\ e + Len(pending') = appended'
      BY SMTT(60), <3>1
    <3>3. QED
      BY <3>2 DEF a, b, e
  <2>10. \A n : Reach(db, o, main, log, logDisk, n) => Reach(d2, o, main, log, logDisk, n)
    BY <1>1, <1>5, <1>7, <1>8, CarriedLog
  <2>11. disk.synced > 0 => Reach(d2, o, main, log, logDisk, Len(db) - appended + disk.synced)
    BY <1>16, <2>10 DEF Holding
  <2>12. \A h \in Heads(log, logDisk), E \in Entries(log, logDisk) : h.ino = main.ino =>
              \A k \in 1 .. Len(E) : Held(E, h, k) => EndOf(E[k]) <= Len(main.cache)
    BY <1>16 DEF Holding
  <2>13. QED
    BY <1>3, <1>14, <2>4, <2>8, <2>9, <2>11, <2>12 DEF Holding
<1>17. ASSUME Following(o)
       PROVE  Following(o)'
  BY <1>1, <1>3, <1>5, <1>6, <1>7, <1>8, <1>17, FollowingStays
<1>18. Going(o)' /\ Opening(o)'
  BY <1>2, <1>3, <1>16, <1>17 DEF Going, Opening
<1>19. SinkCore'
  BY <1>3, <1>6, <1>9, <1>10, <1>13, <1>15, <1>18 DEF SinkCore
<1>20. QED
  BY <1>3, <1>4, <1>19 DEF d2

\* A durability handed out names what the database holds.
LEMMA FlushKeeps ==
    ASSUME SinkCore, Flush
    PROVE  SinkCore'
<1>1. TypeOK /\ Counts /\ Len(db) \in Nat
  BY CoreTypes
<1>2. PICK o \in -1 .. Len(db) : /\ Kept(db, o, main, log, logDisk, Len(durable))
                                 /\ OldKept(o) /\ Opening(o) /\ Going(o)
  BY DEF SinkCore
<1> DEFINE w == [upto |-> appended, holds |-> Len(db)]
<1>3. /\ proc = "up" /\ proc' = proc /\ db' = db /\ pending' = pending /\ appended' = appended
      /\ main' = main /\ old' = old /\ log' = log /\ logDisk' = logDisk /\ disk' = disk
      /\ tail' = tail /\ stopped' = stopped /\ durable' = durable /\ budget' = budget
      /\ writes' = writes /\ waiting' = waiting \cup {w}
  BY DEF Flush, fileVars, sinkVars
<1>4. appended \in Nat
  BY <1>1, UpTypes
<1>5. /\ w \in [upto : Nat, holds : Nat] /\ w.upto = appended /\ w.holds = Len(db)
      /\ appended <= appended /\ Len(db) <= Len(db) /\ Len(db) = Len(db) - appended + appended
  <2>1. appended <= appended /\ Len(db) <= Len(db) /\ Len(db) = Len(db) - appended + appended
    BY SMTT(60), <1>1, <1>4
  <2>2. QED
    BY <1>1, <1>4, <2>1
<1> HIDE DEF w
<1>6. TypeOK'
  <2>1. \A v \in waiting' : /\ v \in [upto : Nat, holds : Nat]
                            /\ v.upto <= appended' /\ v.holds <= Len(db')
    BY <1>1, <1>3, <1>5 DEF TypeOK
  <2>2. QED
    BY <1>1, <1>3, <2>1 DEF TypeOK
<1>7. Counts'
  <2>1. \A v \in waiting' : v.holds = Len(db') - appended' + v.upto
    BY <1>1, <1>3, <1>5 DEF Counts
  <2>2. QED
    BY <1>1, <1>3, <2>1 DEF Counts
<1>8. OldKept(o)' /\ Opening(o)'
  BY <1>2, <1>3 DEF OldKept, Opening
<1>9. Going(o)'
  <2>1. (Holding(o) => Holding(o)') /\ (Following(o) => Following(o)')
    BY <1>3 DEF Holding, Following, Begun, Logged
  <2>2. QED
    BY <1>2, <1>3, <2>1 DEF Going
<1>10. QED
  BY <1>2, <1>3, <1>6, <1>7, <1>8, <1>9 DEF SinkCore

\* A database that stops leaves its file alone.
LEMMA FailKeeps ==
    ASSUME SinkCore, Fail
    PROVE  SinkCore'
<1>1. TypeOK /\ Counts
  BY CoreTypes
<1>2. PICK o \in -1 .. Len(db) : /\ Kept(db, o, main, log, logDisk, Len(durable))
                                 /\ OldKept(o) /\ Opening(o) /\ Going(o)
  BY DEF SinkCore
<1>3. /\ proc = "up" /\ proc' = proc /\ db' = db /\ pending' = pending /\ appended' = appended
      /\ main' = main /\ old' = old /\ log' = log /\ logDisk' = logDisk /\ disk' = disk
      /\ tail' = tail /\ stopped' = TRUE /\ durable' = durable /\ budget' = budget
      /\ writes' = writes /\ waiting' = waiting /\ disk.failed
  BY DEF Fail, fileVars, sinkVars
<1>4. TypeOK' /\ Counts'
  BY <1>1, <1>3 DEF TypeOK, Counts
<1>5. OldKept(o)' /\ Opening(o)' /\ Going(o)'
  BY <1>2, <1>3 DEF OldKept, Opening, Going
<1>6. QED
  BY <1>2, <1>3, <1>4, <1>5 DEF SinkCore

\* A rewrite that starts takes the disk.
LEMMA StartSwapKeeps ==
    ASSUME SinkCore, StartSwap
    PROVE  SinkCore'
<1>1. TypeOK /\ Counts /\ db \in Taken /\ Len(db) \in Nat
  BY CoreTypes
<1>2. PICK o \in -1 .. Len(db) : /\ Kept(db, o, main, log, logDisk, Len(durable))
                                 /\ OldKept(o) /\ Opening(o) /\ Going(o)
  BY DEF SinkCore
<1>3. /\ proc = "up" /\ proc' = proc /\ db' = db /\ pending' = pending /\ appended' = appended
      /\ main' = main /\ old' = old /\ log' = log /\ logDisk' = logDisk
      /\ disk' = [disk EXCEPT !.by = "image"] /\ disk.by = "none" /\ ~disk.failed
      /\ tail' = tail /\ stopped' = stopped /\ durable' = durable
      /\ writes' = writes /\ waiting' = waiting
  BY DEF StartSwap, fileVars
<1>4. budget' \in BudgetType
  <2>1. Spend("swap")
    BY DEF StartSwap, Spend
  <2>2. QED
    BY <1>1, <2>1, SpendType
<1>5. /\ disk'.by = "image" /\ disk'.written = disk.written /\ disk'.synced = disk.synced
      /\ disk'.failed = disk.failed
      /\ disk' \in [by : {"none", "sync", "log", "image", "forgot", "renamed"}, upto : Nat,
                    holds : Nat, written : Nat, synced : Nat, failed : BOOLEAN]
  BY <1>1, <1>3 DEF TypeOK
<1>6. TypeOK'
  BY <1>1, <1>3, <1>4, <1>5 DEF TypeOK, BudgetType
<1>7. Counts'
  BY <1>1, <1>3, <1>5 DEF Counts
<1>8. OldKept(o)' /\ Opening(o)'
  BY <1>2, <1>3, <1>5 DEF OldKept, Opening
<1>9. Going(o)'
  <2>1. Holding(o) /\ Following(o)
    BY <1>2, <1>3 DEF Going
  <2>2. Holding(o)'
    BY <1>3, <1>5, <2>1 DEF Holding
  <2>3. Following(o)'
    BY <1>3, <1>5, <2>1 DEF Following, Begun, Logged
  <2>4. QED
    BY <1>3, <1>5, <2>2, <2>3 DEF Going
<1>10. QED
  BY <1>2, <1>3, <1>6, <1>7, <1>8, <1>9 DEF SinkCore

\* A primary's open syncs the file: all of it is durable, or the open ends.
LEMMA SyncExistingKeeps ==
    ASSUME ~DropsPages, SinkCore, SyncExisting
    PROVE  SinkCore' /\ db' = db /\ durable' \in {durable, db}
<1>1. /\ TypeOK /\ Counts /\ db \in Taken /\ Len(db) \in Nat /\ Len(durable) \in Nat
      /\ Len(durable) <= Len(db) /\ durable = SubSeq(db, 1, Len(durable))
      /\ db \in Seq(1 .. MaxWrites) /\ durable \in Seq(1 .. MaxWrites)
  BY CoreTypes
<1>2. PICK o \in -1 .. Len(db) : /\ Kept(db, o, main, log, logDisk, Len(durable))
                                 /\ OldKept(o) /\ Going(o)
  BY DEF SinkCore
<1>3. /\ proc = "up" /\ disk.by = "none" /\ ~disk.failed /\ appended = 0 /\ log' = log
      /\ logDisk' = logDisk /\ db' = db /\ writes' = writes
  BY DEF SyncExisting
<1>4. Holding(o) /\ Following(o)
  BY <1>2, <1>3 DEF Going
<1>5. FileKept(db, o, main) /\ LogKept(db, o, main, log, logDisk)
  BY <1>2 DEF Kept
<1>6. o \in Int
  BY SMTT(60), <1>1
<1>7. CASE /\ main' = SyncData(main) /\ old' = {} /\ durable' = db
           /\ UNCHANGED <<proc, sinkVars, waiting, stopped, budget>>
  <2>1. /\ proc' = proc /\ pending' = pending /\ appended' = appended /\ disk' = disk
        /\ tail' = tail /\ waiting' = waiting /\ stopped' = stopped /\ budget' = budget
    BY <1>7 DEF sinkVars
  <2>2. /\ FileKept(db, o, main') /\ Carried(db, o, main, db, main')
        /\ main'.ino = main.ino /\ main'.cache = main.cache
        /\ \A p \in 1 .. Len(main.cache) : Good(db, o, p, main.cache[p]) => Clean(db, o, main', p)
    BY <1>1, <1>5, <1>7, SyncKept
  <2>3. /\ LogKept(db, o, main', log, logDisk)
        /\ \A n : Reach(db, o, main, log, logDisk, n) => Reach(db, o, main', log, logDisk, n)
    BY <1>1, <1>5, <2>2, CarriedLog
  <2>4. Len(db) - o = Len(main.cache)
    <3> DEFINE a == Len(main.cache)
               b == Len(pending)
               e == disk.written
    <3>1. a \in Nat /\ b \in Nat /\ e \in Nat /\ o + a + b = Len(db) /\ e + b = 0
      BY <1>1, <1>3, <1>4, <1>5, FileTypes, UpTypes DEF Holding
    <3> HIDE DEF a, b, e
    <3>2. Len(db) - o = a
      BY SMTT(60), <1>1, <1>6, <3>1
    <3>3. QED
      BY <3>2 DEF a
  <2>5. Reach(db, o, main', log, logDisk, Len(db))
    BY <1>4, <2>2, <2>4 DEF Reach, Safe, Holding
  <2>6. Kept(db', o, main', log', logDisk', Len(durable'))
    BY <1>3, <1>7, <2>2, <2>3, <2>5 DEF Kept
  <2>7. TypeOK'
    BY <1>1, <1>3, <1>7, <2>1 DEF TypeOK
  <2>8. Counts'
    <3>1. \A s \in Taken : SubSeq(s, 1, Len(s)) = s /\ Len(s) <= Len(s)
      BY SMTT(60) DEF Taken
    <3>2. Len(durable') <= Len(db') /\ durable' = SubSeq(db', 1, Len(durable'))
      BY <1>1, <1>3, <1>7, <3>1
    <3>3. QED
      BY <1>1, <1>3, <2>1, <3>2 DEF Counts
  <2>9. Following(o)'
    BY <1>1, <1>3, <1>4, <1>5, <1>6, <2>1, <2>2, FollowingStays
  <2>10. Holding(o)'
    <3>1. disk.synced > 0 =>
              Reach(db, o, main', log, logDisk, Len(db) - appended + disk.synced)
      BY <1>4, <2>3 DEF Holding
    <3>2. /\ \A i \in 1 .. Len(main.cache) : Good(db, o, i, main.cache[i])
          /\ \A j \in 1 .. Len(pending) : Good(db, o, Len(main.cache) + j, pending[j])
          /\ o + Len(main.cache) + Len(pending) = Len(db)
          /\ disk.written + Len(pending) = appended
          /\ \A h \in Heads(log, logDisk), E \in Entries(log, logDisk) : h.ino = main.ino =>
                \A k \in 1 .. Len(E) : Held(E, h, k) => EndOf(E[k]) <= Len(main.cache)
      BY <1>4 DEF Holding
    <3>3. /\ db' = db /\ log' = log /\ logDisk' = logDisk /\ pending' = pending
          /\ appended' = appended /\ disk' = disk /\ main'.ino = main.ino
          /\ main'.cache = main.cache
      BY <1>3, <2>1, <2>2
    <3>4. QED
      BY SMTT(60), <3>1, <3>2, <3>3 DEF Holding
  <2>11. OldKept(o)' /\ Opening(o)' /\ Going(o)'
    BY <1>3, <1>7, <2>1, <2>9, <2>10 DEF OldKept, Opening, Going
  <2>12. SinkCore'
    BY <1>2, <1>3, <2>6, <2>7, <2>8, <2>11 DEF SinkCore
  <2>13. QED
    BY <1>3, <1>7, <2>12
<1>8. CASE /\ Spend("fail") /\ main' \in FailedSync(main) /\ Ended /\ old' = old
           /\ durable' = durable
  <2>1. budget' \in BudgetType /\ writes' \in 0 .. MaxWrites /\ proc' = "down"
    BY <1>1, <1>3, <1>8, SpendType DEF TypeOK, Ended
  <2>2. FileKept(db, o, main') /\ Carried(db, o, main, db, main')
    BY <1>1, <1>5, <1>8, FailedKept
  <2>3. Kept(db', o, main', log', logDisk', Len(durable')) /\ OldKept(o)'
    BY <1>1, <1>2, <1>3, <1>6, <1>8, <2>1, <2>2, CarriedKeeps
  <2>4. SinkCore'
    BY <1>1, <1>2, <1>3, <1>8, <2>1, <2>3, EndedCore
  <2>5. QED
    BY <1>3, <1>8, <2>4
<1>9. QED
  BY <1>7, <1>8 DEF SyncExisting

==============================================================================
