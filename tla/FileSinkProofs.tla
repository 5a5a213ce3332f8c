--------------------------- MODULE FileSinkProofs ----------------------------
(***************************************************************************)
(* Every step of FileSink keeps its invariant, a write reported durable is *)
(* in every file an open reads, and the sink implements a durable log.     *)
(* Here are a sync past the log, a rewrite of the file and the theorems.   *)
(*                                                                         *)
(* A failed fsync is taken to leave its pages to be written again          *)
(* (~DropsPages).                                                          *)
(***************************************************************************)
EXTENDS FileSinkWrites

\* Zenon is given a minute a leaf; the leaves that count name the SMT solver.
USE ZenonT(60)

------------------------------------------------------------------------------
(* A sync past the log.                                                    *)

\* The bytes a fingerprint is of are cells.
LEMMA PrintType ==
    ASSUME NEW c \in Seq(Cell)
    PROVE  Fingerprint(c, Len(c)) \in Seq(Cell)
<1>1. Len(c) \in Nat /\ PrintLen \in Nat
  BY LenProperties, LogAssumption
<1> DEFINE m == Max({1, Len(c) - PrintLen + 1})
<1>2. m \in Nat \ {0} /\ Len(c) \in 0 .. Len(c)
  <2>1. 1 \in Int /\ Len(c) - PrintLen + 1 \in Int
    BY SMTT(60), <1>1
  <2>2. m = IF 1 >= Len(c) - PrintLen + 1 THEN 1 ELSE Len(c) - PrintLen + 1
    BY <2>1, MaxOfTwo
  <2> HIDE DEF m
  <2>3. QED
    BY SMTT(60), <1>1, <2>2
<1> HIDE DEF m
<1>3. SubSeq(c, m, Len(c)) \in Seq(Cell)
  BY <1>2, PartOf
<1>4. QED
  BY <1>3 DEF Fingerprint, m

\* A generation begun over a file all on the disk.
LEMMA BeginFollows ==
    ASSUME TypeOK, db \in Taken, db' = db, NEW o, FileKept(db, o, main), FileKept(db, o, main'),
           main'.cache = main.cache, main'.ino = main.ino, tail.end = Len(main.cache),
           CleanTo(db, o, main', Len(main.cache)), AllRetired(db, o, main', log', logDisk'),
           NEW G \in Nat, Keeps, ~tail.unmade, log'.made,
           \A h \in Heads(log', logDisk') : h.gen \in Nat /\ h.gen <= G,
           \A E \in Entries(log', logDisk') :
               E # <<>> => E[1].gen \in Nat /\ (E[1].gen <= G \/ E[1].at < tail.end),
           tail' = Begin([tail EXCEPT !.since = <<>>, !.sinceAt = tail.end], main, G),
           disk'.by = "none"
    PROVE  Following(o)' /\ tail' \in TailType
<1> DEFINE b == [gen |-> G + 1, base |-> tail.end, ino |-> main.ino,
                 print |-> Fingerprint(main.cache, tail.end)]
           s == [gen |-> G + 1, pos |-> 0, at |-> tail.end, count |-> 0, begun |-> {b}]
           t == [tail EXCEPT !.since = <<>>, !.sinceAt = tail.end]
<1>1. /\ tail.end \in Nat /\ tail.unmade \in BOOLEAN
      /\ main.cache \in Seq(Cell) /\ main.ino \in Nat
  BY UpTypes, FileTypes
<1>2. G + 1 \in Nat /\ 0 \in Nat /\ G + 1 > 0 /\ tail.end <= tail.end
  BY SMTT(60), <1>1
<1>3. b \in [gen : Nat, base : Nat, ino : Nat, print : Seq(Seq(Int))]
  <2>1. Fingerprint(main.cache, tail.end) \in Seq(Seq(Int))
    BY <1>1, PrintType DEF Cell
  <2>2. QED
    BY <1>1, <1>2, <2>1
<1>4. s \in [gen : Nat, pos : Nat, at : Nat, count : Nat,
             begun : SUBSET [gen : Nat, base : Nat, ino : Nat, print : Seq(Seq(Int))]]
  <2> HIDE DEF b
  <2>1. {b} \in SUBSET [gen : Nat, base : Nat, ino : Nat, print : Seq(Seq(Int))]
    BY <1>3
  <2>2. QED
    BY <1>1, <1>2, <2>1
<1>5. /\ t \in TailType /\ t.end = tail.end /\ t.since = <<>> /\ t.sinceAt = tail.end
      /\ t.unmade = tail.unmade
  <2>1. <<>> \in Seq(Seq(Int))
    BY EmptySeq
  <2>2. tail \in TailType
    BY DEF TypeOK, TailType
  <2>3. QED
    BY <1>1, <2>1, <2>2 DEF TailType
<1>6. tail' = [t EXCEPT !.open = TRUE, !.direct = FALSE, !.slog = s]
  BY <1>5 DEF Begin
<1>7. /\ tail' \in TailType /\ tail'.open /\ ~tail'.direct /\ tail'.slog = s
      /\ tail'.end = tail.end /\ tail'.since = <<>> /\ tail'.sinceAt = tail.end
      /\ tail'.unmade = tail.unmade
  <2> HIDE DEF s, t
  <2>1. TRUE \in BOOLEAN /\ FALSE \in BOOLEAN
    OBVIOUS
  <2>2. QED
    <3>1. /\ tail'.open = TRUE /\ tail'.direct = FALSE /\ tail'.slog = s
          /\ tail' \in TailType /\ tail'.end = t.end /\ tail'.since = t.since
          /\ tail'.sinceAt = t.sinceAt /\ tail'.unmade = t.unmade
      BY <1>4, <1>5, <1>6, <2>1 DEF TailType
    <3>2. QED
      BY <1>5, <3>1
<1>8. /\ tail'.slog.gen = G + 1 /\ tail'.slog.at = tail.end /\ tail'.slog.count = 0
      /\ tail'.slog.begun = {b}
  <2>1. s.gen = G + 1 /\ s.at = tail.end /\ s.count = 0 /\ s.begun = {b}
    OBVIOUS
  <2> HIDE DEF s, b
  <2>2. QED
    BY <1>7, <2>1
<1>9. /\ \A h \in Heads(log', logDisk') : h.gen < G + 1 /\ h.gen <= G + 1
      /\ \A E \in Entries(log', logDisk') : E # <<>> =>
            /\ E[1].gen < G + 1 \/ E[1].at < tail.end
            /\ E[1].gen <= G + 1 \/ E[1].at < tail.end
  <2>1. \A a \in Nat : a <= G => a < G + 1 /\ a <= G + 1
    BY SMTT(60)
  <2>2. QED
    BY <2>1
<1>10. Begun(o)'
  <2>1. CleanTo(db, o, main', tail.end)
    OBVIOUS
  <2>2. b = [gen |-> tail'.slog.gen, base |-> tail'.sinceAt, ino |-> main'.ino,
             print |-> Fingerprint(main'.cache, tail'.sinceAt)]
    BY <1>7, <1>8
  <2> HIDE DEF b
  <2>3. QED
    BY <1>7, <1>8, <1>9, <2>1, <2>2 DEF Begun
<1>11. <<>> = SubSeq(main.cache, tail.end + 1, tail.end)
  <2>1. \A q \in Seq(Cell) : SubSeq(q, Len(q) + 1, Len(q)) = <<>>
    BY SMTT(60)
  <2>2. QED
    BY <1>1, <2>1
<1>12. \A p \in 1 .. tail.end : Safe(db, o, main', log', logDisk', p)
  BY DEF CleanTo, Safe
<1> HIDE DEF b, s, t
<1>13. QED
  BY <1>2, <1>7, <1>8, <1>9, <1>10, <1>11, <1>12 DEF Following

\* A sync that leaves the log as it is: every sync is the file's.
LEMMA DirectFollows ==
    ASSUME TypeOK, NEW o, Following(o), ~tail.open, main'.cache = main.cache,
           main'.ino = main.ino, log' = log, logDisk' = logDisk, NEW u \in BOOLEAN,
           tail' = [[tail EXCEPT !.since = <<>>, !.sinceAt = tail.end] EXCEPT !.unmade = u],
           disk'.by = "none", disk'.written = disk.written
    PROVE  Following(o)' /\ tail' \in TailType
<1>1. tail.direct /\ tail.end \in Nat
  BY UpTypes DEF Following
<1>2. <<>> \in Seq(Seq(Int))
  BY EmptySeq
<1>3. tail \in TailType
  BY DEF TypeOK, TailType
<1> DEFINE t == [tail EXCEPT !.since = <<>>, !.sinceAt = tail.end]
<1>4. t \in TailType /\ t.open = tail.open /\ t.direct = tail.direct /\ t.end = tail.end
  BY <1>1, <1>2, <1>3 DEF TailType
<1> HIDE DEF t
<1>5. tail' = [t EXCEPT !.unmade = u]
  BY DEF t
<1>6. /\ tail' \in TailType /\ tail'.open = t.open /\ tail'.direct = t.direct
      /\ tail'.end = t.end
  BY <1>4, <1>5 DEF TailType
<1>7. ~tail'.open /\ tail'.direct /\ tail'.end = tail.end
  BY <1>1, <1>4, <1>6
<1>8. /\ tail.end = Len(main.cache)
      /\ \A h \in log.head :
            /\ h.ino # main.ino
            /\ \A E \in Entries(log, logDisk) :
                  E # <<>> => \/ E[1].gen <= h.gen + 1
                              \/ E[1].at + disk.written <= tail.end
  BY DEF Following
<1>9. Following(o)'
  BY <1>7, <1>8 DEF Following
<1>10. QED
  BY <1>6, <1>9

\* The file's fsync: nothing of the log is needed after it.
LEMMA FileSyncKeeps ==
    ASSUME ~DropsPages, SinkCore, FileSync
    PROVE  SinkCore' /\ db' = db /\ Len(durable') \in Len(durable) .. Len(db)
<1>1. /\ TypeOK /\ Counts /\ db \in Taken /\ Len(db) \in Nat /\ Len(durable) \in Nat
      /\ Len(durable) <= Len(db)
  BY CoreTypes
<1>2. /\ proc = "up" /\ disk.by = "sync"
      /\ proc' = proc /\ db' = db /\ pending' = pending /\ appended' = appended
      /\ waiting' = waiting /\ stopped' = stopped /\ writes' = writes
  BY DEF FileSync
<1>3. PICK o \in -1 .. Len(db) : /\ Kept(db, o, main, log, logDisk, Len(durable))
                                 /\ OldKept(o) /\ Holding(o) /\ Following(o) /\ o \in Int
  BY <1>2, SyncStarts
<1>4. /\ FileKept(db, o, main) /\ LogKept(db, o, main, log, logDisk)
      /\ Reach(db, o, main, log, logDisk, Len(durable))
  BY <1>3 DEF Kept
<1>5. /\ \A i \in 1 .. Len(main.cache) : Good(db, o, i, main.cache[i])
      /\ \A h \in Heads(log, logDisk), E \in Entries(log, logDisk) : h.ino = main.ino =>
             \A k \in 1 .. Len(E) : Held(E, h, k) => EndOf(E[k]) <= Len(main.cache)
  BY <1>3 DEF Holding
<1> DEFINE t == [tail EXCEPT !.since = <<>>, !.sinceAt = tail.end]
<1>6. CASE main' = SyncData(main) /\ old' = {} /\ SyncDone /\
           ( \/ /\ ~Keeps \/ tail.unmade
                /\ tail' = t /\ UNCHANGED <<log, logDisk, budget>>
             \/ /\ Keeps /\ ~tail.open /\ ~tail.unmade /\ Spend("fail")
                /\ tail' = [t EXCEPT !.unmade = TRUE] /\ UNCHANGED <<log, logDisk>>
             \/ /\ Keeps /\ ~tail.open /\ ~tail.unmade
                /\ log' = (IF log.made THEN log ELSE EmptyLog)
                /\ logDisk' = (IF log.made THEN logDisk ELSE EmptyLog)
                /\ tail' = Begin(t, main, NewGeneration(log, logDisk)) /\ UNCHANGED budget
             \/ /\ Keeps /\ tail.open
                /\ tail' = Begin(t, main, tail.slog.gen)
                /\ UNCHANGED <<log, logDisk, budget>> )
  <2>1. main' = SyncData(main) /\ old' = {} /\ SyncDone
    BY <1>6
  <2>2. /\ FileKept(db, o, main') /\ Carried(db, o, main, db, main') /\ main'.ino = main.ino
        /\ main'.cache = main.cache /\ CleanTo(db, o, main', Len(main.cache))
        /\ LogKept(db, o, main', log, logDisk) /\ AllRetired(db, o, main', log, logDisk)
    BY <1>1, <1>4, <1>5, <2>1, AllSynced
  <2>3. Reach(db, o, main', log, logDisk, Len(durable))
    BY <1>1, <1>4, <2>2, CarriedLog
  <2>4. ASSUME NEW l, NEW ld
        PROVE  \A p \in 1 .. Len(main.cache) : Safe(db, o, main', l, ld, p)
    BY <2>2 DEF CleanTo, Safe
  <2>5. /\ disk'.by = "none" /\ disk'.written = disk.written
    BY <1>1, <2>1 DEF SyncDone, TypeOK
  <2>6. /\ tail.end = Len(main.cache) /\ tail.slog.gen \in Nat /\ tail.unmade \in BOOLEAN
        /\ tail.open \in BOOLEAN /\ tail.end \in Nat
    BY <1>1, <1>3, UpTypes DEF Following
  <2>7. LogPair(log, logDisk)
    BY <1>4 DEF LogKept
  <2>8. /\ \A h \in Heads(log, logDisk) : h.gen \in Nat
        /\ \A E \in Entries(log, logDisk) : E # <<>> => E[1].gen \in Nat /\ E[1].at \in Nat
                                                        /\ 1 \in 1 .. Len(E)
    <3>1. \A s \in Seq(Entry) : s # <<>> => 1 \in 1 .. Len(s)
      BY SMTT(60)
    <3>2. QED
      BY <2>7, <3>1, LogTypes
  <2>9. tail.open => /\ log.made /\ Keeps /\ ~tail.unmade
                     /\ \A h \in Heads(log, logDisk) : h.gen <= tail.slog.gen
                     /\ \A E \in Entries(log, logDisk) :
                           E # <<>> => E[1].gen <= tail.slog.gen \/ E[1].at < tail.end
    BY <1>3 DEF Following
  <2>10. budget' \in BudgetType
    <3>1. budget' = budget \/ Spend("fail")
      BY <1>6
    <3>2. budget \in BudgetType
      BY <1>1 DEF TypeOK, BudgetType
    <3>3. QED
      BY <1>1, <3>1, <3>2, SpendType
  <2>11. CASE log' = log /\ logDisk' = logDisk /\ Following(o)' /\ tail' \in TailType
    BY <1>2, <1>3, <1>5, <2>1, <2>2, <2>3, <2>4, <2>10, <2>11, SyncDoneKeeps
  <2>12. CASE ~tail.open /\ log' = log /\ logDisk' = logDisk
              /\ \E u \in BOOLEAN : tail' = [t EXCEPT !.unmade = u]
    BY <1>1, <1>3, <2>2, <2>5, <2>11, <2>12, DirectFollows
  <2>13. CASE (~Keeps \/ tail.unmade) /\ tail' = t /\ UNCHANGED <<log, logDisk, budget>>
    <3>1. ~tail.open
      BY <2>9, <2>13
    <3>2. t = [t EXCEPT !.unmade = tail.unmade]
      <4>1. t \in TailType /\ t.unmade = tail.unmade
        <5>1. <<>> \in Seq(Seq(Int))
          BY EmptySeq
        <5>2. tail \in TailType
          BY <1>1 DEF TypeOK, TailType
        <5>3. QED
          BY <2>6, <5>1, <5>2 DEF TailType
      <4> HIDE DEF t
      <4>2. QED
        BY SMTT(60), <4>1 DEF TailType
    <3>3. QED
      BY <2>6, <2>12, <2>13, <3>1, <3>2
  <2>14. CASE /\ Keeps /\ ~tail.open /\ ~tail.unmade /\ Spend("fail")
              /\ tail' = [t EXCEPT !.unmade = TRUE] /\ UNCHANGED <<log, logDisk>>
    BY <2>12, <2>14
  <2>15. CASE /\ Keeps /\ ~tail.open /\ ~tail.unmade
              /\ log' = (IF log.made THEN log ELSE EmptyLog)
              /\ logDisk' = (IF log.made THEN logDisk ELSE EmptyLog)
              /\ tail' = Begin(t, main, NewGeneration(log, logDisk)) /\ UNCHANGED budget
    <3> DEFINE G == NewGeneration(log, logDisk)
    <3>1. /\ G \in Nat
          /\ \A h \in log.head : G = h.gen + 1
          /\ \A h \in Heads(log, logDisk) : h.gen < G
          /\ log.head = {} => \A E \in Entries(log, logDisk) : \A i \in 1 .. Len(E) :
                                  E[i].gen < G
      BY <2>7, NewGenerationIs
    <3> HIDE DEF G
    <3>2. \A h \in Heads(log, logDisk) : h.gen \in Nat /\ h.gen <= G
      <4>1. \A a \in Nat : a < G => a <= G
        BY SMTT(60), <3>1
      <4>2. QED
        BY <2>8, <3>1, <4>1
    <3>3. \A E \in Entries(log, logDisk) : E # <<>> =>
              E[1].gen \in Nat /\ (E[1].gen <= G \/ E[1].at < tail.end)
      <4> SUFFICES ASSUME NEW E \in Entries(log, logDisk), E # <<>>
                   PROVE  E[1].gen <= G \/ E[1].at < tail.end
        BY <2>8
      <4>1. E[1].gen \in Nat /\ E[1].at \in Nat /\ 1 \in 1 .. Len(E)
        BY <2>8
      <4>2. CASE log.head = {}
        <5>1. E[1].gen < G
          BY <3>1, <4>1, <4>2
        <5>2. QED
          BY SMTT(60), <3>1, <4>1, <5>1
      <4>3. CASE log.head # {}
        <5>1. PICK h \in log.head : TRUE
          BY <4>3
        <5>2. G = h.gen + 1
          BY <3>1
        <5>3. E[1].gen <= h.gen + 1 \/ E[1].at + disk.written <= tail.end
          BY <1>3, <2>15 DEF Following
        <5>4. disk.synced < disk.upto /\ disk.upto <= disk.written
          BY <1>1, <1>2 DEF Counts
        <5>5. disk.synced \in Nat /\ disk.upto \in Nat /\ disk.written \in Nat
          BY <1>1, UpTypes
        <5>6. E[1].gen <= G \/ E[1].at + disk.written <= tail.end
          BY <5>2, <5>3
        <5>7. E[1].at + disk.written <= tail.end => E[1].at < tail.end
          BY SMTT(60), <2>6, <4>1, <5>4, <5>5
        <5>8. QED
          BY <5>6, <5>7
      <4>4. QED
        BY <4>2, <4>3
    <3>4. tail' = Begin(t, main, G)
      BY <2>15 DEF G
    <3>5. CASE log.made
      <4>1. log' = log /\ logDisk' = logDisk
        BY <2>15, <3>5
      <4>2. Following(o)' /\ tail' \in TailType
        BY <1>1, <1>2, <1>4, <2>2, <2>5, <2>6, <2>15, <3>1, <3>2, <3>3, <3>4, <3>5, <4>1,
           BeginFollows
      <4>3. QED
        BY <2>11, <4>1, <4>2
    <3>6. CASE ~log.made
      <4>1. log' = EmptyLog /\ logDisk' = EmptyLog
        BY <2>15, <3>6
      <4>2. log.head = {}
        BY <2>7, <3>6 DEF LogPair
      <4>3. /\ EmptyLog \in LogFile /\ EmptyLog.made /\ EmptyLog.head = {}
            /\ EmptyLog.entries = <<>>
        <5>1. <<>> \in Seq(Entry)
          BY EmptySeq
        <5>2. QED
          BY <5>1 DEF EmptyLog, LogFile
      <4>4. Heads(EmptyLog, EmptyLog) = {}
        BY <4>3 DEF Heads
      <4>5. LogPair(EmptyLog, EmptyLog)
        BY <4>3 DEF LogPair
      <4>6. /\ LogKept(db, o, main', EmptyLog, EmptyLog)
            /\ AllRetired(db, o, main', EmptyLog, EmptyLog)
        BY <4>4, <4>5 DEF LogKept, AllRetired
      <4>7. Reach(db, o, main', EmptyLog, EmptyLog, Len(durable))
        BY <2>3, <4>2, SafeIsClean DEF Reach, Safe
      <4>8. \A E \in Entries(EmptyLog, EmptyLog) : E = <<>>
        BY <4>3 DEF Entries
      <4>9. Following(o)' /\ tail' \in TailType
        BY <1>1, <1>2, <1>4, <2>2, <2>5, <2>6, <2>15, <3>1, <3>4, <4>1, <4>3, <4>4, <4>6,
           <4>8, BeginFollows
      <4>10. QED
        BY <1>2, <1>3, <2>1, <2>2, <2>4, <2>10, <4>1, <4>4, <4>6, <4>7, <4>9, SyncDoneKeeps
    <3>7. QED
      BY <3>5, <3>6
  <2>16. CASE /\ Keeps /\ tail.open
              /\ tail' = Begin(t, main, tail.slog.gen)
              /\ UNCHANGED <<log, logDisk, budget>>
    <3>1. Following(o)' /\ tail' \in TailType
      BY <1>1, <1>2, <1>4, <2>2, <2>5, <2>6, <2>8, <2>9, <2>16, BeginFollows
    <3>2. QED
      BY <2>11, <2>16, <3>1
  <2>17. QED
    BY <1>6, <2>13, <2>14, <2>15, <2>16
<1>7. CASE SyncFailed /\ main' \in FailedSync(main) /\ UNCHANGED <<old, log, logDisk>>
  <2>1. /\ disk' = [disk EXCEPT !.by = "none", !.upto = 0, !.holds = 0, !.failed = TRUE]
        /\ tail' = tail /\ durable' = durable /\ Spend("fail")
        /\ old' = old /\ log' = log /\ logDisk' = logDisk
    BY <1>7 DEF SyncFailed
  <2>2. budget' \in BudgetType
    BY <1>1, <2>1, SpendType
  <2>3. FileKept(db, o, main') /\ Carried(db, o, main, db, main')
    BY <1>1, <1>4, <1>7, FailedKept
  <2>4. disk'.failed
    BY <1>1, <2>1 DEF TypeOK
  <2>5. Kept(db', o, main', log', logDisk', Len(durable')) /\ OldKept(o)'
    BY <1>1, <1>2, <1>3, <2>1, <2>3, <2>4, CarriedKeeps
  <2>6. pending' \in {pending, <<>>} /\ waiting' \subseteq waiting
    BY <1>2
  <2>7. SinkCore'
    BY <1>1, <1>2, <2>1, <2>2, <2>5, <2>6, FailedCore
  <2>8. Len(durable) \in Len(durable) .. Len(db)
    BY SMTT(60), <1>1
  <2>9. QED
    BY <1>2, <2>1, <2>7, <2>8
<1>8. QED
  BY <1>6, <1>7 DEF FileSync

------------------------------------------------------------------------------
(* A rewrite.                                                              *)

\* No log is one.
LEMMA NoLogPair == NoLog \in LogFile /\ ~NoLog.made /\ NoLog.head = {} /\ NoLog.entries = <<>>
                   /\ LogPair(NoLog, NoLog) /\ Heads(NoLog, NoLog) = {}
<1>1. <<>> \in Seq(Entry)
  BY EmptySeq
<1>2. NoLog \in LogFile /\ ~NoLog.made /\ NoLog.head = {} /\ NoLog.entries = <<>>
  BY <1>1 DEF NoLog, LogFile
<1>3. QED
  BY <1>2 DEF LogPair, Heads

\* The log forgotten for an image: the file needs nothing of it.
LEMMA ForgetLogKeeps ==
    ASSUME SinkCore, ForgetLog
    PROVE  SinkCore'
<1>1. TypeOK /\ Counts /\ db \in Taken /\ Len(db) \in Nat
  BY CoreTypes
<1>2. /\ proc = "up" /\ disk.by = "image" /\ old' = old /\ proc' = proc /\ db' = db
      /\ pending' = pending /\ appended' = appended /\ waiting' = waiting
      /\ stopped' = stopped /\ durable' = durable /\ writes' = writes /\ budget' = budget
      /\ tail' = [tail EXCEPT !.open = FALSE] /\ disk' = [disk EXCEPT !.by = "forgot"]
  BY DEF ForgetLog
<1>3. PICK o \in -1 .. Len(db) : /\ Kept(db, o, main, log, logDisk, Len(durable))
                                 /\ OldKept(o) /\ Going(o)
  BY DEF SinkCore
<1>4. ~disk.failed
  BY <1>1, <1>2 DEF Counts
<1>5. Holding(o) /\ Following(o)
  BY <1>2, <1>3, <1>4 DEF Going
<1>6. /\ disk'.by = "forgot" /\ disk'.written = disk.written /\ disk'.synced = disk.synced
      /\ disk'.failed = disk.failed
      /\ disk' \in [by : {"none", "sync", "log", "image", "forgot", "renamed"}, upto : Nat,
                    holds : Nat, written : Nat, synced : Nat, failed : BOOLEAN]
  BY <1>1, <1>2 DEF TypeOK
<1>7. tail' \in TailType /\ tail'.open = FALSE
  <2>1. tail \in TailType /\ FALSE \in BOOLEAN
    BY <1>1 DEF TypeOK, TailType
  <2>2. QED
    BY <1>2, <2>1 DEF TailType
<1>8. TypeOK' /\ Counts'
  BY <1>1, <1>2, <1>6, <1>7 DEF TypeOK, Counts, TailType
<1>9. /\ FileKept(db, o, main) /\ LogKept(db, o, main, log, logDisk)
  BY <1>3 DEF Kept
<1>10. CASE tail.open \/ log.made
  <2>1. main' = SyncData(main) /\ log' = NoLog /\ logDisk' = NoLog
    BY <1>10 DEF ForgetLog
  <2>2. log.made
    BY <1>5, <1>10 DEF Following
  <2>3. old = {}
    BY <1>3, <2>2, NoLogPair DEF OldKept
  <2>4. /\ \A i \in 1 .. Len(main.cache) : Good(db, o, i, main.cache[i])
        /\ \A h \in Heads(log, logDisk), E \in Entries(log, logDisk) : h.ino = main.ino =>
               \A k \in 1 .. Len(E) : Held(E, h, k) => EndOf(E[k]) <= Len(main.cache)
    BY <1>5 DEF Holding
  <2>5. ASSUME NEW n, Kept(db, o, main, log, logDisk, n)
        PROVE  Kept(db, o, main', NoLog, NoLog, n)
    <3>1. Kept(db, o, main', NoLog, logDisk, n)
      BY <1>1, <2>1, <2>4, <2>5, ForgottenKept
    <3>2. /\ LogKept(db, o, main', NoLog, NoLog)
          /\ \A p : Safe(db, o, main', NoLog, logDisk, p) => Safe(db, o, main', NoLog, NoLog, p)
      BY <3>1, LogSyncKept DEF Kept
    <3>3. QED
      BY <3>1, <3>2 DEF Kept, Reach
  <2>6. Kept(db', o, main', log', logDisk', Len(durable'))
    BY <1>2, <1>3, <2>1, <2>5
  <2>7. main'.cache = main.cache /\ main'.ino = main.ino
    BY <1>1, <1>9, <2>1, SyncKept
  <2>8. Holding(o)'
    <3>1. disk.synced > 0 => Reach(db, o, main', NoLog, NoLog, Len(db) - appended + disk.synced)
      BY <1>5, <1>9, <2>5 DEF Holding, Kept
    <3>2. /\ \A i \in 1 .. Len(main.cache) : Good(db, o, i, main.cache[i])
          /\ \A j \in 1 .. Len(pending) : Good(db, o, Len(main.cache) + j, pending[j])
          /\ o + Len(main.cache) + Len(pending) = Len(db)
          /\ disk.written + Len(pending) = appended
      BY <1>5 DEF Holding
    <3>3. \A h \in Heads(log', logDisk') : FALSE
      BY <2>1, NoLogPair
    <3>4. /\ disk'.synced = disk.synced /\ disk'.written = disk.written /\ db' = db
          /\ pending' = pending /\ appended' = appended /\ main'.cache = main.cache
          /\ log' = NoLog /\ logDisk' = NoLog
      BY <1>2, <1>6, <2>1, <2>7
    <3>5. QED
      BY SMTT(60), <3>1, <3>2, <3>3, <3>4 DEF Holding
  <2>9. OldKept(o)' /\ Opening(o)' /\ Going(o)'
    BY <1>2, <1>6, <1>7, <2>1, <2>3, <2>8 DEF OldKept, Opening, Going
  <2>10. QED
    BY <1>2, <1>8, <2>6, <2>9 DEF SinkCore
<1>11. CASE ~(tail.open \/ log.made)
  <2>1. main' = main /\ log' = log /\ logDisk' = logDisk
    BY <1>11 DEF ForgetLog
  <2>2. log = NoLog
    <3>1. log \in LogFile /\ log.head = {} /\ log.entries = <<>> /\ log.made \in BOOLEAN
      BY <1>9, <1>11 DEF LogKept, LogPair, LogFile
    <3>2. log.made = FALSE
      BY <1>11, <3>1
    <3>3. log = [made |-> log.made, head |-> log.head, entries |-> log.entries]
      BY <3>1 DEF LogFile
    <3>4. QED
      BY <3>1, <3>2, <3>3 DEF NoLog
  <2>3. Holding(o)'
    BY <1>2, <1>5, <1>6, <2>1 DEF Holding
  <2>4. OldKept(o)'
    BY <1>2, <1>3, <1>4, <1>6, <2>1 DEF OldKept
  <2>5. Opening(o)' /\ Going(o)'
    BY <1>2, <1>6, <1>7, <2>1, <2>2, <2>3 DEF Opening, Going
  <2>6. Kept(db', o, main', log', logDisk', Len(durable'))
    BY <1>2, <1>3, <2>1
  <2>7. QED
    BY <1>2, <1>8, <2>4, <2>5, <2>6 DEF SinkCore
<1>12. QED
  BY <1>10, <1>11

\* The image renamed in: the file holds every write taken, and the one it
\* replaced is as it was.
LEMMA RenameKeeps ==
    ASSUME SinkCore, Rename
    PROVE  SinkCore'
<1>1. /\ TypeOK /\ Counts /\ db \in Taken /\ Len(db) \in Nat /\ Len(durable) \in Nat
      /\ Len(durable) <= Len(db) /\ db \in Seq(1 .. MaxWrites)
  BY CoreTypes
<1>2. /\ proc = "up" /\ disk.by = "forgot" /\ main' = OnDisk(main.ino + 1, <<db>>)
      /\ old' = old \cup {[file |-> main, log |-> logDisk]} /\ logDisk' = log /\ log' = log
      /\ disk' = [disk EXCEPT !.by = "renamed"] /\ proc' = proc /\ db' = db
      /\ pending' = pending /\ appended' = appended /\ tail' = tail /\ waiting' = waiting
      /\ stopped' = stopped /\ durable' = durable /\ writes' = writes /\ budget' = budget
  BY DEF Rename
<1>3. PICK o \in -1 .. Len(db) : /\ Kept(db, o, main, log, logDisk, Len(durable))
                                 /\ OldKept(o) /\ Going(o)
  BY DEF SinkCore
<1>4. ~disk.failed
  BY <1>1, <1>2 DEF Counts
<1>5. log = NoLog /\ ~tail.open
  BY <1>2, <1>3, <1>4 DEF Going
<1>6. FileKept(db, o, main)
  BY <1>3 DEF Kept
<1>7. o \in Int /\ main.ino \in Nat
  BY <1>1, <1>6, FileTypes
<1> DEFINE ino == main.ino + 1
<1>8. PICK m \in -1 .. Len(db) : /\ m \in Int /\ m + 1 >= 0 /\ m <= Len(db) /\ ino \in Nat
                                 /\ m + 1 = Len(db)
  <2>1. /\ Len(db) - 1 \in -1 .. Len(db) /\ Len(db) - 1 \in Int /\ (Len(db) - 1) + 1 >= 0
        /\ Len(db) - 1 <= Len(db) /\ ino \in Nat /\ (Len(db) - 1) + 1 = Len(db)
    BY SMTT(60), <1>1, <1>7
  <2>2. QED
    BY <2>1
<1>9. Good(db, m, 1, db)
  <2>1. db = SubSeq(db, 1, Len(db))
    BY <1>1, SubSeqFull
  <2>2. Len(db) \in 0 .. Len(db)
    BY SMTT(60), <1>1
  <2>3. QED
    BY <1>8, <2>1, <2>2 DEF Good
<1> HIDE DEF ino
<1>10. /\ <<db>> \in Seq(Cell) /\ Len(<<db>>) = 1 /\ <<db>>[1] = db
       /\ \A i \in 1 .. Len(<<db>>) : i = 1
  <2>1. db \in Cell
    <3>1. 1 \in Int
      BY SMTT(60)
    <3>2. QED
      BY <1>1, <1>8, <1>9, <3>1, GoodRecord
  <2>2. \A c \in Cell : /\ <<c>> \in Seq(Cell) /\ Len(<<c>>) = 1 /\ <<c>>[1] = c
                        /\ \A i \in 1 .. Len(<<c>>) : i = 1
    BY SMTT(60)
  <2>3. QED
    BY <2>1, <2>2
<1>11. /\ FileKept(db, m, main') /\ LogKept(db, m, main', NoLog, NoLog)
       /\ CleanTo(db, m, main', Len(<<db>>))
       /\ \A n \in Nat : n <= m + Len(<<db>>) => Reach(db, m, main', NoLog, NoLog, n)
  <2>1. /\ \A i \in 1 .. Len(<<db>>) : Good(db, m, i, <<db>>[i])
        /\ m # 0 => Len(<<db>>) > 0
    <3>1. 1 > 0
      BY SMTT(60)
    <3>2. QED
      BY <1>9, <1>10, <3>1
  <2>2. main' = OnDisk(ino, <<db>>)
    BY <1>2 DEF ino
  <2>3. QED
    BY <1>1, <1>8, <1>10, <2>1, <2>2, NoLogPair, NewFileKept
<1>12. Kept(db', m, main', log', logDisk', Len(durable'))
  <2>1. Len(durable) <= m + Len(<<db>>)
    BY <1>1, <1>8, <1>10
  <2>2. QED
    BY <1>1, <1>2, <1>5, <1>11, <2>1 DEF Kept
<1>13. main'.cache = <<db>> /\ main'.disk = <<db>> /\ main'.ino = main.ino + 1
       /\ main' = OnDisk(main'.ino, <<db>>)
  BY <1>2 DEF OnDisk
<1>14. /\ disk'.by = "renamed" /\ disk'.written = disk.written /\ disk'.synced = disk.synced
       /\ disk'.failed = disk.failed
       /\ disk' \in [by : {"none", "sync", "log", "image", "forgot", "renamed"}, upto : Nat,
                     holds : Nat, written : Nat, synced : Nat, failed : BOOLEAN]
  BY <1>1, <1>2 DEF TypeOK
<1>15. TypeOK' /\ Counts'
  BY <1>1, <1>2, <1>14 DEF TypeOK, Counts
<1>16. OldKept(m)'
  <2>1. Clean(db, m, main', 1)
    <3>1. 1 \in 1 .. Len(<<db>>)
      BY SMTT(60), <1>10
    <3>2. QED
      BY <1>11, <3>1 DEF CleanTo
  <2>2. main'.cache[1] = db
    BY <1>10, <1>13
  <2>3. ASSUME NEW q \in old'
        PROVE  \E p \in -1 .. Len(db) : Kept(db, p, q.file, NoLog, q.log, Len(durable))
    <3>1. CASE q \in old
      <4>1. /\ Clean(db, o, main, 1)
            /\ \E p \in -1 .. Len(db) :
                  Kept(main.cache[1], p, q.file, NoLog, q.log, Len(durable))
        BY <1>3, <3>1 DEF OldKept
      <4>2. PICK p \in -1 .. Len(db) :
                Kept(main.cache[1], p, q.file, NoLog, q.log, Len(durable))
        BY <4>1
      <4> DEFINE k == o + 1
                 d == SubSeq(db, 1, k)
      <4>3. k \in 0 .. Len(db) /\ main.cache[1] = d
        BY <4>1 DEF Clean, Good
      <4>4. d \in Taken
        <5> HIDE DEF k
        <5>1. QED
          BY <1>1, <1>7, <4>3, GoodCut
      <4>5. FileKept(d, p, q.file)
        BY <4>2, <4>3 DEF Kept
      <4>6. FileKept(db, p, q.file) /\ Carried(d, p, q.file, db, q.file)
        <5> HIDE DEF k
        <5>1. QED
          BY <1>1, <4>3, <4>5, Grown
      <4>7. Kept(d, p, q.file, NoLog, q.log, Len(durable))
        BY <4>2, <4>3
      <4> HIDE DEF d
      <4>8. Kept(db, p, q.file, NoLog, q.log, Len(durable))
        BY <1>1, <4>4, <4>6, <4>7, KeptCarried
      <4>9. QED
        BY <4>8
    <3>2. CASE q = [file |-> main, log |-> logDisk]
      <4>1. q.file = main /\ q.log = logDisk
        BY <3>2
      <4>2. QED
        BY <1>3, <1>5, <4>1
    <3>3. QED
      BY <1>2, <2>3, <3>1, <3>2
  <2>4. QED
    BY <1>2, <1>5, <1>14, <2>1, <2>2, <2>3 DEF OldKept
<1>17. Opening(m)' /\ Going(m)'
  BY <1>2, <1>5, <1>8, <1>13, <1>14 DEF Opening, Going
<1>18. m \in -1 .. Len(db')
  BY <1>2, <1>8
<1>19. QED
  BY <1>12, <1>15, <1>16, <1>17, <1>18 DEF SinkCore

\* The directory synced: what was pending is in the image.
LEMMA SwapInKeeps ==
    ASSUME SinkCore, SwapIn
    PROVE  SinkCore'
<1>1. TypeOK /\ Counts /\ db \in Taken /\ Len(db) \in Nat
  BY CoreTypes
<1>2. /\ proc = "up" /\ disk.by = "renamed" /\ old' = {} /\ pending' = <<>>
      /\ tail' = ResetTail(tail, Len(main.cache))
      /\ disk' = [disk EXCEPT !.by = "none", !.written = appended, !.synced = appended]
      /\ main' = main /\ log' = log /\ logDisk' = logDisk /\ proc' = proc /\ db' = db
      /\ appended' = appended /\ waiting' = waiting
      /\ stopped' = stopped /\ durable' = durable /\ writes' = writes /\ budget' = budget
  BY DEF SwapIn
<1>3. PICK o \in -1 .. Len(db) : /\ Kept(db, o, main, log, logDisk, Len(durable))
                                 /\ OldKept(o) /\ Going(o)
  BY DEF SinkCore
<1>4. ~disk.failed
  BY <1>1, <1>2 DEF Counts
<1>5. /\ log = NoLog /\ logDisk = NoLog /\ ~tail.open /\ main = OnDisk(main.ino, <<db>>)
      /\ o + 1 = Len(db)
  BY <1>2, <1>3, <1>4 DEF Going
<1>6. main.cache = <<db>> /\ main.disk = <<db>>
  <2> DEFINE x == OnDisk(main.ino, <<db>>)
  <2>1. x.cache = <<db>> /\ x.disk = <<db>>
    BY DEF OnDisk
  <2>2. main = x
    BY <1>5
  <2> HIDE DEF x
  <2>3. QED
    BY <2>1, <2>2
<1>7. FileKept(db, o, main)
  BY <1>3 DEF Kept
<1>8. o \in Int /\ main.cache \in Seq(Cell)
  BY <1>1, <1>7, FileTypes
<1>9. /\ Len(main.cache) = 1 /\ Len(main.disk) = 1 /\ main.cache[1] = db /\ main.disk[1] = db
      /\ 1 \in Nat /\ 0 \in Nat /\ Len(<<>>) = 0 /\ 1 .. 0 = {} /\ 1 .. 1 = {1}
  <2>1. Len(<<db>>) = 1 /\ <<db>>[1] = db
    BY SMTT(60)
  <2>2. 1 \in Nat /\ 0 \in Nat /\ Len(<<>>) = 0 /\ 1 .. 0 = {} /\ 1 .. 1 = {1}
    BY SMTT(60)
  <2>3. QED
    BY <1>6, <2>1, <2>2
<1>10. Good(db, o, 1, db)
  <2>1. db = SubSeq(db, 1, Len(db))
    BY <1>1, SubSeqFull DEF TypeOK
  <2>2. Len(db) \in 0 .. Len(db)
    BY SMTT(60), <1>1
  <2>3. QED
    BY <1>5, <2>1, <2>2 DEF Good
<1>11. /\ disk'.by = "none" /\ disk'.written = appended /\ disk'.synced = appended
       /\ disk'.failed = disk.failed /\ appended \in Nat
       /\ disk' \in [by : {"none", "sync", "log", "image", "forgot", "renamed"}, upto : Nat,
                     holds : Nat, written : Nat, synced : Nat, failed : BOOLEAN]
  BY <1>1, <1>2 DEF TypeOK
<1>12. /\ tail' \in TailType /\ tail'.open = tail.open /\ tail'.direct = TRUE /\ tail'.end = 1
  <2>1. tail \in TailType /\ TRUE \in BOOLEAN
    BY <1>1 DEF TypeOK, TailType
  <2>2. <<>> \in Seq(Seq(Int))
    BY EmptySeq
  <2>3. tail' = [tail EXCEPT !.end = 1, !.since = <<>>, !.sinceAt = 1, !.direct = TRUE]
    BY <1>2, <1>9 DEF ResetTail
  <2>4. QED
    BY <1>9, <2>1, <2>2, <2>3 DEF TailType
<1>13. TypeOK' /\ Counts'
  <2>1. pending' \in Seq(Seq(Int))
    BY <1>2, EmptySeq
  <2>2. disk'.synced <= disk'.written /\ disk'.written <= appended'
    BY SMTT(60), <1>2, <1>11
  <2>3. TypeOK'
    BY <1>1, <1>2, <1>11, <1>12, <2>1, <2>2 DEF TypeOK, TailType
  <2>4. Counts'
    BY <1>1, <1>2, <1>11 DEF Counts
  <2>5. QED
    BY <2>3, <2>4
<1>14. Clean(db, o, main, 1)
  BY <1>9, <1>10 DEF Clean
<1>15. Holding(o)'
  <2>1. /\ \A i \in 1 .. Len(main.cache) : Good(db, o, i, main.cache[i])
        /\ \A j \in 1 .. Len(pending') : Good(db, o, Len(main.cache) + j, pending'[j])
    BY <1>2, <1>9, <1>10
  <2>2. /\ (o + Len(main.cache)) + Len(pending') = Len(db)
        /\ disk'.written + Len(pending') = appended
    <3>1. Len(main.cache) = 1 /\ Len(pending') = 0 /\ disk'.written = appended
      BY <1>2, <1>9, <1>11
    <3>2. QED
      BY SMTT(60), <1>1, <1>5, <1>8, <1>11, <3>1
  <2>3. \A h \in Heads(log', logDisk') : FALSE
    BY <1>2, <1>5, NoLogPair
  <2>4. Reach(db, o, main, NoLog, NoLog, (Len(db) - appended) + disk'.synced)
    <3>1. ((Len(db) - appended) + disk'.synced) - o = 1
      <4>1. disk'.synced = appended
        BY <1>11
      <4>2. QED
        BY SMTT(60), <1>1, <1>5, <1>8, <1>11, <4>1
    <3>2. QED
      BY <1>9, <1>14, <3>1 DEF Reach, Safe
  <2>5. QED
    BY <1>2, <1>5, <2>1, <2>2, <2>3, <2>4 DEF Holding
<1>16. Following(o)'
  BY <1>2, <1>5, <1>9, <1>11, <1>12, NoLogPair DEF Following
<1>17. OldKept(o)' /\ Opening(o)' /\ Going(o)'
  BY <1>2, <1>11, <1>15, <1>16 DEF OldKept, Opening, Going
<1>18. Kept(db', o, main', log', logDisk', Len(durable'))
  BY <1>2, <1>3
<1>19. QED
  BY <1>2, <1>13, <1>17, <1>18 DEF SinkCore

\* Any of it failed: the sink is, and the file is as a sync or a rename left it.
LEMMA SwapFailsKeeps ==
    ASSUME ~DropsPages, SinkCore, SwapFails
    PROVE  SinkCore'
<1>1. TypeOK /\ Counts /\ db \in Taken /\ Len(db) \in Nat
  BY CoreTypes
<1>2. /\ proc = "up" /\ disk.by \in {"image", "forgot", "renamed"} /\ Spend("fail")
      /\ pending' = <<>> /\ disk' = [disk EXCEPT !.by = "none", !.failed = TRUE]
      /\ old' = old /\ logDisk' = logDisk /\ proc' = proc /\ db' = db
      /\ appended' = appended /\ tail' = tail /\ waiting' = waiting
      /\ stopped' = stopped /\ durable' = durable /\ writes' = writes
  BY DEF SwapFails
<1>3. PICK o \in -1 .. Len(db) : /\ Kept(db, o, main, log, logDisk, Len(durable))
                                 /\ OldKept(o) /\ Going(o)
  BY DEF SinkCore
<1>4. FileKept(db, o, main)
  BY <1>3 DEF Kept
<1>5. o \in Int
  BY <1>1, <1>4, FileTypes
<1>6. budget' \in BudgetType /\ pending' \in {pending, <<>>} /\ waiting' \subseteq waiting
  BY <1>1, <1>2, SpendType
<1>7. disk'.failed
  BY <1>1, <1>2 DEF TypeOK
<1>8. CASE /\ disk.by = "image" /\ (tail.open \/ log.made)
           /\ main' \in FailedSync(main)
           /\ log' \in IF main' = SyncData(main) THEN {log, NoLog} ELSE {log}
  <2>1. ~disk.failed
    BY <1>1, <1>8 DEF Counts
  <2>2. Holding(o) /\ Following(o)
    BY <1>2, <1>3, <1>8, <2>1 DEF Going
  <2>3. old = {}
    <3>1. log.made
      BY <1>8, <2>2 DEF Following
    <3>2. QED
      BY <1>3, <3>1, NoLogPair DEF OldKept
  <2>4. OldKept(o)'
    BY <1>2, <2>3 DEF OldKept
  <2>5. Kept(db', o, main', log', logDisk', Len(durable'))
    <3>1. CASE log' = log
      <4>1. FileKept(db, o, main') /\ Carried(db, o, main, db, main')
        BY <1>1, <1>4, <1>8, FailedKept
      <4>2. QED
        BY <1>1, <1>2, <1>3, <1>5, <1>7, <3>1, <4>1, CarriedKeeps
    <3>2. CASE log' = NoLog /\ main' = SyncData(main)
      <4>1. /\ \A i \in 1 .. Len(main.cache) : Good(db, o, i, main.cache[i])
            /\ \A h \in Heads(log, logDisk), E \in Entries(log, logDisk) : h.ino = main.ino =>
                   \A k \in 1 .. Len(E) : Held(E, h, k) => EndOf(E[k]) <= Len(main.cache)
        BY <2>2 DEF Holding
      <4>2. QED
        BY <1>1, <1>2, <1>3, <3>2, <4>1, ForgottenKept
    <3>3. QED
      BY <1>8, <3>1, <3>2
  <2>6. QED
    BY <1>1, <1>2, <1>6, <2>4, <2>5, FailedCore
<1>9. CASE main' = main /\ log' = log
  <2>1. OldKept(o)'
    BY <1>2, <1>3, <1>7, <1>9 DEF OldKept
  <2>2. Kept(db', o, main', log', logDisk', Len(durable'))
    BY <1>2, <1>3, <1>9
  <2>3. QED
    BY <1>1, <1>2, <1>6, <2>1, <2>2, FailedCore
<1>10. QED
  BY <1>8, <1>9 DEF SwapFails

------------------------------------------------------------------------------
(* What the invariant says.                                                *)

\* A sink made over no file.
LEMMA InitCore == Init => SinkCore
<1> SUFFICES ASSUME Init PROVE SinkCore
  OBVIOUS
<1>1. /\ main = OnDisk(0, <<>>) /\ old = {} /\ log = NoLog /\ logDisk = NoLog /\ proc = "up"
      /\ db = <<>> /\ pending = <<>> /\ appended = 0 /\ disk = FreeDisk /\ tail = NewTail(0)
      /\ waiting = {} /\ stopped = FALSE /\ durable = <<>> /\ writes = 0 /\ budget \in BudgetType
  BY SinkAssumption DEF Init, BudgetType
<1>2. /\ 0 \in Nat /\ 0 \in Int /\ 0 + 1 >= 0 /\ 0 <= 0 /\ 0 + 0 = 0 /\ 0 - 0 = 0 /\ ~(0 > 0)
      /\ 0 \in -1 .. 0 /\ 1 .. 0 = {} /\ SubSeq(<<>>, 1, 0) = <<>> /\ Len(<<>>) = 0
  BY SMTT(60)
<1>3. <<>> \in Seq(1 .. MaxWrites) /\ <<>> \in Seq(Cell) /\ <<>> \in Seq(Seq(Int))
  BY EmptySeq
<1>4. <<>> \in Taken /\ 0 \in 0 .. MaxWrites
  <2>1. 0 \in 0 .. MaxWrites
    BY SMTT(60), SinkAssumption
  <2>2. QED
    BY <1>3, <2>1, WritesTaken
<1>5. Kept(db, 0, main, log, logDisk, Len(durable))
  <2>1. /\ FileKept(<<>>, 0, main) /\ LogKept(<<>>, 0, main, NoLog, NoLog)
        /\ \A n \in Nat : n <= 0 + Len(<<>>) => Reach(<<>>, 0, main, NoLog, NoLog, n)
    <3>1. ASSUME NEW d \in Taken, Len(d) = 0, NEW c \in Seq(Cell), Len(c) = 0, NEW o \in Int,
                 o = 0, NEW ino \in Nat
          PROVE  /\ FileKept(d, o, OnDisk(ino, c)) /\ LogKept(d, o, OnDisk(ino, c), NoLog, NoLog)
                 /\ \A n \in Nat : n <= o + Len(c) => Reach(d, o, OnDisk(ino, c), NoLog, NoLog, n)
      <4>1. \A i \in 1 .. Len(c) : Good(d, o, i, c[i])
        BY <1>2, <3>1
      <4>2. o + 1 >= 0 /\ o <= Len(d) /\ (o # 0 => Len(c) > 0)
        BY <1>2, <3>1
      <4>3. QED
        BY <3>1, <4>1, <4>2, NoLogPair, NewFileKept
    <3>2. QED
      BY <1>1, <1>2, <1>3, <1>4, <3>1
  <2>2. 0 <= 0 + Len(<<>>)
    BY <1>2
  <2>3. Reach(<<>>, 0, main, NoLog, NoLog, 0)
    BY <1>2, <2>1, <2>2
  <2>4. Kept(<<>>, 0, main, NoLog, NoLog, 0)
    BY <2>1, <2>3 DEF Kept
  <2>5. db = <<>> /\ log = NoLog /\ logDisk = NoLog /\ Len(durable) = 0
    BY <1>1, <1>2
  <2>6. QED
    BY <2>4, <2>5
<1>6. /\ disk.by = "none" /\ disk.upto = 0 /\ disk.holds = 0 /\ disk.written = 0
      /\ disk.synced = 0 /\ disk.failed = FALSE
      /\ disk \in [by : {"none", "sync", "log", "image", "forgot", "renamed"}, upto : Nat,
                   holds : Nat, written : Nat, synced : Nat, failed : BOOLEAN]
  BY <1>1, <1>2 DEF FreeDisk
<1>7. /\ tail.open = FALSE /\ tail.direct = TRUE /\ tail.end = 0
      /\ tail \in TailType
  <2>1. NoSyncLog \in [gen : Nat, pos : Nat, at : Nat, count : Nat,
             begun : SUBSET [gen : Nat, base : Nat, ino : Nat, print : Seq(Seq(Int))]]
    BY <1>2 DEF NoSyncLog
  <2>2. QED
    BY <1>1, <1>2, <1>3, <2>1 DEF NewTail, TailType
<1>8. TypeOK
  <2>1. disk.synced <= disk.written /\ disk.written <= appended
    BY <1>1, <1>2, <1>6
  <2>2. QED
    BY <1>1, <1>2, <1>3, <1>4, <1>6, <1>7, <2>1 DEF TypeOK, TailType, BudgetType
<1>9. Counts
  BY <1>1, <1>2, <1>6 DEF Counts
<1>10. main.cache = <<>>
  BY <1>1 DEF OnDisk
<1>11. Holding(0)
  <2>1. Heads(log, logDisk) = {}
    BY <1>1, NoLogPair
  <2>2. 0 + Len(main.cache) + Len(pending) = Len(db) /\ disk.written + Len(pending) = appended
    BY <1>1, <1>2, <1>6, <1>10
  <2>3. QED
    BY <1>1, <1>2, <1>6, <1>10, <2>1, <2>2 DEF Holding
<1>12. Following(0)
  BY <1>1, <1>2, <1>6, <1>7, <1>10, NoLogPair DEF Following
<1>13. OldKept(0) /\ Opening(0) /\ Going(0)
  BY <1>1, <1>6, <1>11, <1>12 DEF OldKept, Opening, Going
<1>14. 0 \in -1 .. Len(db)
  BY <1>1, <1>2
<1>15. QED
  BY <1>5, <1>8, <1>9, <1>13, <1>14 DEF SinkCore

\* The file and what is pending hold every write taken, each once and in order.
LEMMA CoreHolds ==
    ASSUME SinkCore
    PROVE  FileHolds
<1>1. /\ TypeOK /\ db \in Taken /\ Len(db) \in Nat
  BY CoreTypes
<1> SUFFICES ASSUME proc = "up", ~disk.failed, disk.by \in {"none", "sync", "log"}
             PROVE  LET cells == main.cache \o pending
                    IN  /\ Content(cells) = db
                        /\ \A i \in 2 .. Len(cells) :
                              SubSeq(cells[i], 1, Len(cells[i]) - 1) = cells[i - 1]
  BY DEF FileHolds
<1>2. PICK o \in -1 .. Len(db) : Kept(db, o, main, log, logDisk, Len(durable)) /\ Going(o)
  BY DEF SinkCore
<1>3. Holding(o) /\ FileKept(db, o, main)
  BY <1>2 DEF Going, Kept
<1>4. /\ o \in Int /\ o + 1 >= 0 /\ main.cache \in Seq(Cell) /\ pending \in Seq(Cell)
      /\ Len(main.cache) \in Nat /\ Len(pending) \in Nat
      /\ Len(main.disk) \in Nat /\ Len(main.disk) <= Len(main.cache)
  BY <1>1, <1>3, FileTypes, UpTypes
<1> DEFINE a == main.cache
           b == pending
           cells == a \o b
           n == Len(cells)
<1>5. /\ cells \in Seq(Cell) /\ n = Len(a) + Len(b) /\ n \in Nat
      /\ \A i \in 1 .. n : /\ i <= Len(a) => i \in 1 .. Len(a) /\ cells[i] = a[i]
                           /\ i > Len(a) => /\ i - Len(a) \in 1 .. Len(b)
                                            /\ cells[i] = b[i - Len(a)]
                                            /\ Len(a) + (i - Len(a)) = i
  <2>1. \A s, t \in Seq(Cell) :
            /\ s \o t \in Seq(Cell) /\ Len(s \o t) = Len(s) + Len(t) /\ Len(s \o t) \in Nat
            /\ \A i \in 1 .. Len(s \o t) :
                  /\ i <= Len(s) => i \in 1 .. Len(s) /\ (s \o t)[i] = s[i]
                  /\ i > Len(s) => /\ i - Len(s) \in 1 .. Len(t)
                                   /\ (s \o t)[i] = t[i - Len(s)]
                                   /\ Len(s) + (i - Len(s)) = i
    BY SMTT(60)
  <2>2. QED
    BY <1>4, <2>1
<1>6. \A i \in 1 .. n : Good(db, o, i, cells[i])
  <2> SUFFICES ASSUME NEW i \in 1 .. n PROVE Good(db, o, i, cells[i])
    OBVIOUS
  <2>1. i <= Len(a) \/ i > Len(a)
    BY SMTT(60), <1>4, <1>5
  <2>2. CASE i <= Len(a)
    BY <1>3, <1>5, <2>2 DEF Holding
  <2>3. CASE i > Len(a)
    <3>1. /\ i - Len(a) \in 1 .. Len(b) /\ cells[i] = b[i - Len(a)] /\ Len(a) + (i - Len(a)) = i
      BY <1>5, <2>3
    <3>2. Good(db, o, Len(a) + (i - Len(a)), b[i - Len(a)])
      BY <1>3, <3>1 DEF Holding
    <3>3. QED
      BY <3>1, <3>2
  <2>4. QED
    BY <2>1, <2>2, <2>3
<1>7. o + n = Len(db)
  <2>1. (o + Len(a)) + Len(b) = Len(db)
    BY <1>3 DEF Holding
  <2>2. QED
    BY SMTT(60), <1>1, <1>4, <1>5, <2>1
<1>8. Content(cells) = db
  <2>1. CASE cells = <<>>
    <3>1. n = 0
      BY SMTT(60), <2>1
    <3>2. Len(a) = 0
      BY SMTT(60), <1>4, <1>5, <3>1
    <3>3. o # 0 => 1 \in 1 .. Len(main.disk)
      BY <1>3 DEF FileKept, Clean
    <3>4. o = 0
      BY SMTT(60), <1>4, <3>2, <3>3
    <3>5. Len(db) = 0
      BY SMTT(60), <1>1, <1>7, <3>1, <3>4
    <3>6. db = <<>>
      BY SMTT(60), <1>1, <3>5 DEF Taken
    <3>7. QED
      BY <2>1, <3>6 DEF Content
  <2>2. CASE cells # <<>>
    <3>1. n \in 1 .. n
      <4>1. \A s \in Seq(Cell) : s # <<>> => Len(s) \in 1 .. Len(s)
        BY SMTT(60)
      <4>2. QED
        BY <1>5, <2>2, <4>1
    <3>2. cells[n] = SubSeq(db, 1, Len(db))
      BY <1>6, <1>7, <3>1 DEF Good
    <3>3. cells[n] = db
      BY <1>1, <3>2, SubSeqFull DEF Taken
    <3>4. QED
      BY <2>2, <3>3 DEF Content
  <2>3. QED
    BY <2>1, <2>2
<1>9. \A i \in 2 .. n : SubSeq(cells[i], 1, Len(cells[i]) - 1) = cells[i - 1]
  <2> SUFFICES ASSUME NEW i \in 2 .. n
               PROVE  SubSeq(cells[i], 1, Len(cells[i]) - 1) = cells[i - 1]
    OBVIOUS
  <2>1. i \in 1 .. n /\ i - 1 \in 1 .. n /\ i \in Int
    BY SMTT(60), <1>5
  <2>2. /\ o + i \in 0 .. Len(db) /\ cells[i] = SubSeq(db, 1, o + i)
        /\ o + (i - 1) \in 0 .. Len(db) /\ cells[i - 1] = SubSeq(db, 1, o + (i - 1))
    BY <1>6, <2>1 DEF Good
  <2>3. \A s \in Taken : \A k \in 0 .. Len(s) : k - 1 \in 0 .. Len(s) =>
            SubSeq(SubSeq(s, 1, k), 1, Len(SubSeq(s, 1, k)) - 1) = SubSeq(s, 1, k - 1)
    BY SMTT(60) DEF Taken
  <2>4. (o + i) - 1 = o + (i - 1)
    BY SMTT(60), <1>4, <2>1
  <2>5. QED
    BY <1>1, <2>2, <2>3, <2>4
<1>10. QED
  BY <1>8, <1>9

\* What the tail would write to the log is the file's bytes since the last sync.
LEMMA CoreFollows ==
    ASSUME SinkCore
    PROVE  TailFollows
<1> SUFFICES ASSUME proc = "up", ~disk.failed, disk.by \in {"none", "sync"}
             PROVE  /\ tail.end = Len(main.cache)
                    /\ Keeps /\ ~tail.direct =>
                          tail.since = SubSeq(main.cache, tail.sinceAt + 1, tail.end)
  BY DEF TailFollows
<1>1. PICK o \in -1 .. Len(db) : Going(o)
  BY DEF SinkCore
<1>2. Following(o)
  BY <1>1 DEF Going
<1>3. QED
  BY <1>2 DEF Following

\* What was reported durable an open reads.
LEMMA CoreSurvives ==
    ASSUME SinkCore
    PROVE  DurableSurvives
<1>1. /\ db \in Taken /\ Len(db) \in Nat /\ Len(durable) \in Nat
      /\ Len(durable) <= Len(db) /\ durable = SubSeq(db, 1, Len(durable))
  BY CoreTypes
<1> DEFINE r == Readable(main.cache)
           held == Content(SubSeq(main.cache, 1, r))
<1> SUFFICES ASSUME proc = "load"
             PROVE  Len(durable) <= Len(held) /\ SubSeq(held, 1, Len(durable)) = durable
  BY DEF DurableSurvives
<1>2. PICK o \in -1 .. Len(db) : Kept(db, o, main, log, logDisk, Len(durable)) /\ Opening(o)
  BY DEF SinkCore
<1>3. /\ FileKept(db, o, main) /\ LogKept(db, o, main, log, logDisk)
      /\ Reach(db, o, main, log, logDisk, Len(durable))
  BY <1>2 DEF Kept
<1>4. \A h \in log.head : h.ino # main.ino
  BY <1>2 DEF Opening
<1> DEFINE d2 == SubSeq(db, 1, o + r)
           f2 == IF r < Len(main.cache) THEN SyncData(Truncated(main, r)) ELSE main
<1>5. /\ r \in Nat /\ o + r \in 0 .. Len(db) /\ d2 \in Taken /\ Len(d2) = o + r
      /\ FileKept(d2, o, f2) /\ f2.ino = main.ino /\ Len(f2.cache) = r
      /\ \A i \in 1 .. r : f2.cache[i] = main.cache[i]
      /\ \A q \in Nat : CleanTo(db, o, main, q) => q <= r /\ CleanTo(d2, o, f2, q)
      /\ held = d2
  <2>1. /\ r \in Nat /\ o + r \in 0 .. Len(db) /\ d2 \in Taken /\ Len(d2) = o + r
        /\ held = d2
    BY <1>1, <1>3, ReadKept
  <2>2. FileKept(d2, o, f2) /\ f2.ino = main.ino /\ Len(f2.cache) = r
    BY <1>1, <1>3, ReadKept
  <2>3. \A i \in 1 .. r : f2.cache[i] = main.cache[i]
    BY <1>1, <1>3, ReadKept
  <2>4. \A q \in Nat : CleanTo(db, o, main, q) => q <= r /\ CleanTo(d2, o, f2, q)
    BY <1>1, <1>3, ReadKept
  <2>5. QED
    BY <2>1, <2>2, <2>3, <2>4
<1> HIDE DEF r, held, f2
<1>6. Len(durable) <= o + r
  <2>1. \A n \in Nat : Reach(db, o, main, log, logDisk, n) =>
            n <= o + r /\ Reach(SubSeq(db, 1, o + r), o, f2, log, logDisk, n)
    BY <1>1, <1>3, <1>4, <1>5, ReadLog
  <2>2. QED
    BY <1>1, <1>3, <2>1
<1>7. SubSeq(d2, 1, Len(durable)) = durable
  <2>1. \A s \in Taken : \A k \in 0 .. Len(s) : \A n \in Nat : n <= k =>
            SubSeq(SubSeq(s, 1, k), 1, n) = SubSeq(s, 1, n)
    BY SMTT(60) DEF Taken
  <2>2. SubSeq(SubSeq(db, 1, o + r), 1, Len(durable)) = SubSeq(db, 1, Len(durable))
    BY <1>1, <1>5, <1>6, <2>1
  <2>3. QED
    BY <1>1, <2>2
<1>8. QED
  BY <1>5, <1>6, <1>7

------------------------------------------------------------------------------
(* Every step.                                                             *)

\* A step that changes nothing.
LEMMA StutterKeeps ==
    ASSUME SinkCore, UNCHANGED vars
    PROVE  SinkCore'
<1>1. TypeOK /\ Counts
  BY CoreTypes
<1>2. PICK o \in -1 .. Len(db) : /\ Kept(db, o, main, log, logDisk, Len(durable))
                                 /\ OldKept(o) /\ Opening(o) /\ Going(o)
  BY DEF SinkCore
<1>3. /\ proc' = proc /\ db' = db /\ pending' = pending /\ appended' = appended
      /\ main' = main /\ old' = old /\ log' = log /\ logDisk' = logDisk /\ disk' = disk
      /\ tail' = tail /\ stopped' = stopped /\ durable' = durable /\ budget' = budget
      /\ writes' = writes /\ waiting' = waiting
  BY DEF vars, fileVars, sinkVars
<1>4. TypeOK' /\ Counts'
  BY <1>1, <1>3 DEF TypeOK, Counts
<1>5. OldKept(o)' /\ Opening(o)'
  BY <1>2, <1>3 DEF OldKept, Opening
<1>6. Holding(o) => Holding(o)'
  BY <1>3 DEF Holding
<1>7. Following(o) => Following(o)'
  BY <1>3 DEF Following, Begun, Logged
<1>8. Going(o)'
  BY <1>2, <1>3, <1>6, <1>7 DEF Going
<1>9. QED
  BY <1>2, <1>3, <1>4, <1>5, <1>8 DEF SinkCore

\* Every step keeps the invariant, and is one of a durable log or none of it: an
\* append takes a write, a durability that has done reports, an open loses what
\* was never reported, and a file put in the place by hand replaces it.
LEMMA StepKeeps ==
    ASSUME ~DropsPages, SinkCore, [Next]_vars
    PROVE  SinkCore' /\ [Log!Next]_(Log!vars)
<1>1. /\ Len(db) \in Nat /\ Len(durable) \in Nat /\ Len(durable) <= Len(db)
      /\ db \in Seq(1 .. MaxWrites)
  BY CoreTypes
<1>2. ASSUME SinkCore', db' = db, durable' = durable
      PROVE  SinkCore' /\ [Log!Next]_(Log!vars)
  BY <1>2 DEF Log!vars
<1>3. ASSUME SinkCore', db' = db, Len(durable') \in Len(durable) .. Len(db)
      PROVE  SinkCore' /\ [Log!Next]_(Log!vars)
  <2>1. durable' = SubSeq(db, 1, Len(durable'))
    BY <1>3 DEF SinkCore, Counts
  <2>2. Log!Report
    BY <1>3, <2>1 DEF Log!Report
  <2>3. QED
    BY <1>3, <2>2 DEF Log!Next
<1>4. CASE AppendRecord
  <2>1. SinkCore' /\ durable' = durable /\ \E w \in 1 .. MaxWrites : db' = Append(db, w)
    BY <1>4, AppendKeeps
  <2>2. QED
    BY <2>1 DEF Log!Next, Log!Take
<1>5. CASE Load
  <2>1. /\ SinkCore' /\ durable' = durable
        /\ \E n \in Len(durable) .. Len(db) : db' = SubSeq(db, 1, n)
    BY <1>5, LoadKeeps
  <2>2. QED
    BY <2>1 DEF Log!Next, Log!Lose
<1>6. CASE Replaced
  <2>1. SinkCore' /\ durable' = db' /\ \E n \in 0 .. Len(db) : db' = SubSeq(db, 1, n)
    BY <1>6, ReplacedKeeps
  <2>2. QED
    BY <2>1 DEF Log!Next, Log!Replace
<1>7. CASE \E w \in waiting : RunDurability(w)
  BY <1>3, <1>7, RunDurabilityKeeps
<1>8. CASE LogSync
  BY <1>3, <1>8, LogSyncKeeps
<1>9. CASE FileSync
  BY <1>3, <1>9, FileSyncKeeps
<1>10. CASE SyncExisting
  <2>1. SinkCore' /\ db' = db /\ durable' \in {durable, db}
    BY <1>10, SyncExistingKeeps
  <2>2. Len(durable) \in Len(durable) .. Len(db) /\ Len(db) \in Len(durable) .. Len(db)
    BY SMTT(60), <1>1
  <2>3. QED
    BY <1>3, <2>1, <2>2
<1>11. CASE Flush
  <2>1. db' = db /\ durable' = durable
    BY <1>11 DEF Flush
  <2>2. QED
    BY <1>2, <1>11, <2>1, FlushKeeps
<1>12. CASE WriteOut
  <2>1. db' = db /\ durable' = durable
    BY <1>12 DEF WriteOut
  <2>2. QED
    BY <1>2, <1>12, <2>1, WriteOutKeeps
<1>13. CASE LogWrite
  <2>1. db' = db /\ durable' = durable
    BY <1>13 DEF LogWrite, SyncFailed
  <2>2. QED
    BY <1>2, <1>13, <2>1, LogWriteKeeps
<1>14. CASE Fail
  <2>1. db' = db /\ durable' = durable
    BY <1>14 DEF Fail
  <2>2. QED
    BY <1>2, <1>14, <2>1, FailKeeps
<1>15. CASE StartSwap
  <2>1. db' = db /\ durable' = durable
    BY <1>15 DEF StartSwap
  <2>2. QED
    BY <1>2, <1>15, <2>1, StartSwapKeeps
<1>16. CASE ForgetLog
  <2>1. db' = db /\ durable' = durable
    BY <1>16 DEF ForgetLog
  <2>2. QED
    BY <1>2, <1>16, <2>1, ForgetLogKeeps
<1>17. CASE Rename
  <2>1. db' = db /\ durable' = durable
    BY <1>17 DEF Rename
  <2>2. QED
    BY <1>2, <1>17, <2>1, RenameKeeps
<1>18. CASE SwapIn
  <2>1. db' = db /\ durable' = durable
    BY <1>18 DEF SwapIn
  <2>2. QED
    BY <1>2, <1>18, <2>1, SwapInKeeps
<1>19. CASE SwapFails
  <2>1. db' = db /\ durable' = durable
    BY <1>19 DEF SwapFails
  <2>2. QED
    BY <1>2, <1>19, <2>1, SwapFailsKeeps
<1>20. CASE Close
  <2>1. db' = db /\ durable' = durable
    BY <1>20 DEF Close
  <2>2. QED
    BY <1>2, <1>20, <2>1, CloseKeeps
<1>21. CASE Kill
  <2>1. db' = db /\ durable' = durable
    BY <1>21 DEF Kill
  <2>2. QED
    BY <1>2, <1>21, <2>1, KillKeeps
<1>22. CASE PowerLoss
  <2>1. db' = db /\ durable' = durable
    BY <1>22 DEF PowerLoss
  <2>2. QED
    BY <1>2, <1>22, <2>1, PowerLossKeeps
<1>23. CASE Recover
  <2>1. db' = db /\ durable' = durable
    BY <1>23 DEF Recover
  <2>2. QED
    BY <1>2, <1>23, <2>1, RecoverKeeps
<1>24. CASE RecoverSync
  <2>1. db' = db /\ durable' = durable
    BY <1>24 DEF RecoverSync
  <2>2. QED
    BY <1>2, <1>24, <2>1, RecoverSyncKeeps
<1>25. CASE Wipe
  <2>1. db' = db /\ durable' = durable
    BY <1>25 DEF Wipe
  <2>2. QED
    BY <1>2, <1>25, <2>1, WipeKeeps
<1>26. CASE WipeSync
  <2>1. db' = db /\ durable' = durable
    BY <1>26 DEF WipeSync
  <2>2. QED
    BY <1>2, <1>26, <2>1, WipeSyncKeeps
<1>27. CASE NothingToRecover
  <2>1. db' = db /\ durable' = durable
    BY <1>27 DEF NothingToRecover
  <2>2. QED
    BY <1>2, <1>27, <2>1, NothingToRecoverKeeps
<1>28. CASE Refuse
  <2>1. db' = db /\ durable' = durable
    BY <1>28 DEF Refuse
  <2>2. QED
    BY <1>2, <1>28, <2>1, RefuseKeeps
<1>29. CASE UNCHANGED vars
  <2>1. db' = db /\ durable' = durable
    BY <1>29 DEF vars
  <2>2. QED
    BY <1>2, <1>29, <2>1, StutterKeeps
<1>30. QED
  BY <1>4, <1>5, <1>6, <1>7, <1>8, <1>9, <1>10, <1>11, <1>12, <1>13, <1>14, <1>15, <1>16, <1>17,
     <1>18, <1>19, <1>20, <1>21, <1>22, <1>23, <1>24, <1>25, <1>26, <1>27, <1>28, <1>29 DEF Next

------------------------------------------------------------------------------
(* The theorems.                                                           *)

\* Under every interleaving of writes, syncs, rewrites, closes, opens, kills,
\* power losses and failures, the file, its log, the buffer and the tail agree
\* with the writes taken and with one another (FileSink, Disk, Tail of fs.rs;
\* append, begin, recover of synclog.rs).
THEOREM SinkAlwaysHolds ==
    ASSUME ~DropsPages
    PROVE  Spec => []SinkInv
<1>1. Init => SinkCore
  BY InitCore
<1>2. SinkCore /\ [Next]_vars => SinkCore'
  BY StepKeeps
<1>3. SinkCore => SinkInv
  BY CoreHolds, CoreFollows DEF SinkInv
<1>4. QED
  BY <1>1, <1>2, <1>3, PTL DEF Spec

\* Every write reported durable is in the file each later open reads, before any
\* place the file may have lost (Disk::sync, Tail::sync, swap_in, recover, load).
THEOREM DurableAlwaysSurvives ==
    ASSUME ~DropsPages
    PROVE  Spec => []DurableSurvives
<1>1. Init => SinkCore
  BY InitCore
<1>2. SinkCore /\ [Next]_vars => SinkCore'
  BY StepKeeps
<1>3. SinkCore => DurableSurvives
  BY CoreSurvives
<1>4. QED
  BY <1>1, <1>2, <1>3, PTL DEF Spec

\* The sink implements a durable log: an open loses only what was never reported
\* durable, in the order it was taken, and brings back only what was taken.
THEOREM SinkIsDurableLog ==
    ASSUME ~DropsPages
    PROVE  Spec => Implements
<1>1. Init => SinkCore /\ Log!Init
  BY InitCore DEF Init, Log!Init
<1>2. SinkCore /\ [Next]_vars => SinkCore' /\ [Log!Next]_(Log!vars)
  BY StepKeeps
<1>3. QED
  BY <1>1, <1>2, PTL DEF Spec, Implements, Log!Spec

==============================================================================
