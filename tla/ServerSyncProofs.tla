-------------------------- MODULE ServerSyncProofs --------------------------
(***************************************************************************)
(* What a server promises of its writes, for any number of requests, any   *)
(* --sync and any failures of the disk: ServerInv is inductive, and a      *)
(* server that stopped has on the disk what it answered.                   *)
(***************************************************************************)
EXTENDS ServerSync, FiniteSetTheorems, TLAPS

\* Zenon is given a minute a leaf; the leaves that count name the SMT solver.
USE ZenonT(60)

-----------------------------------------------------------------------------
(* Steps of a thread.                                                      *)

\* A thread that goes from one place to another, neither of them its fsync,
\* leaves every other thread where it is and the disk with its holder.
LEMMA ThreadGoes ==
    ASSUME TypeOK, NEW t \in Threads, NEW to \in Places, Goes(t, to),
           thread[t] # "syncing", to # "syncing", holder' = holder
    PROVE  /\ thread' \in [Threads -> Places] /\ thread'[t] = to
           /\ \A u \in Threads : u # t => thread'[u] = thread[u]
           /\ holder' = {u \in Threads : thread'[u] = "syncing"}
           /\ Cardinality(holder') <= 1
<1>1. /\ thread \in [Threads -> Places] /\ holder = {u \in Threads : thread[u] = "syncing"}
      /\ Cardinality(holder) <= 1
  BY DEF TypeOK
<1>2. /\ thread' \in [Threads -> Places] /\ thread'[t] = to
      /\ \A u \in Threads : u # t => thread'[u] = thread[u]
  BY <1>1 DEF Goes
<1>3. \A u \in Threads : thread'[u] = "syncing" <=> thread[u] = "syncing"
  BY <1>2
<1> QED BY <1>1, <1>2, <1>3

\* The sweeper and the syncer are threads, and no requests.
LEMMA OwnThreads ==
    /\ "sweeper" \in Threads /\ "syncer" \in Threads /\ Requests \subseteq Threads
    /\ \A r \in Requests : r # "sweeper" /\ r # "syncer"
BY ServerAssumption DEF ServerAssumption, Threads

\* The counts, as numbers.
LEMMA Counts ==
    ASSUME TypeOK
    PROVE  /\ appended \in Nat /\ written \in Nat /\ synced \in Nat
           /\ synced <= written /\ written <= appended
           /\ \A t \in Threads : upto[t] \in Nat /\ upto[t] <= appended
<1>1. appended \in Nat /\ written \in 0 .. appended /\ synced \in 0 .. written
  BY DEF TypeOK
<1>2. upto \in [Threads -> 0 .. appended]
  BY DEF TypeOK
<1>3. ASSUME NEW t \in Threads
      PROVE  upto[t] \in Nat /\ upto[t] <= appended
  <2>1. upto[t] \in 0 .. appended
    BY <1>2
  <2> QED BY SMTT(60), <1>1, <2>1
<1>4. written \in Nat /\ synced \in Nat /\ synced <= written /\ written <= appended
  BY SMTT(60), <1>1
<1> QED BY <1>1, <1>3, <1>4

\* What is durable stays so, and a durability under way covers what it covered
\* until its writes are durable or the disk failed.
LEMMA StaysCovered ==
    ASSUME TypeOK, NEW r \in Requests, Covered(r), upto'[r] = upto[r],
           synced' \in Nat, synced <= synced', broken => broken', dirty => dirty' \/ broken',
           \A t \in {"sweeper", "syncer"} :
              /\ upto'[t] = upto[t]
              /\ thread[t] \in {"flushed", "syncing"} =>
                    thread'[t] \in {"flushed", "syncing"} \/ upto[t] <= synced' \/ broken'
    PROVE  Covered(r)'
<1>1. /\ upto[r] \in Nat /\ synced \in Nat
      /\ \A t \in {"sweeper", "syncer"} : upto[t] \in Nat
  BY Counts, OwnThreads
<1>2. \A x, y, z \in Nat : x <= y /\ y <= z => x <= z
  BY SMTT(60)
<1>3. CASE upto[r] <= synced \/ dirty \/ broken
  BY <1>1, <1>2, <1>3 DEF Covered
<1>4. ASSUME NEW t \in {"sweeper", "syncer"}, thread[t] \in {"flushed", "syncing"},
             upto[r] <= upto[t]
      PROVE  Covered(r)'
  <2>1. upto[t] <= synced' => upto[r] <= synced'
    BY <1>1, <1>2, <1>4
  <2> QED BY <1>4, <2>1 DEF Covered
<1> QED BY <1>3, <1>4 DEF Covered

\* A step of one thread keeps the invariant where it forgets no other's write
\* and is right about its own.
LEMMA OneMoves ==
    ASSUME ServerInv, TypeOK', server' = server, NEW t \in Threads,
           \A u \in Threads : u # t => thread'[u] = thread[u] /\ upto'[u] = upto[u],
           synced <= synced', written <= written', broken => broken', failed' => broken',
           thread'[t] = "failing" => broken',
           thread'[t] = "syncing" => upto'[t] <= written',
           \A r \in Requests :
              r # t /\ thread[r] \in {"answered", "behind"} => Covered(r)',
           \A r \in Requests : r = t =>
              /\ thread'[r] \in {"answered", "behind"} => Covered(r)'
              /\ Policy = "always" => thread'[r] # "behind"
              /\ Policy = "always" /\ thread'[r] = "answered" => upto'[r] <= synced',
           thread'["syncer"] \in {"final", "exited"} => ~dirty' \/ broken'
    PROVE  ServerInv'
<1>1. TypeOK /\ FailureKept /\ NoneForgotten /\ AnsweredDurable
  BY DEF ServerInv
<1>2. /\ written \in Nat /\ synced \in Nat /\ written' \in Nat /\ synced' \in Nat
      /\ \A u \in Threads : upto[u] \in Nat
  <2>1. written \in Nat /\ synced \in Nat /\ \A u \in Threads : upto[u] \in Nat
    BY <1>1, Counts
  <2>2. appended' \in Nat /\ written' \in 0 .. appended' /\ synced' \in 0 .. written'
    BY DEF TypeOK
  <2>3. written' \in Nat /\ synced' \in Nat
    BY SMTT(60), <2>2
  <2> QED BY <2>1, <2>3
<1>3. \A x, y, z \in Nat : x <= y /\ y <= z => x <= z
  BY SMTT(60)
<1>4. Requests \subseteq Threads
  BY OwnThreads
<1>5. FailureKept'
  <2>1. \A u \in Threads : thread'[u] = "failing" => broken'
    BY <1>1 DEF FailureKept
  <2> QED BY <2>1 DEF FailureKept
<1>6. \A u \in Threads : thread'[u] = "syncing" => upto'[u] <= written'
  BY <1>1, <1>2, <1>3 DEF NoneForgotten
<1>7. \A r \in Requests : thread'[r] \in {"answered", "behind"} => Covered(r)'
  BY <1>4
<1>8. Policy' = "always" => \A r \in Requests : thread'[r] # "behind"
  BY <1>1, <1>4 DEF NoneForgotten, Policy
<1>9. NoneForgotten'
  BY <1>6, <1>7, <1>8 DEF NoneForgotten
<1>10. AnsweredDurable'
  <2>1. Policy' = Policy
    BY DEF Policy
  <2>2. ASSUME Policy = "always", NEW r \in Requests, thread'[r] = "answered", r # t
        PROVE  upto'[r] <= synced'
    <3>1. thread[r] = "answered" /\ upto'[r] = upto[r] /\ upto[r] \in Nat
      BY <1>2, <1>4, <2>2
    <3>2. upto[r] <= synced
      BY <1>1, <2>2, <3>1 DEF AnsweredDurable
    <3> QED BY <1>2, <1>3, <3>1, <3>2
  <2> QED BY <2>1, <2>2 DEF AnsweredDurable
<1> QED BY <1>5, <1>9, <1>10 DEF ServerInv

-----------------------------------------------------------------------------
(* The writes.                                                             *)

\* The types after a step that appends one write, thread t's, or none.
LEMMA AppendTypes ==
    ASSUME TypeOK, NEW t \in Threads, NEW to \in Places, Goes(t, to),
           thread[t] # "syncing", to # "syncing", holder' = holder,
           dirty' \in BOOLEAN, failed' \in BOOLEAN, broken' \in BOOLEAN, stop' \in BOOLEAN,
           synced' = synced, written' \in {written, appended, appended + 1},
           \/ appended' = appended /\ upto' = upto /\ written' \in {written, appended}
           \/ appended' = appended + 1 /\ upto' = [upto EXCEPT ![t] = appended + 1]
    PROVE  TypeOK' /\ written' \in Nat /\ written <= written'
<1>1. /\ appended \in Nat /\ written \in Nat /\ synced \in Nat
      /\ synced <= written /\ written <= appended
  BY Counts
<1>2. upto \in [Threads -> 0 .. appended]
  BY DEF TypeOK
<1>3. /\ appended' \in Nat /\ written' \in 0 .. appended' /\ synced' \in 0 .. written'
      /\ written' \in Nat /\ written <= written'
      /\ 0 .. appended \subseteq 0 .. appended' /\ appended' \in 0 .. appended'
  BY SMTT(60), <1>1
<1>4. upto' \in [Threads -> 0 .. appended']
  BY <1>2, <1>3
<1> QED BY <1>3, <1>4, ThreadGoes DEF TypeOK

\* A write under the lock: under `always` what was answered before is durable,
\* and otherwise the dirty flag stands for it.
LEMMA WriteKeeps ==
    ASSUME ServerInv, server' = server, NEW r \in Requests, Write(r)
    PROVE  ServerInv'
<1>1. TypeOK /\ FailureKept /\ NoneForgotten /\ AnsweredDurable
  BY DEF ServerInv
<1>2. /\ r \in Threads /\ r # "sweeper" /\ r # "syncer" /\ Requests \subseteq Threads
      /\ "sweeper" \in Threads /\ "syncer" \in Threads
  BY OwnThreads
<1>3. /\ written' = written /\ synced' = synced /\ broken' = broken /\ holder' = holder
      /\ failed' = failed /\ stop' = stop /\ thread[r] = "idle"
      /\ thread["syncer"] \notin {"final", "exited"}
  BY DEF Write, diskVars, Unlocked
<1>4. /\ appended \in Nat /\ written \in Nat /\ synced \in Nat
      /\ written <= written /\ synced <= synced
  BY SMTT(60), <1>1, Counts
<1>5. dirty \in BOOLEAN /\ failed \in BOOLEAN /\ broken \in BOOLEAN /\ stop \in BOOLEAN
  BY <1>1 DEF TypeOK
<1>6. CASE failed
  <2>1. Goes(r, "refused") /\ appended' = appended /\ dirty' = dirty /\ upto' = upto
    BY <1>6 DEF Write
  <2>2. TypeOK'
    BY <1>1, <1>2, <1>3, <1>5, <2>1, AppendTypes DEF Places
  <2>3. thread'[r] = "refused" /\ \A u \in Threads : u # r => thread'[u] = thread[u]
    BY <1>1, <1>2, <1>3, <2>1, ThreadGoes DEF Places
  <2>4. \A x \in Requests : thread[x] \in {"answered", "behind"} => Covered(x)'
    BY <1>1, <1>2, <1>3, <1>4, <2>1, <2>3, StaysCovered DEF NoneForgotten
  <2> QED BY <1>1, <1>2, <1>3, <1>4, <2>1, <2>2, <2>3, <2>4, OneMoves DEF FailureKept
<1>7. CASE ~failed
  <2>1. /\ appended' = appended + 1 /\ upto' = [upto EXCEPT ![r] = appended + 1]
        /\ dirty' = (Policy # "always")
    BY <1>7 DEF Write
  <2>2. PICK to \in IF Policy = "always" THEN {"flushed"} ELSE {"answered", "behind"} : Goes(r, to)
    BY <1>7 DEF Write
  <2>3. to \in Places /\ to # "syncing" /\ to # "failing"
    BY <2>2 DEF Places
  <2>4. TypeOK'
    BY <1>1, <1>2, <1>3, <1>5, <2>1, <2>2, <2>3, AppendTypes
  <2>5. thread'[r] = to /\ \A u \in Threads : u # r => thread'[u] = thread[u]
    BY <1>1, <1>2, <1>3, <2>2, <2>3, ThreadGoes
  <2>6. \A u \in Threads : u # r => upto'[u] = upto[u]
    BY <1>1, <2>1 DEF TypeOK
  <2>7. ASSUME NEW x \in Requests, x # r, thread[x] \in {"answered", "behind"}
        PROVE  Covered(x)'
    <3>1. CASE Policy = "always"
      <4>1. upto[x] <= synced
        BY <1>1, <2>7, <3>1 DEF NoneForgotten, AnsweredDurable
      <4> QED BY <1>2, <1>3, <2>6, <2>7, <4>1 DEF Covered
    <3>2. CASE Policy # "always"
      BY <2>1, <3>2 DEF Covered
    <3> QED BY <3>1, <3>2
  <2>8. to \in {"answered", "behind"} => Policy # "always" /\ dirty'
    BY <2>1, <2>2
  <2>9. to \in {"answered", "behind"} => Covered(r)'
    BY <2>8 DEF Covered
  <2> QED BY <1>1, <1>2, <1>3, <1>4, <2>3, <2>4, <2>5, <2>6, <2>7, <2>8, <2>9, OneMoves
          DEF FailureKept
<1> QED BY <1>6, <1>7

\* A write that goes through to the file is one under the lock, or is refused
\* with the disk failed.
LEMMA WriteThroughKeeps ==
    ASSUME ServerInv, server' = server, NEW r \in Requests, WriteThrough(r)
    PROVE  ServerInv'
<1>1. TypeOK /\ FailureKept /\ NoneForgotten /\ AnsweredDurable
  BY DEF ServerInv
<1>2. /\ r \in Threads /\ r # "sweeper" /\ r # "syncer" /\ Requests \subseteq Threads
      /\ "sweeper" \in Threads /\ "syncer" \in Threads
  BY OwnThreads
<1>3. /\ synced' = synced /\ holder' = holder /\ stop' = stop /\ thread[r] = "idle"
      /\ thread["syncer"] \notin {"final", "exited"}
  BY DEF WriteThrough, Unlocked
<1>4. appended \in Nat /\ written \in Nat /\ synced \in Nat /\ synced <= synced
  BY SMTT(60), <1>1, Counts
<1>5. dirty \in BOOLEAN /\ failed \in BOOLEAN /\ broken \in BOOLEAN /\ stop \in BOOLEAN
  BY <1>1 DEF TypeOK
<1>6. ASSUME ~broken, appended' = appended + 1, written' = appended + 1,
             upto' = [upto EXCEPT ![r] = appended + 1], dirty' = (Policy # "always"),
             Goes(r, IF Policy = "always" THEN "flushed" ELSE "answered"),
             broken' = broken, failed' = failed
      PROVE  ServerInv'
  <2> DEFINE to == IF Policy = "always" THEN "flushed" ELSE "answered"
  <2>1. to \in Places /\ to # "syncing" /\ to # "failing" /\ to # "behind"
    BY DEF Places
  <2>2. TypeOK' /\ written <= written'
    BY <1>1, <1>2, <1>3, <1>5, <1>6, <2>1, AppendTypes
  <2>3. thread'[r] = to /\ \A u \in Threads : u # r => thread'[u] = thread[u]
    BY <1>1, <1>2, <1>3, <1>6, <2>1, ThreadGoes
  <2>4. \A u \in Threads : u # r => upto'[u] = upto[u]
    BY <1>1, <1>6 DEF TypeOK
  <2>5. ASSUME NEW x \in Requests, x # r, thread[x] \in {"answered", "behind"}
        PROVE  Covered(x)'
    <3>1. CASE Policy = "always"
      <4>1. upto[x] <= synced
        BY <1>1, <2>5, <3>1 DEF NoneForgotten, AnsweredDurable
      <4> QED BY <1>2, <1>3, <2>4, <2>5, <4>1 DEF Covered
    <3>2. CASE Policy # "always"
      BY <1>6, <3>2 DEF Covered
    <3> QED BY <3>1, <3>2
  <2>6. to = "answered" => Policy # "always" /\ dirty'
    BY <1>6
  <2>7. to = "answered" => Covered(r)'
    BY <2>6 DEF Covered
  <2> HIDE DEF to
  <2> QED BY <1>1, <1>2, <1>3, <1>4, <1>6, <2>1, <2>2, <2>3, <2>4, <2>5, <2>6, <2>7, OneMoves
          DEF FailureKept
<1>7. ASSUME broken', failed', broken' \in BOOLEAN, failed' \in BOOLEAN, Goes(r, "refused"),
             appended' = appended, written' = written, upto' = upto, dirty' = dirty
      PROVE  ServerInv'
  <2>1. TypeOK' /\ written <= written'
    BY <1>1, <1>2, <1>3, <1>5, <1>7, AppendTypes DEF Places
  <2>2. thread'[r] = "refused" /\ \A u \in Threads : u # r => thread'[u] = thread[u]
    BY <1>1, <1>2, <1>3, <1>7, ThreadGoes DEF Places
  <2>3. \A x \in Requests : Covered(x)'
    BY <1>7 DEF Covered
  <2> QED BY <1>2, <1>3, <1>4, <1>7, <2>1, <2>2, <2>3, OneMoves
<1>8. \/ /\ ~broken /\ appended' = appended + 1 /\ written' = appended + 1
         /\ upto' = [upto EXCEPT ![r] = appended + 1] /\ dirty' = (Policy # "always")
         /\ Goes(r, IF Policy = "always" THEN "flushed" ELSE "answered")
         /\ broken' = broken /\ failed' = failed
      \/ /\ broken' /\ failed' /\ broken' \in BOOLEAN /\ failed' \in BOOLEAN
         /\ Goes(r, "refused")
         /\ appended' = appended /\ written' = written /\ upto' = upto /\ dirty' = dirty
  BY <1>5 DEF WriteThrough
<1> QED BY <1>6, <1>7, <1>8

\* A step of thread t in which the disk meets an error: what was answered needs
\* no more be covered.
LEMMA FailsKeeps ==
    ASSUME ServerInv, server' = server, NEW t \in Threads, Goes(t, "failing"), TypeOK',
           broken', appended' = appended, written' = written, synced' = synced, upto' = upto,
           failed' = failed
    PROVE  ServerInv'
<1>1. TypeOK /\ FailureKept /\ NoneForgotten /\ AnsweredDurable
  BY DEF ServerInv
<1>2. thread'[t] = "failing" /\ \A u \in Threads : u # t => thread'[u] = thread[u]
  BY <1>1 DEF TypeOK, Goes
<1>3. written <= written /\ synced <= synced
  BY SMTT(60), <1>1, Counts
<1>4. \A x \in Requests : Covered(x)'
  BY DEF Covered
<1> QED BY <1>1, <1>2, <1>3, <1>4, OneMoves DEF FailureKept

\* What is pending written behind the lock, on the thread of a write answered
\* under no `always`.
LEMMA WriteBehindKeeps ==
    ASSUME ServerInv, server' = server, NEW r \in Requests, WriteBehind(r)
    PROVE  ServerInv'
<1>1. TypeOK /\ FailureKept /\ NoneForgotten /\ AnsweredDurable
  BY DEF ServerInv
<1>2. /\ r \in Threads /\ r # "sweeper" /\ r # "syncer" /\ Requests \subseteq Threads
      /\ "sweeper" \in Threads /\ "syncer" \in Threads
  BY OwnThreads
<1>3. /\ appended' = appended /\ synced' = synced /\ holder' = holder /\ dirty' = dirty
      /\ failed' = failed /\ upto' = upto /\ stop' = stop /\ thread[r] = "behind"
  BY DEF WriteBehind
<1>4. dirty \in BOOLEAN /\ failed \in BOOLEAN /\ broken \in BOOLEAN /\ stop \in BOOLEAN
  BY <1>1 DEF TypeOK
<1>5. \/ /\ Goes(r, "answered") /\ written' \in {written, appended} /\ broken' = broken
      \/ /\ Goes(r, "failing") /\ written' = written /\ broken' /\ broken' \in BOOLEAN
  BY <1>4 DEF WriteBehind
<1>6. CASE Goes(r, "answered") /\ written' \in {written, appended} /\ broken' = broken
  <2>1. TypeOK' /\ written <= written'
    BY <1>1, <1>2, <1>3, <1>4, <1>6, AppendTypes DEF Places
  <2>2. thread'[r] = "answered" /\ \A u \in Threads : u # r => thread'[u] = thread[u]
    BY <1>1, <1>2, <1>3, <1>6, ThreadGoes DEF Places
  <2>3. synced \in Nat /\ synced <= synced
    BY SMTT(60), <1>1, Counts
  <2>4. \A x \in Requests : thread[x] \in {"answered", "behind"} => Covered(x)'
    BY <1>1, <1>2, <1>3, <1>6, <2>2, <2>3, StaysCovered DEF NoneForgotten
  <2>5. Policy # "always"
    BY <1>1, <1>3 DEF NoneForgotten
  <2>6. thread'["syncer"] \in {"final", "exited"} => ~dirty' \/ broken'
    BY <1>1, <1>2, <1>3, <1>6, <2>2 DEF NoneForgotten
  <2> QED BY <1>1, <1>2, <1>3, <1>6, <2>1, <2>2, <2>3, <2>4, <2>5, <2>6, OneMoves DEF FailureKept
<1>7. CASE Goes(r, "failing") /\ written' = written /\ broken' /\ broken' \in BOOLEAN
  <2>1. TypeOK'
    BY <1>1, <1>2, <1>3, <1>4, <1>7, AppendTypes DEF Places
  <2> QED BY <1>2, <1>3, <1>7, <2>1, FailsKeeps
<1> QED BY <1>5, <1>6, <1>7

\* A sweep's batch: the sweeper's durability is for every write so far.
LEMMA SweepKeeps ==
    ASSUME ServerInv, server' = server, Sweep
    PROVE  ServerInv'
<1>1. TypeOK /\ FailureKept /\ NoneForgotten /\ AnsweredDurable
  BY DEF ServerInv
<1>2. /\ Requests \subseteq Threads /\ "sweeper" \in Threads /\ "syncer" \in Threads
      /\ \A r \in Requests : r # "sweeper" /\ r # "syncer"
  BY OwnThreads
<1>3. /\ appended' = appended + 1 /\ upto' = [upto EXCEPT !["sweeper"] = appended + 1]
      /\ dirty' = FALSE /\ Goes("sweeper", "flushed") /\ written' = written /\ synced' = synced
      /\ broken' = broken /\ holder' = holder /\ failed' = failed /\ stop' = stop
      /\ thread["sweeper"] = "idle"
  BY DEF Sweep, diskVars
<1>4. failed \in BOOLEAN /\ broken \in BOOLEAN /\ stop \in BOOLEAN
  BY <1>1 DEF TypeOK
<1>5. TypeOK' /\ written <= written'
  BY <1>1, <1>2, <1>3, <1>4, AppendTypes DEF Places
<1>6. thread'["sweeper"] = "flushed" /\ \A u \in Threads : u # "sweeper" => thread'[u] = thread[u]
  BY <1>1, <1>2, <1>3, ThreadGoes DEF Places
<1>7. upto'["sweeper"] = appended + 1 /\ \A u \in Threads : u # "sweeper" => upto'[u] = upto[u]
  BY <1>1, <1>2, <1>3 DEF TypeOK
<1>8. \A r \in Requests : upto[r] <= appended + 1
  <2>1. \A x, y \in Nat : x <= y => x <= y + 1
    BY SMTT(60)
  <2> QED BY <1>1, <1>2, <2>1, Counts
<1>9. \A r \in Requests : Covered(r)'
  BY <1>2, <1>6, <1>7, <1>8 DEF Covered
<1>10. synced <= synced
  BY SMTT(60), <1>1, Counts
<1> QED BY <1>1, <1>2, <1>3, <1>5, <1>6, <1>7, <1>9, <1>10, OneMoves DEF FailureKept

-----------------------------------------------------------------------------
(* The durabilities.                                                       *)

\* A durability takes the disk, or finds its writes durable.
LEMMA TakeDiskKeeps ==
    ASSUME ServerInv, server' = server, NEW t \in Threads, TakeDisk(t)
    PROVE  ServerInv'
<1>1. TypeOK /\ FailureKept /\ NoneForgotten /\ AnsweredDurable
  BY DEF ServerInv
<1>2. /\ Requests \subseteq Threads /\ "sweeper" \in Threads /\ "syncer" \in Threads
      /\ \A r \in Requests : r # "sweeper" /\ r # "syncer"
  BY OwnThreads
<1>3. /\ appended' = appended /\ synced' = synced /\ broken' = broken /\ dirty' = dirty
      /\ failed' = failed /\ upto' = upto /\ stop' = stop /\ holder = {}
      /\ thread[t] = "flushed"
  BY DEF TakeDisk
<1>4. dirty \in BOOLEAN /\ failed \in BOOLEAN /\ broken \in BOOLEAN /\ stop \in BOOLEAN
  BY <1>1 DEF TypeOK
<1>5. /\ appended \in Nat /\ synced \in Nat /\ synced <= synced /\ written <= appended
      /\ \A u \in Threads : upto[u] \in Nat /\ upto[u] <= appended
  BY SMTT(60), <1>1, Counts
<1>6. After(t) \in {"answered", "idle"} /\ (After(t) = "answered" <=> t \in Requests)
  BY DEF After
<1>7. CASE broken
  <2>1. Goes(t, "failing") /\ written' = written /\ holder' = holder
    BY <1>7 DEF TakeDisk
  <2>2. TypeOK'
    BY <1>1, <1>3, <1>4, <2>1, AppendTypes DEF Places
  <2> QED BY <1>3, <1>7, <2>1, <2>2, FailsKeeps
<1>8. CASE ~broken /\ synced >= upto[t]
  <2>1. Goes(t, After(t)) /\ written' = written /\ holder' = holder
    BY <1>8 DEF TakeDisk
  <2>2. TypeOK' /\ written <= written'
    BY <1>1, <1>3, <1>4, <1>6, <2>1, AppendTypes DEF Places
  <2>3. thread'[t] = After(t) /\ \A u \in Threads : u # t => thread'[u] = thread[u]
    BY <1>1, <1>3, <1>6, <2>1, ThreadGoes DEF Places
  <2>4. upto[t] <= synced
    BY SMTT(60), <1>5, <1>8
  <2>5. \A r \in Requests : thread[r] \in {"answered", "behind"} => Covered(r)'
    BY <1>1, <1>2, <1>3, <1>5, <2>3, <2>4, StaysCovered DEF NoneForgotten
  <2>6. \A r \in Requests : r = t => Covered(r)'
    BY <1>3, <2>4 DEF Covered
  <2>7. thread'["syncer"] \in {"final", "exited"} => ~dirty' \/ broken'
    BY <1>1, <1>2, <1>3, <1>6, <2>3 DEF NoneForgotten
  <2> QED BY <1>1, <1>3, <1>5, <1>6, <2>2, <2>3, <2>4, <2>5, <2>6, <2>7, OneMoves DEF FailureKept
<1>9. CASE ~broken /\ ~(synced >= upto[t])
  <2>1. Goes(t, "syncing") /\ written' = appended /\ holder' = {t}
    BY <1>9 DEF TakeDisk
  <2>2. /\ thread' \in [Threads -> Places] /\ thread'[t] = "syncing"
        /\ \A u \in Threads : u # t => thread'[u] = thread[u]
    BY <1>1, <2>1 DEF TypeOK, Goes, Places
  <2>3. holder' = {u \in Threads : thread'[u] = "syncing"}
    BY <1>1, <1>3, <2>1, <2>2 DEF TypeOK
  <2>4. Cardinality(holder') <= 1
    <3>1. Cardinality({t}) = 1
      BY FS_Singleton
    <3>2. 1 <= 1
      BY SMTT(60)
    <3> QED BY <2>1, <3>1, <3>2
  <2>5. written' \in 0 .. appended' /\ synced' \in 0 .. written'
    BY SMTT(60), <1>1, <1>3, <2>1, Counts
  <2>6. TypeOK'
    BY <1>1, <1>3, <2>2, <2>3, <2>4, <2>5 DEF TypeOK
  <2>7. \A r \in Requests : thread[r] \in {"answered", "behind"} => Covered(r)'
    BY <1>1, <1>2, <1>3, <1>5, <2>2, StaysCovered DEF NoneForgotten
  <2>8. thread'["syncer"] \in {"final", "exited"} => ~dirty' \/ broken'
    BY <1>1, <1>2, <1>3, <2>2 DEF NoneForgotten
  <2> QED BY <1>1, <1>3, <1>5, <2>1, <2>2, <2>6, <2>7, <2>8, OneMoves DEF FailureKept
<1> QED BY <1>7, <1>8, <1>9

\* An fsync, whoever's: what was written before it is durable after it.
LEMMA FsyncKeeps ==
    ASSUME ServerInv, server' = server, NEW t \in Threads, Fsync(t)
    PROVE  ServerInv'
<1>1. TypeOK /\ FailureKept /\ NoneForgotten /\ AnsweredDurable
  BY DEF ServerInv
<1>2. /\ Requests \subseteq Threads /\ "sweeper" \in Threads /\ "syncer" \in Threads
      /\ \A r \in Requests : r # "sweeper" /\ r # "syncer"
  BY OwnThreads
<1>3. /\ appended' = appended /\ written' = written /\ dirty' = dirty /\ failed' = failed
      /\ upto' = upto /\ stop' = stop /\ holder = {t} /\ holder' = {}
      /\ thread[t] = "syncing"
  BY DEF Fsync
<1>4. /\ written \in Nat /\ synced \in Nat /\ synced <= synced /\ written <= written
      /\ synced <= written /\ written \in 0 .. written
  BY SMTT(60), <1>1, Counts
<1>5. After(t) \in {"answered", "idle"} /\ (After(t) = "answered" <=> t \in Requests)
  BY DEF After
<1>6. upto[t] <= written
  BY <1>1, <1>3 DEF NoneForgotten
<1>7. ASSUME NEW to \in Places, Goes(t, to), to # "syncing", synced' \in {synced, written},
             broken' \in BOOLEAN
      PROVE  /\ TypeOK' /\ thread'[t] = to
             /\ \A u \in Threads : u # t => thread'[u] = thread[u]
  <2>1. /\ thread' \in [Threads -> Places] /\ thread'[t] = to
        /\ \A u \in Threads : u # t => thread'[u] = thread[u]
    BY <1>1, <1>7 DEF TypeOK, Goes
  <2>2. holder = {u \in Threads : thread[u] = "syncing"}
    BY <1>1 DEF TypeOK
  <2>3. {u \in Threads : thread'[u] = "syncing"} = {}
    BY <1>3, <1>7, <2>1, <2>2
  <2>4. Cardinality(holder') <= 1
    <3>1. Cardinality({}) = 0
      BY FS_EmptySet
    <3>2. 0 <= 1
      BY SMTT(60)
    <3> QED BY <1>3, <3>1, <3>2
  <2>5. synced' \in 0 .. written'
    BY <1>1, <1>3, <1>4, <1>7 DEF TypeOK
  <2> QED BY <1>1, <1>3, <1>7, <2>1, <2>3, <2>4, <2>5 DEF TypeOK
<1>8. CASE synced' = written /\ Goes(t, After(t)) /\ broken' = broken
  <2>1. /\ TypeOK' /\ thread'[t] = After(t)
        /\ \A u \in Threads : u # t => thread'[u] = thread[u]
    BY <1>1, <1>5, <1>7, <1>8 DEF TypeOK, Places
  <2>2. \A r \in Requests : thread[r] \in {"answered", "behind"} => Covered(r)'
    BY <1>1, <1>2, <1>3, <1>4, <1>6, <1>8, <2>1, StaysCovered DEF NoneForgotten
  <2>3. \A r \in Requests : r = t => Covered(r)'
    BY <1>3, <1>6, <1>8 DEF Covered
  <2>4. thread'["syncer"] \in {"final", "exited"} => ~dirty' \/ broken'
    BY <1>1, <1>2, <1>3, <1>5, <1>8, <2>1 DEF NoneForgotten
  <2> QED BY <1>1, <1>3, <1>4, <1>5, <1>6, <1>8, <2>1, <2>2, <2>3, <2>4, OneMoves DEF FailureKept
<1>9. CASE synced' = synced /\ Goes(t, "failing") /\ broken' = TRUE
  <2>1. TypeOK'
    BY <1>7, <1>9 DEF Places
  <2> QED BY <1>3, <1>9, <2>1, FailsKeeps
<1> QED BY <1>8, <1>9 DEF Fsync

\* A failure reported: the disk failed before.
LEMMA ReportFailureKeeps ==
    ASSUME ServerInv, server' = server, NEW t \in Threads, ReportFailure(t)
    PROVE  ServerInv'
<1>1. TypeOK /\ FailureKept /\ NoneForgotten /\ AnsweredDurable
  BY DEF ServerInv
<1> DEFINE to == IF t \in Requests THEN "refused" ELSE "idle"
<1>2. /\ appended' = appended /\ written' = written /\ synced' = synced /\ broken' = broken
      /\ holder' = holder /\ dirty' = dirty /\ failed' = TRUE /\ upto' = upto /\ stop' = stop
      /\ thread[t] = "failing" /\ Goes(t, to)
  BY DEF ReportFailure, diskVars
<1>3. dirty \in BOOLEAN /\ broken \in BOOLEAN /\ stop \in BOOLEAN /\ broken
  BY <1>1, <1>2 DEF TypeOK, FailureKept
<1>4. to \in {"refused", "idle"}
  OBVIOUS
<1> HIDE DEF to
<1>5. TypeOK' /\ written <= written'
  BY <1>1, <1>2, <1>3, <1>4, AppendTypes DEF Places
<1>6. thread'[t] = to /\ \A u \in Threads : u # t => thread'[u] = thread[u]
  BY <1>1, <1>2, <1>4, ThreadGoes DEF Places
<1>7. \A r \in Requests : Covered(r)'
  BY <1>2, <1>3 DEF Covered
<1>8. synced <= synced
  BY SMTT(60), <1>1, Counts
<1> QED BY <1>2, <1>3, <1>4, <1>5, <1>6, <1>7, <1>8, OneMoves

-----------------------------------------------------------------------------
(* The syncer and the shutdown.                                            *)

\* A step of the syncer's that leaves the disk, the counts and the dirty flag
\* alone: a pass that looks, and a shutdown begun.
LEMMA SyncerGoes ==
    ASSUME ServerInv, server' = server, NEW to \in {"idle", "looked", "stopping"},
           Goes("syncer", to), thread["syncer"] \in {"idle", "looked"},
           appended' = appended, written' = written, synced' = synced, broken' = broken,
           holder' = holder, dirty' = dirty, failed' = failed, upto' = upto, stop' = stop
    PROVE  ServerInv'
<1>1. TypeOK /\ FailureKept /\ NoneForgotten /\ AnsweredDurable
  BY DEF ServerInv
<1>2. /\ Requests \subseteq Threads /\ "sweeper" \in Threads /\ "syncer" \in Threads
      /\ \A r \in Requests : r # "sweeper" /\ r # "syncer"
  BY OwnThreads
<1>4. dirty \in BOOLEAN /\ failed \in BOOLEAN /\ broken \in BOOLEAN /\ stop \in BOOLEAN
  BY <1>1 DEF TypeOK
<1>5. TypeOK' /\ written <= written'
  BY <1>1, <1>2, <1>4, AppendTypes DEF Places
<1>6. thread'["syncer"] = to /\ \A u \in Threads : u # "syncer" => thread'[u] = thread[u]
  BY <1>1, <1>2, ThreadGoes DEF Places
<1>7. synced \in Nat /\ synced <= synced
  BY SMTT(60), <1>1, Counts
<1>8. /\ thread["syncer"] \notin {"flushed", "syncing"}
      /\ thread'["syncer"] \notin {"failing", "syncing", "final", "exited"}
      /\ thread'["sweeper"] = thread["sweeper"]
  BY <1>2, <1>6
<1>9. \A t \in {"sweeper", "syncer"} : thread[t] \in {"flushed", "syncing"} =>
        thread'[t] \in {"flushed", "syncing"}
  BY <1>8
<1>10. ASSUME NEW r \in Requests, thread[r] \in {"answered", "behind"}
       PROVE  Covered(r)'
  <2>1. Covered(r)
    BY <1>1, <1>10 DEF NoneForgotten
  <2> QED BY <1>1, <1>7, <1>9, <2>1, StaysCovered
<1>11. failed' => broken'
  BY <1>1 DEF FailureKept
<1> QED BY <1>2, <1>5, <1>6, <1>7, <1>8, <1>10, <1>11, OneMoves

\* A pass that flushes: its durability is for every write so far.
LEMMA FlushKeeps ==
    ASSUME ServerInv, server' = server, Flush
    PROVE  ServerInv'
<1>1. CASE failed
  BY <1>1, SyncerGoes DEF Flush, diskVars
<1>2. CASE ~failed
  <2>1. TypeOK /\ FailureKept
    BY DEF ServerInv
  <2>2. /\ Requests \subseteq Threads /\ "syncer" \in Threads
        /\ \A r \in Requests : r # "syncer"
    BY OwnThreads
  <2>3. /\ appended' = appended /\ written' = written /\ synced' = synced /\ broken' = broken
        /\ holder' = holder /\ dirty' = FALSE /\ failed' = failed /\ stop' = stop
        /\ upto' = [upto EXCEPT !["syncer"] = appended] /\ Goes("syncer", "flushed")
        /\ thread["syncer"] = "looked"
    BY <1>2 DEF Flush, diskVars
  <2>4. /\ appended \in 0 .. appended /\ written <= written /\ synced <= synced
        /\ \A r \in Requests : upto[r] <= appended
    BY SMTT(60), <2>1, <2>2, Counts
  <2>5. upto' \in [Threads -> 0 .. appended] /\ upto'["syncer"] = appended
        /\ \A u \in Threads : u # "syncer" => upto'[u] = upto[u]
    BY <2>1, <2>2, <2>3, <2>4 DEF TypeOK
  <2>6. /\ thread' \in [Threads -> Places] /\ thread'["syncer"] = "flushed"
        /\ \A u \in Threads : u # "syncer" => thread'[u] = thread[u]
        /\ holder' = {u \in Threads : thread'[u] = "syncing"} /\ Cardinality(holder') <= 1
    BY <2>1, <2>2, <2>3, ThreadGoes DEF Places
  <2>7. TypeOK'
    BY <2>1, <2>3, <2>5, <2>6 DEF TypeOK
  <2>8. \A r \in Requests : Covered(r)'
    BY <2>2, <2>4, <2>5, <2>6 DEF Covered
  <2> QED BY <2>1, <2>2, <2>3, <2>4, <2>5, <2>6, <2>7, <2>8, OneMoves DEF FailureKept
<1> QED BY <1>1, <1>2

\* The shutdown's last steps: every write is made durable, or none waits for
\* it, or the disk failed.
LEMMA LastSteps ==
    ASSUME ServerInv, server' = server, NEW to \in {"final", "exited"}, Goes("syncer", to),
           thread["syncer"] \in {"stopping", "final"},
           appended' = appended, upto' = upto, holder' = holder, stop' = stop,
           \/ /\ written' = appended /\ synced' = appended /\ dirty' = FALSE
              /\ broken' = broken /\ failed' = failed
           \/ /\ written' = written /\ synced' = synced /\ dirty' = dirty
              /\ broken' \in BOOLEAN /\ failed' \in BOOLEAN
              /\ (broken => broken') /\ (failed' => broken') /\ (~dirty \/ broken')
    PROVE  ServerInv'
<1>1. TypeOK /\ FailureKept /\ NoneForgotten
  BY DEF ServerInv
<1>2. /\ Requests \subseteq Threads /\ "sweeper" \in Threads /\ "syncer" \in Threads
      /\ \A r \in Requests : r # "sweeper" /\ r # "syncer"
  BY OwnThreads
<1>3. /\ thread' \in [Threads -> Places] /\ thread'["syncer"] = to
      /\ \A u \in Threads : u # "syncer" => thread'[u] = thread[u]
      /\ holder' = {u \in Threads : thread'[u] = "syncing"} /\ Cardinality(holder') <= 1
  BY <1>1, <1>2, ThreadGoes DEF Places
<1>4. /\ written' \in 0 .. appended' /\ synced' \in 0 .. written' /\ synced' \in Nat
      /\ written <= written' /\ synced <= synced'
      /\ \A r \in Requests : upto[r] <= appended
  BY SMTT(60), <1>1, <1>2, Counts
<1>5. TypeOK'
  BY <1>1, <1>3, <1>4 DEF TypeOK
<1>6. (broken => broken') /\ (failed' => broken') /\ (~dirty' \/ broken')
  <2>1. failed => broken
    BY <1>1 DEF FailureKept
  <2>2. CASE dirty' = FALSE /\ broken' = broken /\ failed' = failed
    BY <2>1, <2>2
  <2>3. CASE dirty' = dirty /\ (broken => broken') /\ (failed' => broken') /\ (~dirty \/ broken')
    BY <2>3
  <2> QED BY <2>2, <2>3
<1>7. ASSUME NEW r \in Requests, thread[r] \in {"answered", "behind"}
      PROVE  Covered(r)'
  <2>1. CASE synced' = appended
    BY <1>4, <2>1 DEF Covered
  <2>2. CASE synced' = synced /\ dirty' = dirty
    BY <1>1, <1>2, <1>3, <1>4, <1>6, <1>7, <2>2, StaysCovered DEF NoneForgotten
  <2> QED BY <2>1, <2>2
<1> QED BY <1>2, <1>3, <1>4, <1>5, <1>6, <1>7, OneMoves

\* The final sync.
LEMMA FinalSyncKeeps ==
    ASSUME ServerInv, server' = server, FinalSync
    PROVE  ServerInv'
<1>1. failed => broken
  BY DEF ServerInv, FailureKept
<1>2. dirty \in BOOLEAN /\ broken \in BOOLEAN /\ failed \in BOOLEAN
  BY DEF ServerInv, TypeOK
<1>3. \/ /\ written' = appended /\ synced' = appended /\ dirty' = FALSE
         /\ broken' = broken /\ failed' = failed
      \/ /\ written' = written /\ synced' = synced /\ dirty' = dirty
         /\ broken' \in BOOLEAN /\ failed' \in BOOLEAN
         /\ (broken => broken') /\ (failed' => broken') /\ (~dirty \/ broken')
  BY <1>1, <1>2 DEF FinalSync
<1> QED BY <1>3, LastSteps DEF FinalSync

\* The checkpoint and the exit.
LEMMA ExitKeeps ==
    ASSUME ServerInv, server' = server, Exit
    PROVE  ServerInv'
<1>1. (failed => broken) /\ (thread["syncer"] = "final" => ~dirty \/ broken)
  BY DEF ServerInv, FailureKept, NoneForgotten
<1>2. dirty \in BOOLEAN /\ broken \in BOOLEAN /\ failed \in BOOLEAN
  BY DEF ServerInv, TypeOK
<1>3. \/ /\ written' = appended /\ synced' = appended /\ dirty' = FALSE
         /\ broken' = broken /\ failed' = failed
      \/ /\ written' = written /\ synced' = synced /\ dirty' = dirty
         /\ broken' \in BOOLEAN /\ failed' \in BOOLEAN
         /\ (broken => broken') /\ (failed' => broken') /\ (~dirty \/ broken')
  BY <1>1, <1>2 DEF Exit
<1> QED BY <1>3, LastSteps DEF Exit

-----------------------------------------------------------------------------
(* The invariant, and what it gives.                                       *)

\* A server starts with nothing written, and no thread at anything.
LEMMA ServerInit == Init => ServerInv
<1> SUFFICES ASSUME Init PROVE ServerInv
  OBVIOUS
<1>1. /\ thread = [t \in Threads |-> "idle"] /\ upto = [t \in Threads |-> 0] /\ holder = {}
      /\ appended = 0 /\ written = 0 /\ synced = 0
      /\ broken = FALSE /\ dirty = FALSE /\ failed = FALSE /\ stop = FALSE
  BY DEF Init
<1>2. \A t \in Threads : thread[t] = "idle"
  BY <1>1
<1>3. /\ appended \in Nat /\ written \in 0 .. appended /\ synced \in 0 .. written
      /\ 0 \in 0 .. appended
  BY SMTT(60), <1>1
<1>4. Cardinality(holder) <= 1
  <2>1. Cardinality({}) = 0
    BY FS_EmptySet
  <2>2. 0 <= 1
    BY SMTT(60)
  <2> QED BY <1>1, <2>1, <2>2
<1>5. TypeOK
  BY <1>1, <1>2, <1>3, <1>4 DEF TypeOK, Places
<1> QED BY <1>1, <1>2, <1>5, OwnThreads
        DEF ServerInv, FailureKept, NoneForgotten, AnsweredDurable

\* Every step of a server keeps what the invariant says of its writes.
LEMMA ServerStep == ServerInv /\ [Next]_<<server, vars>> => ServerInv'
<1> SUFFICES ASSUME ServerInv, [Next]_<<server, vars>> PROVE ServerInv'
  OBVIOUS
<1>1. CASE UNCHANGED <<server, vars>>
  <2>1. /\ server' = server /\ appended' = appended /\ written' = written /\ synced' = synced
        /\ broken' = broken /\ holder' = holder /\ dirty' = dirty /\ failed' = failed
        /\ thread' = thread /\ upto' = upto /\ stop' = stop
    BY <1>1 DEF vars, diskVars
  <2> QED BY <2>1
          DEF ServerInv, TypeOK, FailureKept, NoneForgotten, Covered, AnsweredDurable, Policy
<1>2. CASE RequestShutdown /\ server' = server
  <2>1. /\ appended' = appended /\ written' = written /\ synced' = synced
        /\ broken' = broken /\ holder' = holder /\ dirty' = dirty /\ failed' = failed
        /\ thread' = thread /\ upto' = upto /\ stop' = TRUE
    BY <1>2 DEF RequestShutdown, diskVars
  <2> QED BY <1>2, <2>1
          DEF ServerInv, TypeOK, FailureKept, NoneForgotten, Covered, AnsweredDurable, Policy
<1>3. CASE server' = server /\ (Look \/ StartShutdown)
  BY <1>3, SyncerGoes DEF Look, StartShutdown, diskVars
<1> QED
  BY <1>1, <1>2, <1>3, WriteKeeps, WriteThroughKeeps, WriteBehindKeeps, SweepKeeps,
     TakeDiskKeeps, FsyncKeeps, ReportFailureKeeps, FlushKeeps, FinalSyncKeeps, ExitKeeps
  DEF Next, Step

\* A server's counts, its dirty flag, its failures and the holder of the disk
\* agree with its threads, no write that was answered is forgotten, and under
\* `--sync always` none is answered that the disk has not, for any number of
\* requests and failures (flush_for, Disk::sync, run_syncer).
THEOREM ServerInvariant == Spec => []ServerInv
<1> QED BY ServerInit, ServerStep, PTL DEF Spec

\* A server that stopped with no storage error has every write it answered on
\* the disk, under any --sync, but for a sweep's durability cut short (shutdown).
THEOREM StoppedIsSynced == Spec => []StopsSynced
<1>1. ServerInv => StopsSynced
  <2> SUFFICES ASSUME ServerInv, ~Alive, ~broken, thread["sweeper"] \notin {"flushed", "syncing"},
                      NEW r \in Requests, thread[r] = "answered"
               PROVE  upto[r] <= synced
    BY DEF StopsSynced
  <2>1. thread["syncer"] = "exited"
    BY DEF Alive
  <2>2. Covered(r) /\ (~dirty \/ broken)
    BY <2>1 DEF ServerInv, NoneForgotten
  <2> QED BY <2>1, <2>2 DEF Covered
<1> QED BY <1>1, ServerInvariant, PTL

=============================================================================
