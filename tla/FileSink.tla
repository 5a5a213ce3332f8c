------------------------------ MODULE FileSink ------------------------------
(***************************************************************************)
(* A database's file under its writers, its fsyncs and every crash         *)
(* (crates/fenec-core/src/fs.rs over synclog.rs).                          *)
(*                                                                         *)
(* Appends collect in `pending`; a durability, handed out at any write and *)
(* run on its caller's thread without the database's lock, takes the disk, *)
(* writes what is pending and makes it durable: through the sync log while *)
(* it fits there, else by an fsync of the file. Writes go on being         *)
(* appended meanwhile. A rewrite (compact, checkpoint) renames an image    *)
(* over the file. The process may be killed and the machine lose power     *)
(* between any two steps, and any write or fsync may fail.                 *)
(*                                                                         *)
(* A count of bytes in the code is a count of cells here. The buffer's     *)
(* sizes decide when an append writes it: at any time (WriteOut).          *)
(***************************************************************************)
EXTENDS SyncLog

CONSTANTS
    Keeps,         \* whether the platform keeps a sync log (Linux)
    Primary,       \* whether the sink is a primary's, whose open syncs the file
    DropsPages,    \* whether a failed fsync may leave pages clean and unwritten
    MaxWrites,     \* bound: writes ever taken
    Budgets        \* bounds, chosen together at the start: writes; kills, power losses
                   \* and files renamed in; writes and fsyncs that fail; rewrites;
                   \* durabilities handed out and not yet run

ASSUME SinkAssumption ==
    /\ Keeps \in BOOLEAN /\ Primary \in BOOLEAN /\ DropsPages \in BOOLEAN
    /\ MaxWrites \in Nat
    /\ Budgets \subseteq [writes : 0 .. MaxWrites, crash : Nat, fail : Nat, swap : Nat,
                          waiting : Nat]

VARIABLES
    main,       \* the file the path names
    old,        \* the files it named before and the log the disk had beside each,
                \* until a rename since is on the disk
    log,        \* the sync log beside it, as written
    logDisk,    \* and as the disk holds it
    proc,       \* the process: down, a step of an open, up, or refused
    db,         \* what the process's database holds: the writes in order
    pending,    \* FileSink: the cells appended and not yet written
    appended,   \* FileSink: cells appended since the open or the last rewrite
    disk,       \* Disk: who holds it, what is written and synced, whether it failed
    tail,       \* Tail: what was written since the last sync, and the log's place
    waiting,    \* the durabilities handed out and not yet run
    stopped,    \* Database::failed: every later write and sync is refused
    durable,    \* the writes reported durable (history)
    writes,     \* how many writes were ever taken: the next one's name
    budget      \* what is left of the bounds

fileVars == <<main, old, log, logDisk>>
sinkVars == <<pending, appended, disk, tail>>
vars == <<fileVars, proc, db, sinkVars, waiting, stopped, durable, writes, budget>>

------------------------------------------------------------------------------
(* A sink over a file.                                                     *)

NoSyncLog == [gen |-> 0, pos |-> 0, at |-> 0, count |-> 0, begun |-> {}]

FreeDisk == [by |-> "none", upto |-> 0, holds |-> 0,
             written |-> 0, synced |-> 0, failed |-> FALSE]

\* Tail::new.
NewTail(end) == [open |-> FALSE, unmade |-> FALSE, end |-> end, since |-> <<>>,
                 sinceAt |-> end, direct |-> TRUE, slog |-> NoSyncLog]

\* Tail::reset, Tail::wrote.
ResetTail(t, end) == [t EXCEPT !.end = end, !.since = <<>>, !.sinceAt = end, !.direct = TRUE]

Wrote(t, cells) ==
    LET outgrown == Len(t.since) + Len(cells) > EntryMax
    IN  [t EXCEPT !.end = @ + Len(cells),
                  !.direct = @ \/ (Keeps /\ outgrown),
                  !.since = IF ~Keeps \/ t.direct THEN @
                            ELSE IF outgrown THEN <<>> ELSE @ \o cells]

\* SyncLog::begin over the file synced up to its end.
Begin(t, f, gen) ==
    [t EXCEPT !.open = TRUE, !.direct = FALSE,
              !.slog = [gen |-> gen + 1, pos |-> 0, at |-> t.end, count |-> 0,
                        begun |-> {[gen |-> gen + 1, base |-> t.end, ino |-> f.ino,
                                    print |-> Fingerprint(f.cache, t.end)]}]]

Spend(what) == budget[what] > 0 /\ budget' = [budget EXCEPT ![what] = @ - 1]

Init ==
    /\ main = OnDisk(0, <<>>) /\ old = {}
    /\ log = NoLog /\ logDisk = NoLog
    /\ proc = "up" /\ db = <<>>
    /\ pending = <<>> /\ appended = 0
    /\ disk = FreeDisk /\ tail = NewTail(0)
    /\ waiting = {} /\ stopped = FALSE
    /\ durable = <<>> /\ writes = 0
    /\ budget \in Budgets

\* What a process held goes with it.
Ended ==
    /\ proc' = "down"
    /\ pending' = <<>> /\ appended' = 0
    /\ disk' = FreeDisk /\ tail' = NewTail(0)
    /\ waiting' = {} /\ stopped' = FALSE

------------------------------------------------------------------------------
(* Writes and durabilities.                                                *)

\* Sink::append under the database's lock: nothing is written here.
AppendRecord ==
    /\ proc = "up" /\ ~stopped /\ disk.by \in {"none", "sync", "log"}
    /\ writes < budget.writes
    /\ writes' = writes + 1
    /\ db' = Append(db, writes + 1)
    /\ pending' = Append(pending, Append(db, writes + 1))
    /\ appended' = appended + 1
    /\ UNCHANGED <<fileVars, proc, disk, tail, waiting, stopped, durable, budget>>

\* Sink::flush: a durability for what has been appended.
Flush ==
    /\ proc = "up" /\ ~stopped /\ disk.by \in {"none", "sync", "log"}
    /\ Cardinality(waiting) < budget.waiting
    /\ waiting' = waiting \cup {[upto |-> appended, holds |-> Len(db)]}
    /\ UNCHANGED <<fileVars, proc, db, sinkVars, stopped, durable, writes, budget>>

\* Disk::write_pending.
WritePending(by, w) ==
    /\ main' = WriteAtEnd(main, pending)
    /\ pending' = <<>>
    /\ tail' = Wrote(tail, pending)
    /\ disk' = [disk EXCEPT !.by = by, !.upto = w.upto, !.holds = w.holds,
                            !.written = @ + Len(pending)]
    /\ UNCHANGED budget

\* A write that fails leaves any part of the bytes, and the sink failed.
WrittenPartly ==
    UNION {{WriteAtEnd(main, SubSeq(pending, 1, k) \o torn) :
              torn \in IF k < Len(pending) THEN {<<>>, <<Torn>>} ELSE {<<>>}} :
           k \in 0 .. Len(pending)}

WriteFails ==
    /\ Spend("fail")
    /\ main' \in WrittenPartly
    /\ pending' = <<>>
    /\ disk' = [disk EXCEPT !.failed = TRUE]
    /\ UNCHANGED tail

\* An append past the buffer, a write behind the lock, a handover: the
\* pending cells written, and no fsync.
WriteOut ==
    /\ proc = "up" /\ disk.by = "none" /\ ~disk.failed /\ pending # <<>>
    /\ WritePending("none", [upto |-> 0, holds |-> 0]) \/ WriteFails
    /\ UNCHANGED <<old, log, logDisk, proc, db, appended, waiting, stopped, durable, writes>>

\* A durability has done: its writes, and all before them, are reported. One
\* handed out before anything was appended reports none: it syncs nothing,
\* and an earlier process may have left the file's bytes unsynced.
Reported(w) ==
    durable' = IF w.upto > 0 /\ w.holds > Len(durable) THEN SubSeq(db, 1, w.holds) ELSE durable

\* Disk::sync takes the disk: nothing to do where its bytes are durable, and
\* nothing is done after a failure.
RunDurability(w) ==
    /\ proc = "up" /\ disk.by = "none" /\ w \in waiting
    /\ waiting' = waiting \ {w}
    /\ IF disk.failed \/ disk.synced >= w.upto
       THEN /\ IF disk.failed THEN UNCHANGED durable ELSE Reported(w)
            /\ UNCHANGED <<main, pending, disk, tail, budget>>
       ELSE /\ WritePending("sync", w) \/ WriteFails
            /\ UNCHANGED durable
    /\ UNCHANGED <<old, log, logDisk, proc, db, appended, stopped, writes>>

\* The disk let go of, everything written durable.
SyncDone ==
    /\ disk' = [disk EXCEPT !.by = "none", !.upto = 0, !.holds = 0, !.synced = disk.written]
    /\ Reported(disk)

SyncFailed ==
    /\ Spend("fail")
    /\ disk' = [disk EXCEPT !.by = "none", !.upto = 0, !.holds = 0, !.failed = TRUE]
    /\ UNCHANGED <<tail, durable>>

\* A file whose fsync failed: nothing of it written, all of it (what failed
\* came after), or its pages given up on, in the cache alone for good.
FailedSync(f) ==
    {f, SyncData(f)} \cup (IF DropsPages THEN {[f EXCEPT !.dirty = {}]} ELSE {})

\* Whether a sync goes through the log. What was written since the last is
\* never empty here: nothing is synced that is.
ThroughLog == Keeps /\ ~tail.direct /\ tail.open
              /\ Takes(tail.slog, tail.sinceAt, Len(tail.since))

\* Tail::sync, through the log: the header and the entry written.
LogWrite ==
    /\ proc = "up" /\ disk.by = "sync" /\ ThroughLog
    /\ LET written == LogAppend(log, tail.slog, tail.since)
       IN  \/ /\ log' = written
              /\ disk' = [disk EXCEPT !.by = "log"]
              /\ UNCHANGED <<tail, durable, budget>>
           \/ /\ log' \in {log, [written EXCEPT !.entries = TornLast(@)]}
              /\ SyncFailed
    /\ UNCHANGED <<main, old, logDisk, proc, db, pending, appended, waiting, stopped, writes>>

\* And the log's fsync.
LogSync ==
    /\ proc = "up" /\ disk.by = "log"
    /\ \/ /\ logDisk' = log
          /\ tail' = [tail EXCEPT !.since = <<>>, !.sinceAt = tail.end,
                        !.slog = [tail.slog EXCEPT !.begun = {}, !.count = @ + 1,
                                                   !.pos = @ + 1 + Len(tail.since),
                                                   !.at = @ + Len(tail.since)]]
          /\ SyncDone /\ UNCHANGED budget
       \/ SyncFailed /\ UNCHANGED logDisk
    /\ UNCHANGED <<main, old, log, proc, db, pending, appended, waiting, stopped, writes>>

\* Tail::sync, past the log: the file's fsync, and the log begins a generation
\* from there, made where there is none. Where it cannot be made every sync is
\* the file's, and where it cannot begin the sink fails.
FileSync ==
    /\ proc = "up" /\ disk.by = "sync" /\ ~ThroughLog
    /\ \/ /\ main' = SyncData(main) /\ old' = {}
          /\ LET t == [tail EXCEPT !.since = <<>>, !.sinceAt = tail.end]
             IN  \/ /\ ~Keeps \/ tail.unmade
                    /\ tail' = t /\ UNCHANGED <<log, logDisk, budget>>
                 \/ /\ Keeps /\ ~tail.open /\ ~tail.unmade /\ Spend("fail")
                    /\ tail' = [t EXCEPT !.unmade = TRUE] /\ UNCHANGED <<log, logDisk>>
                 \/ /\ Keeps /\ ~tail.open /\ ~tail.unmade
                    /\ log' = (IF log.made THEN log ELSE EmptyLog)
                    /\ logDisk' = (IF log.made THEN logDisk ELSE EmptyLog)
                    /\ tail' = Begin(t, main, NewGeneration(log, logDisk)) /\ UNCHANGED budget
                 \/ /\ Keeps /\ tail.open
                    /\ tail' = Begin(t, main, tail.slog.gen)
                    /\ UNCHANGED <<log, logDisk, budget>>
          /\ SyncDone
       \/ /\ SyncFailed
          /\ main' \in FailedSync(main)
          /\ UNCHANGED <<old, log, logDisk>>
    /\ UNCHANGED <<proc, db, pending, appended, waiting, stopped, writes>>

\* Database::fail: whoever ran a durability that failed reports it.
Fail ==
    /\ proc = "up" /\ disk.failed /\ ~stopped
    /\ stopped' = TRUE
    /\ UNCHANGED <<fileVars, proc, db, sinkVars, waiting, durable, writes, budget>>

\* Sink::sync_existing, a primary's before it tells a replica of the file's
\* writes: the whole file synced, what an earlier process wrote included. A
\* failure ends the open.
SyncExisting ==
    /\ Primary /\ proc = "up" /\ disk.by = "none" /\ ~disk.failed
    /\ appended = 0 /\ durable # db
    /\ \/ /\ main' = SyncData(main) /\ old' = {}
          /\ durable' = db
          /\ UNCHANGED <<proc, sinkVars, waiting, stopped, budget>>
       \/ /\ Spend("fail") /\ main' \in FailedSync(main)
          /\ Ended
          /\ UNCHANGED <<old, durable>>
    /\ UNCHANGED <<log, logDisk, db, writes>>

------------------------------------------------------------------------------
(* A rewrite: an image of the database renamed over the file, the disk and *)
(* the database's lock held throughout.                                    *)

\* rewrite_with, adopt: the image is written beside and synced. Where that
\* fails nothing has changed, and it is no step.
StartSwap ==
    /\ proc = "up" /\ ~stopped /\ disk.by = "none" /\ ~disk.failed
    /\ budget["swap"] > 0 /\ budget' = [budget EXCEPT !["swap"] = @ - 1]
    /\ disk' = [disk EXCEPT !.by = "image"]
    /\ UNCHANGED <<fileVars, proc, db, pending, appended, tail, waiting, stopped,
                   durable, writes>>

\* Tail::forget: the file synced and the log removed, durably.
ForgetLog ==
    /\ proc = "up" /\ disk.by = "image"
    /\ IF tail.open \/ log.made
       THEN main' = SyncData(main) /\ log' = NoLog /\ logDisk' = NoLog
       ELSE UNCHANGED <<main, log, logDisk>>
    /\ tail' = [tail EXCEPT !.open = FALSE]
    /\ disk' = [disk EXCEPT !.by = "forgot"]
    /\ UNCHANGED <<old, proc, db, pending, appended, waiting, stopped, durable, writes, budget>>

\* What happens to a directory reaches the disk in its order: where the rename
\* did, the removal of a log before it did too.
Rename ==
    /\ proc = "up" /\ disk.by = "forgot"
    /\ main' = OnDisk(main.ino + 1, <<db>>)
    /\ old' = old \cup {[file |-> main, log |-> logDisk]}
    /\ logDisk' = log
    /\ disk' = [disk EXCEPT !.by = "renamed"]
    /\ UNCHANGED <<log, proc, db, pending, appended, tail, waiting, stopped, durable,
                   writes, budget>>

\* Mutant of SwapIn: what was pending is written after the image that holds it.
SwapInPending ==
    /\ proc = "up" /\ disk.by = "renamed"
    /\ old' = {}
    /\ tail' = ResetTail(tail, Len(main.cache))
    /\ disk' = [disk EXCEPT !.by = "none", !.written = appended - Len(pending),
                            !.synced = appended - Len(pending)]
    /\ UNCHANGED <<main, log, logDisk, proc, db, pending, appended, waiting, stopped, durable,
                   writes, budget>>

\* The directory synced: what was pending is in the image.
SwapIn ==
    /\ proc = "up" /\ disk.by = "renamed"
    /\ old' = {}
    /\ pending' = <<>>
    /\ tail' = ResetTail(tail, Len(main.cache))
    /\ disk' = [disk EXCEPT !.by = "none", !.written = appended, !.synced = appended]
    /\ UNCHANGED <<main, log, logDisk, proc, db, appended, waiting, stopped, durable,
                   writes, budget>>

\* Any of it failed: the sink is.
SwapFails ==
    /\ proc = "up" /\ disk.by \in {"image", "forgot", "renamed"}
    /\ Spend("fail")
    /\ pending' = <<>>
    /\ disk' = [disk EXCEPT !.by = "none", !.failed = TRUE]
    /\ IF disk.by = "image" /\ (tail.open \/ log.made)
       THEN /\ main' \in FailedSync(main)
            /\ log' \in IF main' = SyncData(main) THEN {log, NoLog} ELSE {log}
       ELSE UNCHANGED <<main, log>>
    /\ UNCHANGED <<old, logDisk, proc, db, appended, tail, waiting, stopped, durable, writes>>

------------------------------------------------------------------------------
(* Ends.                                                                   *)

\* FileSink::drop: what is pending is written, and Tail::close syncs the file
\* and removes the log; that removal is not made durable. A write or a sync that
\* fails leaves the log, which the next open applies.
Close ==
    /\ proc = "up" /\ disk.by = "none" /\ waiting = {}
    /\ LET f == WriteAtEnd(main, pending)
           logged == Keeps /\ (tail.open \/ log.made)
       IN  \/ disk.failed /\ UNCHANGED <<main, log, budget>>
           \/ ~disk.failed /\ logged /\ main' = SyncData(f) /\ log' = NoLog /\ UNCHANGED budget
           \/ ~disk.failed /\ ~logged /\ main' = f /\ UNCHANGED <<log, budget>>
           \/ /\ ~disk.failed /\ Spend("fail")
              /\ main' \in WrittenPartly \cup (IF logged THEN FailedSync(f) ELSE {})
              /\ UNCHANGED log
    /\ Ended
    /\ UNCHANGED <<old, logDisk, db, durable, writes>>

\* The process is killed: the operating system keeps what was written.
Kill ==
    /\ proc # "down" /\ Spend("crash")
    /\ Ended
    /\ UNCHANGED <<fileVars, db, durable, writes>>

\* The machine loses power.
PowerLoss ==
    /\ Spend("crash")
    /\ \E q \in {[file |-> main, log |-> logDisk]} \cup old :
        main' \in AfterPowerLoss(q.file) /\ log' \in LogAfterPowerLoss(log, q.log)
    /\ old' = {}
    /\ logDisk' = log'
    /\ Ended
    /\ UNCHANGED <<db, durable, writes>>

\* The log's entries are at most of the generation after its header's.
EntriesFollow(l, ld) ==
    \A h \in l.head \cup ld.head, k \in {l, ld} :
        \A i \in 1 .. Len(k.entries) : k.entries[i].gen <= h.gen + 1

\* A copy of the file as it once was is renamed into its place by hand, the log
\* left beside it. An entry two generations past the header left there could be
\* taken for one of the copy's own: no copy is put in place then.
Replaced ==
    /\ proc = "down" /\ Spend("crash") /\ EntriesFollow(log, logDisk)
    /\ \E n \in 0 .. Readable(main.cache) :
        LET copy == SubSeq(main.cache, 1, n)
        IN  /\ main' = OnDisk(main.ino + 1, copy)
            /\ db' = Content(copy) /\ durable' = Content(copy)
    /\ old' = {}
    /\ UNCHANGED <<log, logDisk, proc, sinkVars, waiting, stopped, writes>>

------------------------------------------------------------------------------
(* Opens: the log applied, the file read, what a crash cut short cut off.  *)

\* recover, where the log names the file: what the file lost is written.
Recover ==
    /\ proc = "down" /\ log.made
    /\ \E h \in log.head : Names(h, main) /\ main' = PutBack(main, log, h)
    /\ proc' = "applied"
    /\ UNCHANGED <<old, log, logDisk, db, sinkVars, waiting, stopped, durable, writes, budget>>

\* Mutant of RecoverSync: a file that held every entry is not synced.
RecoverUnsynced ==
    /\ proc = "applied"
    /\ proc' = "synced"
    /\ UNCHANGED <<fileVars, db, sinkVars, waiting, stopped, durable, writes, budget>>

\* The file synced, then the header wiped, then the log synced.
RecoverSync ==
    /\ proc = "applied"
    /\ main' = SyncData(main) /\ old' = {}
    /\ proc' = "synced"
    /\ UNCHANGED <<log, logDisk, db, sinkVars, waiting, stopped, durable, writes, budget>>

Wipe ==
    /\ proc = "synced"
    /\ log' = [log EXCEPT !.head = {}]
    /\ proc' = "wiped"
    /\ UNCHANGED <<main, old, logDisk, db, sinkVars, waiting, stopped, durable, writes, budget>>

WipeSync ==
    /\ proc = "wiped"
    /\ logDisk' = log
    /\ proc' = "load"
    /\ UNCHANGED <<main, old, log, db, sinkVars, waiting, stopped, durable, writes, budget>>

NothingToRecover ==
    /\ proc = "down"
    /\ log.made => \A h \in log.head : ~Names(h, main)
    /\ proc' = "load"
    /\ UNCHANGED <<fileVars, db, sinkVars, waiting, stopped, durable, writes, budget>>

\* Database::load, and FileSink::cut where a crash left a record cut short.
Load ==
    /\ proc = "load" /\ Loads(main.cache)
    /\ LET whole == Readable(main.cache)
       IN  /\ main' = IF whole < Len(main.cache) THEN SyncData(Truncated(main, whole)) ELSE main
           /\ db' = Content(SubSeq(main.cache, 1, whole))
           /\ tail' = NewTail(whole)
    /\ proc' = "up"
    /\ UNCHANGED <<old, log, logDisk, pending, appended, disk, waiting, stopped, durable,
                   writes, budget>>

\* A file with bytes that are no record is refused, and left as it is.
Refuse ==
    /\ proc = "load" /\ ~Loads(main.cache)
    /\ proc' = "refused"
    /\ UNCHANGED <<fileVars, db, sinkVars, waiting, stopped, durable, writes, budget>>

Next ==
    \/ AppendRecord \/ Flush \/ WriteOut \/ LogWrite \/ LogSync \/ FileSync \/ Fail
    \/ \E w \in waiting : RunDurability(w)
    \/ SyncExisting \/ StartSwap \/ ForgetLog \/ Rename \/ SwapIn \/ SwapFails
    \/ Close \/ Kill \/ PowerLoss \/ Replaced
    \/ Recover \/ RecoverSync \/ Wipe \/ WipeSync \/ NothingToRecover \/ Load \/ Refuse

Spec == Init /\ [][Next]_vars

------------------------------------------------------------------------------
(* What the sink promises.                                                 *)

\* The sink's state has its type, and its counts their order: what is synced was
\* written, what was written appended (FileSink, Disk, Tail of fs.rs).
TypeOK ==
    /\ proc \in {"down", "applied", "synced", "wiped", "load", "up", "refused"}
    /\ db \in Seq(1 .. MaxWrites) /\ durable \in Seq(1 .. MaxWrites)
    /\ writes \in 0 .. MaxWrites
    /\ pending \in Seq(Seq(Int)) /\ appended \in Nat
    /\ disk \in [by : {"none", "sync", "log", "image", "forgot", "renamed"}, upto : Nat,
                 holds : Nat, written : Nat, synced : Nat, failed : BOOLEAN]
    /\ disk.synced <= disk.written /\ disk.written <= appended
    /\ tail \in [open : BOOLEAN, unmade : BOOLEAN, end : Nat, since : Seq(Seq(Int)),
                 sinceAt : Nat, direct : BOOLEAN,
                 slog : [gen : Nat, pos : Nat, at : Nat, count : Nat,
                         begun : SUBSET [gen : Nat, base : Nat, ino : Nat,
                                         print : Seq(Seq(Int))]]]
    /\ \A w \in waiting : /\ w \in [upto : Nat, holds : Nat]
                          /\ w.upto <= appended /\ w.holds <= Len(db)
    /\ stopped \in BOOLEAN
    /\ budget \in [writes : 0 .. MaxWrites, crash : Nat, fail : Nat, swap : Nat, waiting : Nat]

\* Every write reported durable is in the file an open reads, before any place
\* the file may have lost: whatever was killed, whatever power was lost,
\* between whatever steps of a sync, a rewrite, a close or an open.
DurableSurvives ==
    LET held == Content(SubSeq(main.cache, 1, Readable(main.cache)))
    IN  proc = "load" => Len(durable) <= Len(held) /\ SubSeq(held, 1, Len(durable)) = durable

\* The file and what is pending hold every write taken, each once and in the
\* order it came, until the sink fails: through buffered writes, shared syncs,
\* rewrites and torn tails (Disk::write_pending, FileSink::swap_in, cut).
FileHolds ==
    LET cells == main.cache \o pending
    IN  proc = "up" /\ ~disk.failed /\ disk.by \in {"none", "sync", "log"} =>
            /\ Content(cells) = db
            /\ \A i \in 2 .. Len(cells) : SubSeq(cells[i], 1, Len(cells[i]) - 1) = cells[i - 1]

\* What the tail would write to the log is the file's bytes since the last sync,
\* all of them, at their place: buffered writes, an outgrown entry, a swapped
\* file and a generation begun again leave none out (Tail::wrote, reset, sync).
TailFollows ==
    proc = "up" /\ ~disk.failed /\ disk.by \in {"none", "sync"} =>
        /\ tail.end = Len(main.cache)
        /\ Keeps /\ ~tail.direct => tail.since = SubSeq(main.cache, tail.sinceAt + 1, tail.end)

\* The sink implements a durable log: an open loses only what was never
\* reported durable, and brings back only what was taken.
Log == INSTANCE DurableLog WITH taken <- db, Writes <- 1 .. MaxWrites
Implements == Log!Spec
=============================================================================
