----------------------------- MODULE ServerSync -----------------------------
(***************************************************************************)
(* When a server's writes reach the disk, and how it stops: the requests,  *)
(* the sweeper of expired rows, the syncer and the one shutdown over one   *)
(* database (crates/fenec-server/src/durability.rs; flush_for and          *)
(* await_durable of crates/fenec-http/src/lib.rs; sweep.rs; the dirty flag *)
(* and the storage failure of fenec-core's engine.rs).                     *)
(*                                                                         *)
(* Every step under the database's write lock is one action; a durability  *)
(* runs after the lock is let go and takes the disk. The file itself is    *)
(* FileSink's: here a write is its number, and the file is how many were   *)
(* appended, written and synced.                                           *)
(***************************************************************************)
EXTENDS Integers, FiniteSets

CONSTANTS
    Requests,     \* the write requests, one write each
    Started,      \* the ways the server may be started: --sync ("off", "always" or
                  \* "interval"), and whether a stop writes a checkpoint
    MaxSweeps,    \* bound: batches the sweeper deletes
    MaxFail       \* bound: disk failures

ASSUME ServerAssumption ==
    /\ Started \subseteq [policy : {"off", "always", "interval"}, checkpoints : BOOLEAN]
    /\ MaxSweeps \in Nat /\ MaxFail \in Nat
    /\ "sweeper" \notin Requests /\ "syncer" \notin Requests

\* The threads that run a durability.
Threads == Requests \cup {"sweeper", "syncer"}

\* What a thread may be at.
Places == {"idle", "flushed", "syncing", "failing", "answered", "behind", "refused",
           "looked", "stopping", "final", "exited"}

VARIABLES
    server,      \* how the server was started
    appended,    \* writes appended to the sink
    written,     \* Disk: of them, written to the file
    synced,      \* Disk: of them, made durable
    broken,      \* Disk::failed
    dirty,       \* Database::dirty
    failed,      \* Database::failed: writes and syncs are refused
    thread,      \* what each thread is at
    upto,        \* the writes a thread's durability is for; a request's, its write
    holder,      \* who holds the disk, if anyone
    stop,        \* SHUTDOWN
    budget       \* what is left of the bounds

diskVars == <<written, synced, broken, holder>>
vars == <<appended, diskVars, dirty, failed, thread, upto, stop, budget>>

Policy == server.policy
Checkpoints == server.checkpoints

Init ==
    /\ server \in Started
    /\ appended = 0 /\ written = 0 /\ synced = 0
    /\ broken = FALSE /\ dirty = FALSE /\ failed = FALSE
    /\ thread = [t \in Threads |-> "idle"]
    /\ upto = [t \in Threads |-> 0]
    /\ holder = {} /\ stop = FALSE
    /\ budget = [sweep |-> MaxSweeps, fail |-> MaxFail]

\* Mutant of Unlocked: the lock is let go of between the final sync and the exit.
UnlockedBeforeExit == thread["syncer"] \notin {"stopping", "exited"}

\* The shutdown takes the write lock and keeps it to the exit.
Unlocked == thread["syncer"] \notin {"stopping", "final", "exited"}
Alive == thread["syncer"] # "exited"
SpendFail == budget["fail"] > 0 /\ budget' = [budget EXCEPT !["fail"] = @ - 1]
Goes(t, to) == thread' = [thread EXCEPT ![t] = to]

------------------------------------------------------------------------------
(* Writes.                                                                 *)

\* A write request under the lock, refused after a storage error: its record
\* goes to the sink's buffer. Under `always` it is flushed, to be answered once
\* its durability has run; otherwise it is answered, the buffer first written
\* behind the lock where it holds enough.
Write(r) ==
    /\ Unlocked /\ thread[r] = "idle"
    /\ IF failed
       THEN Goes(r, "refused") /\ UNCHANGED <<appended, dirty, upto>>
       ELSE /\ appended' = appended + 1
            /\ upto' = [upto EXCEPT ![r] = appended + 1]
            /\ dirty' = (Policy # "always")
            /\ \E to \in IF Policy = "always" THEN {"flushed"} ELSE {"answered", "behind"} :
                   Goes(r, to)
    /\ UNCHANGED <<diskVars, failed, stop, budget>>

\* A write whose record outgrows the buffer: it takes the disk under the lock
\* and writes what is pending, and a failure of that refuses it.
WriteThrough(r) ==
    /\ Unlocked /\ thread[r] = "idle" /\ ~failed /\ holder = {}
    /\ \/ /\ ~broken
          /\ appended' = appended + 1 /\ written' = appended + 1
          /\ upto' = [upto EXCEPT ![r] = appended + 1]
          /\ dirty' = (Policy # "always")
          /\ Goes(r, IF Policy = "always" THEN "flushed" ELSE "answered")
          /\ UNCHANGED <<broken, failed, budget>>
       \/ /\ IF broken THEN UNCHANGED <<broken, budget>> ELSE SpendFail /\ broken' = TRUE
          /\ failed' = TRUE /\ Goes(r, "refused")
          /\ UNCHANGED <<appended, written, upto, dirty>>
    /\ UNCHANGED <<synced, holder, stop>>

\* FileSink::write_behind on the request's thread: what is pending is written,
\* with no fsync, unless a durability holds the disk, which writes it itself.
WriteBehind(r) ==
    /\ Alive /\ thread[r] = "behind"
    /\ \/ /\ holder # {} /\ Goes(r, "answered")
          /\ UNCHANGED <<written, broken, budget>>
       \/ /\ holder = {} /\ ~broken
          /\ written' = appended /\ Goes(r, "answered")
          /\ UNCHANGED <<broken, budget>>
       \/ /\ holder = {}
          /\ IF broken THEN UNCHANGED <<broken, budget>> ELSE SpendFail /\ broken' = TRUE
          /\ Goes(r, "failing")
          /\ UNCHANGED written
    /\ UNCHANGED <<appended, synced, holder, dirty, failed, upto, stop>>

\* pass_after: a batch of expired rows deleted and flushed under the lock.
Sweep ==
    /\ Unlocked /\ thread["sweeper"] = "idle" /\ ~failed
    /\ budget["sweep"] > 0 /\ budget' = [budget EXCEPT !["sweep"] = @ - 1]
    /\ appended' = appended + 1
    /\ upto' = [upto EXCEPT !["sweeper"] = appended + 1]
    /\ dirty' = FALSE
    /\ Goes("sweeper", "flushed")
    /\ UNCHANGED <<diskVars, failed, stop>>

------------------------------------------------------------------------------
(* A durability, on its thread.                                            *)

\* What a thread is at once its durability has done, or has not.
After(t) == IF t \in Requests THEN "answered" ELSE "idle"

\* Mutant of TakeDisk: writes written to the file are taken for durable ones.
TakeDiskWritten(t) ==
    /\ Alive /\ holder = {} /\ thread[t] = "flushed"
    /\ IF broken THEN Goes(t, "failing") /\ UNCHANGED <<written, holder>>
       ELSE IF written >= upto[t] THEN Goes(t, After(t)) /\ UNCHANGED <<written, holder>>
       ELSE written' = appended /\ holder' = {t} /\ Goes(t, "syncing")
    /\ UNCHANGED <<appended, synced, broken, dirty, failed, upto, stop, budget>>

\* It takes the disk and writes what is pending, unless its writes are durable.
TakeDisk(t) ==
    /\ Alive /\ holder = {} /\ thread[t] = "flushed"
    /\ IF broken THEN Goes(t, "failing") /\ UNCHANGED <<written, holder>>
       ELSE IF synced >= upto[t] THEN Goes(t, After(t)) /\ UNCHANGED <<written, holder>>
       ELSE written' = appended /\ holder' = {t} /\ Goes(t, "syncing")
    /\ UNCHANGED <<appended, synced, broken, dirty, failed, upto, stop, budget>>

\* The fsync, of what was written: one for every write that came before it.
Fsync(t) ==
    /\ Alive /\ holder = {t} /\ thread[t] = "syncing"
    /\ holder' = {}
    /\ \/ /\ synced' = written /\ Goes(t, After(t))
          /\ UNCHANGED <<broken, budget>>
       \/ /\ SpendFail
          /\ broken' = TRUE /\ Goes(t, "failing")
          /\ UNCHANGED synced
    /\ UNCHANGED <<appended, written, dirty, failed, upto, stop>>

\* Database::fail, under the lock: the failure reported to the engine.
ReportFailure(t) ==
    /\ Unlocked /\ thread[t] = "failing"
    /\ failed' = TRUE
    /\ Goes(t, IF t \in Requests THEN "refused" ELSE "idle")
    /\ UNCHANGED <<appended, diskVars, dirty, upto, stop, budget>>

------------------------------------------------------------------------------
(* run_syncer and shutdown.                                                *)

\* A pass under `--sync <ms>` looks under a read lock, then flushes under the
\* write lock.
Look ==
    /\ thread["syncer"] = "idle" /\ ~stop /\ Policy = "interval"
    /\ dirty /\ ~failed
    /\ Goes("syncer", "looked")
    /\ UNCHANGED <<appended, diskVars, dirty, failed, upto, stop, budget>>

\* Mutant of Flush: the durability is for the writes of the last one.
FlushStale ==
    /\ thread["syncer"] = "looked"
    /\ dirty' = FALSE
    /\ Goes("syncer", "flushed")
    /\ UNCHANGED <<appended, diskVars, failed, upto, stop, budget>>

Flush ==
    /\ thread["syncer"] = "looked"
    /\ IF failed THEN Goes("syncer", "idle") /\ UNCHANGED <<dirty, upto>>
       ELSE /\ dirty' = FALSE
            /\ upto' = [upto EXCEPT !["syncer"] = appended]
            /\ Goes("syncer", "flushed")
    /\ UNCHANGED <<appended, diskVars, failed, stop, budget>>

\* A signal, stdin's end or a failure beside the database.
RequestShutdown ==
    /\ ~stop /\ stop' = TRUE
    /\ UNCHANGED <<appended, diskVars, dirty, failed, thread, upto, budget>>

\* Mutant of StartShutdown: a server whose storage failed is left running.
StartUnlessFailed ==
    /\ thread["syncer"] = "idle" /\ stop /\ ~failed
    /\ Goes("syncer", "stopping")
    /\ UNCHANGED <<appended, diskVars, dirty, failed, upto, stop, budget>>

\* The syncer sees the flag between two passes and takes the lock.
StartShutdown ==
    /\ thread["syncer"] = "idle" /\ stop
    /\ Goes("syncer", "stopping")
    /\ UNCHANGED <<appended, diskVars, dirty, failed, upto, stop, budget>>

\* The final sync, where a write waits for one. It waits for the disk, and a
\* failure of it is only logged.
FinalSync ==
    /\ thread["syncer"] = "stopping"
    /\ dirty /\ ~failed => holder = {}
    /\ \/ /\ dirty /\ ~failed /\ ~broken
          /\ written' = appended /\ synced' = appended /\ dirty' = FALSE
          /\ UNCHANGED <<broken, failed, budget>>
       \/ /\ dirty /\ ~failed /\ ~broken
          /\ SpendFail
          /\ broken' = TRUE /\ failed' = TRUE
          /\ UNCHANGED <<written, synced, dirty>>
       \/ /\ ~dirty \/ failed \/ broken
          /\ failed' = (failed \/ (dirty /\ broken))
          /\ UNCHANGED <<written, synced, dirty, broken, budget>>
    /\ Goes("syncer", "final")
    /\ UNCHANGED <<appended, upto, holder, stop>>

\* The checkpoint, a file rewritten whole and synced, where one is due; then the
\* exit. What other threads still hold ends with the process.
Exit ==
    /\ thread["syncer"] = "final"
    /\ \/ /\ ~Checkpoints \/ failed \/ broken
          /\ UNCHANGED <<written, synced, dirty, broken, failed, budget>>
       \/ /\ Checkpoints /\ ~failed /\ ~broken /\ holder = {}
          /\ written' = appended /\ synced' = appended /\ dirty' = FALSE
          /\ UNCHANGED <<broken, failed, budget>>
       \/ /\ Checkpoints /\ ~failed /\ ~broken /\ holder = {}
          /\ SpendFail
          /\ broken' = TRUE /\ failed' = TRUE
          /\ UNCHANGED <<written, synced, dirty>>
    /\ Goes("syncer", "exited")
    /\ UNCHANGED <<appended, upto, holder, stop>>

Step ==
    \/ \E r \in Requests : Write(r) \/ WriteThrough(r) \/ WriteBehind(r)
    \/ \E t \in Threads : TakeDisk(t) \/ Fsync(t) \/ ReportFailure(t)
    \/ Sweep \/ Look \/ Flush \/ RequestShutdown \/ StartShutdown \/ FinalSync \/ Exit

Next == Step /\ UNCHANGED server

\* The threads run: a pass comes every interval, a durability runs on a thread
\* that waits for nothing but the disk. No request has to come, and no stop.
Fairness ==
    /\ WF_vars(Look) /\ WF_vars(Flush) /\ WF_vars(StartShutdown) /\ WF_vars(FinalSync)
    /\ WF_vars(Exit) /\ \A r \in Requests : WF_vars(WriteBehind(r))
    /\ \A t \in Threads : WF_vars(TakeDisk(t)) /\ WF_vars(Fsync(t)) /\ WF_vars(ReportFailure(t))

Spec == Init /\ [][Next]_<<server, vars>> /\ Fairness

------------------------------------------------------------------------------
(* What a server promises of its writes.                                   *)

\* The counts keep their order, and a disk is held by a thread at its fsync
\* (Disk, Database).
TypeOK ==
    /\ appended \in Nat /\ written \in 0 .. appended /\ synced \in 0 .. written
    /\ dirty \in BOOLEAN /\ failed \in BOOLEAN /\ broken \in BOOLEAN /\ stop \in BOOLEAN
    /\ holder = {t \in Threads : thread[t] = "syncing"} /\ Cardinality(holder) <= 1
    /\ upto \in [Threads -> 0 .. appended]
    /\ thread \in [Threads -> Places]

\* Under `--sync always` a write that was answered is durable, whichever
\* request's fsync covered it and whatever failed meanwhile (flush_for,
\* await_durable: writes arriving together share one fsync).
AnsweredDurable ==
    Policy = "always" => \A r \in Requests : thread[r] = "answered" => upto[r] <= synced

\* A storage error anyone met is the disk's, which stays failed: the engine
\* refuses writes and a thread has a failure to report only after one
\* (Database::fail, Disk::failed).
FailureKept == /\ failed => broken
               /\ \A t \in Threads : thread[t] = "failing" => broken

\* A write is durable, or the dirty flag stands for it, or a durability of the
\* sweeper or of the syncer is under way that covers it, unless the disk failed.
Covered(r) ==
    \/ upto[r] <= synced \/ dirty \/ broken
    \/ \E t \in {"sweeper", "syncer"} :
           thread[t] \in {"flushed", "syncing"} /\ upto[r] <= upto[t]

\* No write that was answered is forgotten: whoever clears the dirty flag takes
\* on a durability for it, and the flag is clear after a shutdown's final sync
\* (Database::flush, run_syncer, pass_after).
NoneForgotten ==
    /\ \A r \in Requests : thread[r] \in {"answered", "behind"} => Covered(r)
    /\ thread["syncer"] \in {"final", "exited"} => ~dirty \/ broken
    /\ \A t \in Threads : thread[t] = "syncing" => upto[t] <= written
    /\ Policy = "always" => \A r \in Requests : thread[r] # "behind"

\* The counts, the holder of the disk, the dirty flag and the failures agree
\* with the threads, no write that was answered is forgotten, and under `--sync
\* always` none is answered that the disk has not (flush_for, Disk::sync).
ServerInv == TypeOK /\ FailureKept /\ NoneForgotten /\ AnsweredDurable

\* A server that stopped with no storage error has every write it answered on
\* the disk, under any --sync and whatever the exit cut short (shutdown's final
\* sync) -- but for a sweep's durability, which the final sync does not wait for.
StopsSynced ==
    ~Alive /\ ~broken /\ thread["sweeper"] \notin {"flushed", "syncing"} =>
        \A r \in Requests : thread[r] = "answered" => upto[r] <= synced

\* Under `--sync <ms>` a write does not stay at risk: it is durable in the end
\* unless the disk failed or the server stopped before (run_syncer: at most one
\* interval's worth of writes is at risk).
ReachesDisk ==
    Policy = "interval" =>
        \A r \in Requests :
            (thread[r] = "answered") ~> (upto[r] <= synced \/ broken \/ ~Alive)

\* A shutdown asked for ends in the exit, whoever held the disk or waits for it
\* (run_syncer, shutdown).
StopEnds == stop ~> ~Alive
=============================================================================
