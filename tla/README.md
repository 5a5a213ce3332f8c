# Verification of fenec

TLA+ models of the parts of fenec whose correctness rests on interleavings,
crashes, late messages and clocks, the TLC runs that check them on small
instances, and TLAPS proofs of what matters most. `PROJECT.json` lists every
run, the lines each definition models, the hazards and the theorems.

| Modules | Part |
|---|---|
| `LeaseNode`, `Leasing`, `LeasingInv` | leases and automatic failover |
| `LeasingFacts`, `LeasingProofs` | their proofs |
| `SyncLog`, `FileSink`, `DurableLog` | the file, its sync log, and what both promise |
| `KeptFile`, `FileSinkInv` | what a file and its log keep, and the sink's invariant |
| `FileSinkFacts`, `FileSinkOpens`, `FileSinkWrites`, `FileSinkProofs` | the file's proofs |
| `ServerSync`, `ServerSyncProofs` | a server's syncs and its stop, and their proofs |
| `FeedRing`, `Feed`, `FeedProofs` | what a primary sends its replicas, and its proofs |
| `History`, `Replication` | servers that follow one another |
| `Tenants` | one tenant in a node's registry |
| `ChangeLog`, `Subscriptions`, `Looks` | the change ring and its two readers |
| `Waits` | writes held for a row |
| `MC*` | instances for TLC, one a specification |

Every specification but `Leasing`, `FileSink` and `ServerSync` has a `setting`,
chosen in `Init` and never changed: what is asked of the part, and the bounds of
that instance. One run so covers several small instances, each with few enough
things in it to be explored whole. `CHECK_DEADLOCK FALSE` is everywhere because a
behaviour ends at its bounds. Most modules have one invariant named for them
(`SinkInv`, `ServerInv`, `StreamInv`, `LooksInv`, `WaitsInv`, `HistoryInv`,
`RegistryInv`, `FeedInv`, `LeaseInv`): its types and what its parts say of each
other.

## The system

fenec is a document database: an engine over one append-only file
(`fenec-core`), a server over one file or over a directory of tenants, one file
each (`fenec-http`, `fenec-server`), and a router that places tenants on nodes
and fails them over (`fenec-shard`).

| Part | State | Operations | What is hard | What must hold |
|---|---|---|---|---|
| Database file (`fs.rs`) | buffer, what is written and synced, a failure | append, flush, sync, rewrite, open, close | durabilities run without the database's lock; a crash between any two steps; a write or fsync failing | what was reported durable is read back; the file holds each write once, in order |
| Sync log (`synclog.rs`) | a header naming a file, entries of a generation | begin, append, recover | torn headers and entries, generations reusing their room, a log beside another file | recovery puts back every synced entry and no other |
| Server durability (`durability.rs`, `sweep.rs`) | the dirty flag, the threads' durabilities, the shutdown flag | answer, sweep, sync, stop | flags read under one lock and used under another; a stop racing an fsync | an answer under `always` is durable; a stop leaves nothing behind and ends |
| Leases (`lease.rs` of both sides, `lib.rs`) | a node's list and lease; the router's record of each node; the directory | grant, answer, lapse, failover | grants read late or out of order, clocks that differ, routers and nodes restarted | a tenant is written on one node alone |
| Directory (`directory.rs`) | placements, term, longest lease | place, promote, record | the file and the map changed apart | a restart finds what was acted upon |
| Replication (`replication.rs`, `node_stream.rs`) | a feed of records, its durable horizon, cursors | push, send, image, wait | sent before durable, a cursor behind the ring | a replica holds a prefix of what the primary made durable |
| Tenants (`tenants.rs`) | slots, open instances | get, close, follow, promote, delete | closes and opens under requests | one instance of a file; no request on a closed one |
| Held writes (`waits.rs`) | waiting writes by group, one looker | hold, wake, look, time out | lost wake-ups, a timeout racing an answer | each held write is answered once |
| Change feed (`cdc.rs`, `changes.rs`) | a ring, consumers' cursors | page, commit | a cursor past the horizon or on another history | no change skipped silently |
| Archives (`archive.rs`, `node_archive.rs`) | images and segments | follow, restore, prune | a stop between two files | every kept moment is restorable |
| Idempotency, quotas, access, tracing | keys, counters, rules | per request | a retry after a lost answer; counters at a limit | a key's write happens once |
| Engine (`engine.rs`, `handover.rs`, `garbage.rs`) | stores, indexes, blocks | execute, hand over, compact | a block failing half way; documents moved while the file is replaced | a block is all or nothing |
| Query language, indexes, importers, native library | | | sequential, or processes outside the repository | |

The parts touch where one's promise is the other's premise: `ServerSync` takes
from `FileSink` that a sync makes everything written durable; a failover's
promotion is safe because the old node's lease has lapsed; a replica may only be
promoted to what its primary made durable.

## Leases and automatic failover

`LeaseNode` is a node's lease: what it holds (`State`), and what reading one
grant does to it (`Lease::grant_at`). `Leasing` puts the router beside the nodes.

- `lease`, `grants`, `reply`: the nodes, and the messages either way. A grant is
  in flight until it is read, in any order; the router gives up on it whenever it
  likes (`GiveUp`) and the node may read it all the same.
- `router`, `held`, `turn`, `sent`, `queue`: `Leases` and its `Held`, the turn a
  node's grants take (one mutex a node), the newest reading of the directory
  sent, and the grants waiting for the turn.
- `place`, `record`: the directory's placements and the longest lease it records.
- `withheld`, `left`: what a failover left behind because another operation held it.
- `now`, `boot`: the router's clock and what each node's clock reads beside it.

`TakeTurn`, `Hear`, `GiveUp` and `NodeReads` are a grant; `Round`, `ConfirmLapse`,
`Promote` and `FinishFailover` a round and a failover; `HeldPass` and `HeldEnd`
what goes back to the tenants left; `NextRouter` a process that follows another
over the same directory, with any lease; `NodeRestarts` a node that forgets.

The one assumption on clocks is `ClockKept`: over more than a lease and its
margin a node's clock counts at least the lease. The code's tenth of a margin
(`lapse`) is there for it, and the model takes any share.

Left out: moving a tenant (its source is frozen, not fenced), a failover by hand
(it waits for no lease), which copy is promoted (any other node), a router from
before numbered grants (the code says its late grant's hole is open), a directory
whose first record cannot be written (likewise).

| Run | Instance | Shows |
|---|---|---|
| `leasing` | one router process, a node that restarts and keeps one answer, a lease of 2, two grants a node, four readings of the directory | `OnePrimary`, `WithheldTracked`, and `LeaseInv`, from which the theorems are proved |
| `routers` | two processes, leases of 1 and 2 | `OnePrimary`, `RecordCovers` |

A lease of 2 with a margin of 1 lapses at the fourth tick, the first moment a
failover can come; two grants are one taken and one late, and four readings take
a failover back to what it left. Each node's part of the state meets the others'
only through the directory and a failover's choice of a node, for which
`Elsewhere` stands; so the runs watch one node, and the proofs hold for any set.

### What is proved

For any nodes, tenants, leases, margin, number of kept answers and bounds, under
the modules' named assumptions alone:

| Theorem | States |
|---|---|
| `TypeCorrect` (`LeasingFacts`) | `Spec => []TypeOK` |
| `LeaseInvariant` (`LeasingProofs`) | `Spec => []LeaseInv` |
| `WrittenOnOneNode` | `Spec => []OnePrimary` |
| `RecordOutlasts` | `Spec => []RecordCovers` |
| `WithheldInvariant` | `Spec => []WithheldInv` |
| `NoneLeftOut` | `Spec => []WithheldTracked` |

`OnePrimary` is not inductive: it says nothing of the grants in flight. `LeaseInv`
(`LeasingInv`) does. Its heart is `CanRun`: whether a grant, read now, would have
its node run a lease. A lease runs from an answer the node still keeps, and
acknowledged answers are older than the moment the router counts from
(`AnswersInv`), so once the router has counted past a lease and its margin no
grant in flight can run and none running is left (`LostInv`); only then may a
tenant leave the node. What can still run names only tenants placed there
(`ListsInv`), because a reading older than the newest sent is dropped. For a
router that follows another, `GrantTermsInv` and `LeaseTermInv` bound what an
earlier process's grants may run by the record, until a lease of this process
took their place.

`LeasingFacts` has the facts about grants, records and turns that every action's
proof uses, and the types; then a tenant's arrival, a lapse confirmed, a
promotion, a restart and a tick. `LeasingProofs` has a grant sent, a failover's end
and a round, a turn, an answer heard, a router that follows another and the node's
reading of a grant, what every step leaves out of a node's grants, and the
theorems. `WithheldInv` is a second, small invariant: that
a failover goes back to all it left needs that a node's grants leave tenants out
only while the router takes it for lost.

Every proof module gives its leaves to Zenon, which the first-order ones need no
more than, and names the SMT solver (`SMTT`) in the leaves that count.

## The file and its sync log

`SyncLog` has files as an operating system keeps them (what was written, what is
on the disk, which places are dirty) and the log's operations; `FileSink` the sink
over them, one action a step that a crash can fall between. `DurableLog` is what
a file promises: writes are taken, some first part of them is reported durable,
and a crash loses only what comes after it.

A file is a sequence of cells, a cell a record; a cell's value is all the
database holds once it was read that far, so that an image is one cell and a
record applied twice, left out or put in another file shows.

- `AppendRecord`, `Flush`, `WriteOut`: the sink under the database's lock.
- `RunDurability`, `LogWrite`, `LogSync`, `FileSync`: a durability on its
  caller's thread; it holds the disk from the first to the last, and appends go
  on meanwhile.
- `StartSwap`, `ForgetLog`, `Rename`, `SwapIn`, `SwapFails`: a rewrite.
- `Recover`, `RecoverSync`, `Wipe`, `WipeSync`, `Load`, `Refuse`: an open.
- `Close`, `Kill`, `PowerLoss`, `Replaced`: the ends, and a file renamed in by hand.

Power loss keeps, of each dirty place and of the length, the old or the new, in
any combination, and may cut the last record short. Until a rename is on the disk
the path may name any file it named since the last one that was (`old`).
Assumed of the system: an fsync of a file makes its rename durable too; what
happens to a directory reaches the disk in its order, so that a log whose removal
is lost comes back only with the file it was beside; the generation a log takes
from the clock is fresh; a sink is dropped once no durability of it is outstanding.
Records carry no checksum: zeros where a record was lost make an open refuse the
file (`Refuse`), and so `DurableSurvives` asks that what was reported durable is in
the file, in front of any damage. A dead tail a spill leaves is not modelled.

The run `filesink` has three instances, with two crashes each. One has three
writes, two durabilities at once, a rewrite and a failure. One has five writes: an
entry takes two records and the log two entries of one, so that the first write
syncs the file, two entries fill the log, the fourth write begins a generation and
the fifth is its entry, and three writes in one buffer outgrow an entry. And one has
two rewrites and a failure, so that a second rename comes before the first is on
the disk. It shows `DurableSurvives`, `SinkInv` (the file and what is pending hold
every write taken once and in order, the log's tail is the file's bytes since the
last sync, and what the proofs add to that) and `Implements`: the sink refines
`DurableLog`, where a copy put in the file's place by hand is a step of its own
that takes what is durable back to the copy.

### What is proved

For any size of an entry, of the log and of a fingerprint, with a log or without,
for a primary or another, any number of writes, durabilities, failures, rewrites,
kills and losses of power, under `LogAssumption` and `SinkAssumption`, where a failed
fsync leaves its pages to be written again (`~DropsPages`, see the disagreements
below):

| Theorem (`FileSinkProofs`) | States |
|---|---|
| `SinkAlwaysHolds` | `Spec => []SinkInv` |
| `DurableAlwaysSurvives` | `Spec => []DurableSurvives` |
| `SinkIsDurableLog` | `Spec => Implements` |

`DurableSurvives` is of the moment an open reads the file. What leads there is in
`KeptFile`, of a file `f`, the log as written `l` and as on the disk `ld`, and the
writes taken `d`:

- `FileKept`: every cell is a record of `d` in its place, or bytes that are none.
  A file starts at an offset `o` of `d`, which is where an image put it.
- `LogKept`: of each header that names this file, the bytes it goes on from are on
  the disk, the entries an open would put back under it (`Held`) are records in
  their place, and what the disk has of them the written log starts with; a header
  about to be written over needs none of its entries (`Retired`). A header of
  another file can only name entries no generation of this one will be.
- `Reach`: the first `n` writes are each on the disk, or in an entry held under a
  header that is both written and on the disk (`Safe`).

`Kept` is the three of them. `FileSinkFacts` shows what each operation makes of it
with no word of the process: a write, a sync, a cut, an entry written or torn, a
header wiped, a log removed; that a loss of power, which takes any of the dirty
places and any mix of the two logs, keeps it; and that after `PutBack` what was in
reach is in the file. `FileSinkInv` adds the process: `Counts` (what a durability
covers), `Opening` (how far an open has come), `Holding` (the file and the buffer
together are `d`), `Following` (what the tail would log next, at which place, under
which generation), and `OldKept` (every file a rename replaced is `Kept` too, with
the image's writes, until a rename is on the disk). `SinkCore` is their conjunction
under one offset, and every action keeps it: `FileSinkOpens` has the ends, the
opens and the appends, `FileSinkWrites` the writes to the file and a sync through
the log, `FileSinkProofs` a sync past it, a rewrite, and the theorems.

The proof of `PutBack` is an induction over the entries of a generation, by way of
the least entry that breaks the rule: each entry starts where the one before it
ends, so what they put back has no hole.

Three things had to be said that no instance small enough for TLC had shown. A
second rename before the first is on the disk leaves both older files possible. A
log that comes back after a loss of power is the one beside the file that came back
with it. And a header left by another file bounds which generations the entries
beside it may be (`Another`), which the code's comment takes for granted: see
`EntriesFollow` below.

## A server's syncs and its stop

`ServerSync` is one database under its requests, the sweeper, the syncer and the
one shutdown, a step under the database's write lock an action. The file is three
counts: appended, written, synced.

The run `server` starts it under each `--sync` (an interval, `always` with
checkpoints, and off), with two requests, a sweep and a failure. `ServerInv`: no
answered write is forgotten, and under `always` nothing is answered the disk has
not. `StopsSynced`: a server that stopped left every answer on the disk.
`ReachesDisk`: under an interval an answered write is durable in the end.
`StopEnds`: a stop asked for ends in the exit.

Fairness is weak, on the steps of a thread that has work: the syncer's pass comes
each interval, a durability waits for the disk alone, and whoever holds the disk
lets it go after one fsync. Threads contending for it are finitely many and each
runs one durability a write, so none waits for good. No request has to come, no
sweep and no stop.

### What is proved

For any set of requests, any ways to start, any number of sweeps and of failures,
under `ServerAssumption`:

| Theorem (`ServerSyncProofs`) | States |
|---|---|
| `ServerInvariant` | `Spec => []ServerInv` |
| `StoppedIsSynced` | `Spec => []StopsSynced` |

`StopsSynced` is of the moment after the exit; what leads there is
`NoneForgotten`: an answered write is durable, or the dirty flag stands for it, or
the sweeper or the syncer has a durability under way that covers it, or the disk
failed. It holds because whoever clears the flag takes on a durability for every
write appended so far, because a durability at its fsync has its writes in the
file, and because a failure of the disk is never forgotten (`FailureKept`). At the
exit the flag is clear and the syncer has none under way, so that only a sweep's
is left. A thread that moves alone leaves the others' cover as it was
(`StaysCovered`, `OneMoves`), which is most of every action's proof.

## The feed

`FeedRing` is the ring of a primary's feed as values and functions: `Push`,
`MarkDurable`, `Serves`, and its two readers, `NextAfter` (`Feed::next`, for a
replica's stream) and `ChangesAfter` (`Feed::changes_after`, for the change
stream). A chunk is its first write and the last writes of its records; a record's
size is the number of its writes.

`Feed` puts the server around it. A request appends (`Write`), runs its durability
(`Synced`), and waits for the streams that keep up (`Answer`, or at its deadline
`WaitOut`). `SyncerFlush` and `SyncerSynced` are the syncer's durability, which
waits for nobody; `Rewrite` a checkpoint. A durability's fsync and the mark it then
sets are one step: between the two the disk is ahead of the mark, and a mark set after
the file was replaced is a step of the model as it is. A failed
fsync, which marks nothing and fails the storage, is `FileSink`'s and `ServerSync`'s. A stream judges where its replica stands
(`Judge`), opens (`Open`), is waited for from then on (`Sending`), and then reads
the ring and reports what it sent in two steps (`SendNext`, `Sent`); it may end at
any moment (`Break`), and the node's stream may be held up by another tenant
(`Hold`). `Adopt` and `StartOver` are an image taken by a replica that has replicas
of its own; `Close` and `Reopen` a database on its way out.

The run `feed` has five instances: two writers with one stream; one writer with a
replica's stream and the node's; the syncer with a database that may close; one
that takes an image; and, with no stream, seven writes through a ring of three
with chunks of two, so that records of one and two writes fill, overflow and
leave chunks in every way. Fairness is weak, on a request's thread alone: its
durability ends and its wait has a deadline. `Delivered` takes as its premise that
a stream's socket takes what is written.

### What is proved

For any requests, any finite set of streams, any capacity, chunk and message size
and any settings, under `RingAssumption` and `FeedAssumption`:

| Theorem (`FeedProofs`) | States |
|---|---|
| `FeedInvariant` | `Spec => []FeedInv` |
| `SentIsDurable` | `Spec => []OnlyDurableSent` |
| `NextLeavesNoneOut` | `Spec => []NextIsNext` |
| `ChangesLeaveNoneOut` | `Spec => []ChangesFollow` |
| `AnsweredIsSent` | `Spec => []AnsweredSent` |
| `OneWaitEach` | `Spec => []StallCostsOneWait` |

None of the five properties is inductive, and one invariant, `FeedInv`, carries
them all.

- `RingInv`: the chunks are `Consecutive`. From some write on they hold every
  record there was, each chunk's first write follows a record's end, and no chunk
  starts inside another. The proofs show that putting a record in
  (`ChunkedConsecutive`) and letting the oldest go (`DropOldestConsecutive`) keep
  that, and that it is all the two readers need (`NextFollows`, `ChangesAreRead`).
- `DurableInv`: what the ring calls durable the disk holds, and no durability
  under way is of a file later than this one; so `got`, what a replica was sent,
  is on the disk.
- `SentInv`: where each stream stands (`StandsAt`). While no image is being taken
  a stream of this feed's epoch has its cursor at what its replica was sent, and
  one that is judged and not yet open goes on from no earlier than any request
  counted on it for. It is why a stream that breaks and comes back takes nothing
  away from a write that was answered on its account.
- `AnsweredSent` itself, which needs both.
- `WaitInv`: the waits that ran out and the streams not lagging are together no
  more than the times a stream came to be waited for, a count over the finite set
  of streams.

That a set of numbers has a least and a greatest element comes from the library's
theorem on well-founded relations.

## Servers that follow one another

`History` is which history a database's writes are on, and whether one continues
another (`History::continues`). `Replication` is several servers over it: started
with any flag (`Start`), crashing, writing, syncing; a replica's session with its
primary, both ends and the socket between (`Judge`, `Open`, `Send`, `TakeHello`,
`TakeWrite`, `RefuseWrite`, `Break`), and its promotion. A write is a number no
other has, and a file the set of states a crash may leave it in. The ring is
`Feed`'s: a stream here sends durable writes one at a time and may end whenever
one that fell behind could.

The run `replication` has four instances: a primary and a replica that swap places
by crash, promotion and restart, with an image and without; two servers under any
flags in any order; a replica of a replica; and one failover among three, begun
where one replica is behind. `Prefix`: what a stream goes on from is the primary's
own. `HistoryInv`: two databases of one history hold one write under a number, and
it has one writer. `NoneAhead`: no replica is ahead of its primary's disk, which
`Feed`'s `SentIsDurable` is the reason for. `CatchesUp`: a stream that stays open
brings its replica level, under weak fairness of the syncer and of a stream's two
threads.

## One tenant

`Tenants` is one name in a node's registry: the slot and its lock, the instances
over the file, and threads in `with_slot` (`Lookup`, `Lock`, `Leave`), in an open,
a create, a close, a delete, a write through the gate, a freeze or thaw, a
promotion, a follow (of the node it follows, or another) and a release with its
timeouts; the sweeper, the follower and the shutdown beside them. A tenant shares
with the others the registry's lock alone, held for a lookup.

A database is `dirty` from a write to the next flush or sync, and a close and a
shutdown sync it only then. The syncer's pass and the sweeper flush under the
database's lock, which makes it clean, and put what they flushed on the disk after
it (`Syncing` and `Pushing`; `Sweep` and `SweepSyncs`, `flushed` between the two). A
node's syncs, its idle closes and its shutdown are one thread, so that no pass of the
syncer is under way at a shutdown.

The run `tenants` has eight instances: opens against closes, creates and deletes
with the sweeper; three threads at once; a shutdown; freezes and thaws, with the
sweeper and at greater length without; a replica promoted; and a tenant told to
follow, as a primary and as a replica. `RegistryInv`: one database over the file.
`AnsweredKept`: no answered write is lost by a close, an open or a promotion.
`StoppedSynced`: a shutdown leaves every answer in the file, but what the sweeper's
durability still carries. `FrozenButSwept`: nothing but the sweeper changes a frozen
database, and no close takes the instance the freeze lives on; a delete or a follow
that releases the tenant ends the promise. `PromotionStands`: a promotion is not
undone by a close and an open.
`OpsEnd`: no thread stays for good where it can go on; fairness is by place
(`CanStep`), which is what weak fairness of a thread's steps comes to.

## The change ring, its streams and the looks of held writes

`ChangeLog` is the ring of marks (`changes.rs`). `Subscriptions` is one stream over
it and the copy its subscriber keeps: a look, a sleep on the hub's mark, rows told
as they expire, breaks, restarts with and without lost writes, an adopted image,
rules. `Looks` is what one look of a held write answers, from the rows it knew and
those written since; after one that found a row the head's run takes it or leaves
(`HandedOn`), or finds nothing after all and its plan says where to look from next
(`Again`). Rings of one and two marks are shorter than the two or three
writes, so that a cursor falls behind; two readings of the clock past a row's
moment are before and after it.

The run `subscriptions` has four instances: broken streams and restarts; rules over
restarts that lose writes; rules at a replica that adopts, both over two rows; rows
that expire. `AsleepIsTold`: a stream asleep has told everything. `StreamInv`: a scoped
stream knows exactly what its subscriber holds. `Converges`: the database left alone,
the copy becomes the shape. Both `AsleepIsTold` and `Converges` are of a cursor that
means what it meant when it was given (`CursorsHold`, see the disagreements). Fair are
the stream's thread, the subscriber and the sweeper. A stream asleep is counted on to
wake for the mark or a row's moment alone (`Woken`): its keep-alive, which looks again
too, hides no lost wake-up. A ring of two marks under rules takes three writes to fall
behind and is beyond what TLC explores in minutes.

The run `looks` has an instance a comparison with `now()`, some with compacts or a
clock set back; a group knows up to two rows in two of them and one in the others
(`among`, the code's `AMONG`), so that both an order among several and a list that
overflows come up. `AmongPicksAsWhole`: the short look answers what the whole one
would. `LooksInv`: what a group knows covers the rows, and asleep it misses none.

## Held writes

`Waits` is the state under the mutex of `waits.rs` and every thread's steps through
it: joins, one leader's looks, bids, rounds settled, runs, pauses, ends, a close
(`end_all` at a server's shutdown ends waits as it does) and its taking back
(`Reopen`). The run `waits` has five instances: two groups with one of two requests,
and a run refused; two claims that rank two rows in opposite orders; a wait that
passes and a pause; a look that errs and a client gone; a close. `NothingMissed`: with every thread asleep no row is there that one held
would take. `WaitsInv`: one leads while others sleep, a row is given to one group,
groups keep their order. `GivenToFirst`: a row goes to the claim that ranks it
first. `Served`, `AllAnswered`: a row wanted is taken, and a close that is not taken
back answers all, under fairness by place as in `Tenants`. The first, the third and
the fourth except a group a refusal passed over (below). `Racers` is 1: two requests between their
number and the mutex are in the list below.

## Where the code and its documents disagree

Two are runs of their own.

- **`repl_behind`**. A replica is continued "only from a position the primary's own
  history passed through" (`history.rs`). `History::continues` asks only for the
  fork that follows the database's history in the lineage. A replica promoted
  before it reached its primary's last fork has a lineage whose later fork lies
  before the earlier one, and continues a database that is past it: different
  writes under one number.
- **`ten_schema`**. Once a freeze "returns, the database will not change until
  `thaw`" (`tenants.rs`). The route that applies a schema (`admin.rs`) asks the
  lease and not `is_frozen`. Nor does the sweeper, which deletes the expired rows of
  a frozen tenant (`sweep.rs`): `FrozenStill` is the whole promise, and
  `FrozenButSwept` what the passing run keeps of it.

The others were met while modelling, and the passing runs leave each out where
it says.

- A final sync runs on a signal (`durability.rs`), but only `if dirty`, and
  `Database::flush` clears the flag when it hands a durability out: a shutdown that
  takes the lock before the sweeper's fsync syncs nothing. `StopsSynced` excepts a
  sweeper at its durability, and `StoppedSynced` the same of a node's shutdown
  (`shutdown_with`, `tenants.rs`).
- After a failed fsync "nothing is reported durable" (`fs.rs`). The failure is in
  the process's memory: reopened, the file reads whole from the cache, and the
  next fsync has nothing to write for the pages dropped. `DropsPages` is off.
- A log opened takes "another generation than any entry the file holds"
  (`synclog.rs`): the header's next. `begin` adds one more, so that entries under a
  header the disk never took are two past it. Power lost then, and the file replaced
  by hand with a copy: the next process's generation is that of those entries. A copy
  is put in place only where no entry is so far past a header (`EntriesFollow`).
- `wakes_at` takes a row whose moment came since the last run for due (`wake.rs`).
  A row's `@ttl` is passed over, because the rows asked are those living now.
  `AsleepIsTold` excepts rows whose time came since the stream last told.
- An adopted image resets the ring "so every subscriber reseeds" (`engine.rs`). A
  cursor at the very change the image stands at is served. And a crash that loses
  unsynced writes takes the counter back, after which a cursor that saw the lost
  ones can pass for one served (`changes.rs`). `CursorsHold` is the premise of
  `Converges` and of `AsleepIsTold`.
- When the head of a group is refused, `leave(false)` wakes nobody behind it, and
  they sleep with the row there (`waits.rs`); a row they came first for may go to
  another group. `PassedOver` is such a group, from the refusal on and whether or not
  it does sleep, and `NothingMissed`, `GivenToFirst` and `Served` are of the others.
- The groups are in the order their heads came (`waits.rs`); `join` reads `joined`
  before it takes the mutex, and two that pass each other are not. `Racers` is 1.
- On a replica with replicas, a durability begun before an image and ended after
  it marks writes durable that no fsync covered; and `Tee::rewrite` marks a feed's
  writes durable for an image that may not hold them (`replication.rs`).
  `OnlyDurableSent` is of a server that took no image.
- A crash between an image put in a replica's place and the record that the file
  follows leaves a file that says it is a primary's (`replication.rs`). A server
  last a replica is not started without a flag where images are sent (`careful`).
- A promotion leaves this server's own streams open, and they say the lineage only
  in their hello (`replication.rs`). The chain of replicas has no promotion left
  to make.
- `follow_lineage` asks `is_frozen` before it waits in `release`, and a freeze may
  return meanwhile (`tenants.rs`). No instance has both. A delete asks nothing: one that
  released a frozen tenant and then gives up leaves it to be opened thawed.
- A delete that gives up calls `reopen_streams`, which may start the follower over
  a database being promoted (`replication.rs`). No instance has both.

## What is only model-checked

- Liveness, which the prover does not reach: `ReachesDisk`, `StopEnds`, `Answered`,
  `Delivered`, `CatchesUp`, `Converges`, `Served`, `AllAnswered`, `OpsEnd`.
- Everything of `Replication`, `Tenants`, `Subscriptions`, `Looks` and `Waits`. They
  hold their state in sequences and sets of threads, and would need inductive
  invariants of the size of `FileSinkInv`.
- The file where a failed fsync drops its pages (`DropsPages`), which breaks
  `DurableSurvives`: the theorems take it off.
- What the ring's functions compute is proved for every ring a feed reaches, and
  not for arbitrary ones.

## Not modelled

Each part left out is listed in `PROJECT.json` with the reason: the directory's
file, relocations, blocks and handovers, archives, idempotency keys and quotas are
state machines of the same kind and not done; the query language, the indexes,
scoring and parsing are sequential and numeric, and are left to tests.
