-------------------------------- MODULE Feed --------------------------------
(***************************************************************************)
(* One server's feed, its writers and its streams (Feed, Sender and Tee of *)
(* crates/fenec-http/src/replication.rs, and the loop of its `stream`).    *)
(*                                                                         *)
(* A request under `--sync always` appends its record, fsyncs what it      *)
(* appended, and is answered once every stream that keeps up has put the   *)
(* record into its socket, or has been waited for long enough. A stream    *)
(* judges where its replica stands, opens, and then reads the ring and     *)
(* reports what it sent in two steps, with writes and fsyncs between them. *)
(* The syncer's fsync is waited for by nobody, and a replica's own         *)
(* follower may append with no fsync of its own.                           *)
(*                                                                         *)
(* A server that is a replica and has replicas takes images: the file and  *)
(* the feed are then another's, and a durability begun before is not told. *)
(* `got` is what a replica was sent, whatever became of its stream, and -1 *)
(* once that is not on the database's history. The file is FileSink's:     *)
(* here it is the last write of the ring's that it durably holds.          *)
(***************************************************************************)
EXTENDS FeedRing, FiniteSets

CONSTANTS
    Requests,     \* the write requests
    Streams,      \* the replicas, one stream each at a time
    NodeStreams,  \* of them, streams of every tenant, held up by another's image
    MaxSeq,       \* bound: writes
    Settings      \* the server: `--sync always` (each write fsyncs, and no syncer runs)
                  \* or not, whether the database may be on its way out (a tenant's),
                  \* the requests and streams that come; and bounds: writes, times the
                  \* feed starts over, times a stream opens

ASSUME FeedAssumption ==
    /\ IsFiniteSet(Streams) /\ NodeStreams \subseteq Streams /\ MaxSeq \in Nat
    /\ Settings \subseteq [always : BOOLEAN, closes : BOOLEAN, requests : SUBSET Requests,
                           streams : SUBSET Streams, seqs : 0 .. MaxSeq, starts : Nat,
                           granted : Nat]

VARIABLES
    setting,    \* the server, who comes, and the bounds
    ring,       \* Feed::ring
    disk,       \* the last write of the ring's that the file durably holds
    adopting,   \* the image being taken, if any: where it is, and what it shares
    request,    \* what each request is at, and its durability
    syncer,     \* the syncer's durability under way, if any
    sender,     \* Feed::senders, by stream
    stream,     \* what each stream is at
    held,       \* Sender::held
    got,        \* the last write put into the socket to the replica
    waitedOut,  \* Feed::waited_out
    ends,       \* where the records appended since the feed started end, and it started
    keeping,    \* the streams a request was answered with, keeping up
    granted     \* how often a stream came to be waited for

feedVars == <<ring, disk, adopting, ends>>
writeVars == <<request, syncer, waitedOut, keeping>>
streamVars == <<sender, stream, held, got, granted>>
vars == <<feedVars, writeVars, streamVars>>

Always == setting.always

NoStream == [phase |-> "none", cursor |-> 0, epoch |-> 0, image |-> FALSE, caught |-> FALSE]

Init ==
    /\ setting \in Settings
    /\ ring = EmptyRing /\ disk = 0 /\ adopting = {} /\ ends = {0}
    /\ request = [q \in Requests |-> [phase |-> "idle", upto |-> 0, file |-> 0]]
    /\ syncer = {} /\ waitedOut = 0
    /\ keeping = [q \in Requests |-> {}]
    /\ sender = [k \in Streams |-> {}]
    /\ stream = [k \in Streams |-> NoStream]
    /\ held = [k \in Streams |-> FALSE]
    /\ got = [k \in Streams |-> 0]
    /\ granted = 0

------------------------------------------------------------------------------
(* Writes.                                                                 *)

\* Tee::record, under the write lock: one record of n writes.
Appended(n) ==
    /\ adopting = {} /\ ring.seq + n <= setting.seqs
    /\ ring' = Push(ring, ring.seq + n, n)
    /\ ends' = ends \cup {ring.seq + n}

\* A write whose answer waits for its own fsync, or that of a follower which
\* reads on after it. Tee::flush makes it a durability of everything appended so
\* far, on this file.
Write(q, n) ==
    /\ Always /\ q \in setting.requests
    /\ request[q].phase \in {"idle", "answered"}
    /\ Appended(n)
    /\ request' = [request EXCEPT ![q] =
          [phase |-> "flushed", upto |-> ring.seq + n, file |-> ring.epoch]]
    /\ keeping' = [keeping EXCEPT ![q] = {}]
    /\ UNCHANGED <<disk, adopting, syncer, waitedOut, streamVars>>

\* A write left to the syncer (`--sync <ms>`), the server's own or one its
\* follower applied.
Buffered(n) == ~Always /\ Appended(n) /\ UNCHANGED <<disk, adopting, writeVars, streamVars>>

Later(a, b) == IF a < b THEN b ELSE a

\* A durability runs: Disk::sync, which has nothing to do for a file that was
\* replaced since, and then what it covered is sendable.
Runs(d) ==
    /\ disk' = IF d.file = ring.epoch /\ adopting = {} THEN Later(disk, d.upto) ELSE disk
    /\ ring' = MarkDurable(ring, d.upto)
    /\ UNCHANGED <<adopting, ends>>

Synced(q) ==
    /\ request[q].phase = "flushed"
    /\ Runs(request[q])
    /\ request' = [request EXCEPT ![q].phase = "waiting"]
    /\ UNCHANGED <<syncer, waitedOut, keeping, streamVars>>

\* The syncer's flush and its durability, which waits for no stream (unwaited).
SyncerFlush ==
    /\ ~Always /\ adopting = {} /\ syncer = {} /\ disk < ring.seq
    /\ syncer' = {[upto |-> ring.seq, file |-> ring.epoch]}
    /\ UNCHANGED <<feedVars, request, waitedOut, keeping, streamVars>>
SyncerSynced ==
    /\ \E d \in syncer : Runs(d)
    /\ syncer' = {}
    /\ UNCHANGED <<request, waitedOut, keeping, streamVars>>

\* Tee::rewrite_with, Tee::adopt and Tee::sync: the file holds every write.
Rewrite ==
    /\ adopting = {} /\ ring.durable < ring.seq
    /\ disk' = ring.seq /\ ring' = MarkDurable(ring, ring.seq)
    /\ UNCHANGED <<adopting, ends, writeVars, streamVars>>

------------------------------------------------------------------------------
(* The wait.                                                               *)

\* Mutant of WaitedFor: a stream at the write before is taken for done.
WaitedForBefore(k, upto) == \E s \in sender[k] : ~s.lagging /\ s.sent + 1 < upto /\ ~held[k]

\* Sender::waited_for.
WaitedFor(k, upto) == \E s \in sender[k] : ~s.lagging /\ s.sent < upto /\ ~held[k]

KeepingUp == {k \in Streams : ~held[k] /\ \E s \in sender[k] : ~s.lagging}

\* Feed::wait_sent comes back: every stream that keeps up has sent the write.
Answer(q) ==
    /\ request[q].phase = "waiting"
    /\ \A k \in Streams : ~WaitedFor(k, request[q].upto)
    /\ request' = [request EXCEPT ![q].phase = "answered"]
    /\ keeping' = [keeping EXCEPT ![q] = KeepingUp]
    /\ UNCHANGED <<feedVars, syncer, waitedOut, streamVars>>

\* Mutant of Lagging: the wait ends at its deadline and the stream is not marked.
LaggingNever(late) == sender

Lagging(late) ==
    [k \in Streams |-> IF k \in late THEN {[s EXCEPT !.lagging = TRUE] : s \in sender[k]}
                       ELSE sender[k]]

\* Mutant of WaitOut: a stream that is in the middle of sending is given more time.
WaitWhileSending(q) ==
    LET late == {k \in Streams : WaitedFor(k, request[q].upto)} IN
    /\ request[q].phase = "waiting" /\ late # {}
    /\ \A k \in late : stream[k].phase = "ready"
    /\ sender' = Lagging(late)
    /\ waitedOut' = waitedOut + 1
    /\ request' = [request EXCEPT ![q].phase = "answered"]
    /\ keeping' = [keeping EXCEPT ![q] = KeepingUp \ late]
    /\ UNCHANGED <<feedVars, syncer, stream, held, got, granted>>

\* Its deadline: the streams still waited for are lagging from now on.
WaitOut(q) ==
    LET late == {k \in Streams : WaitedFor(k, request[q].upto)} IN
    /\ request[q].phase = "waiting" /\ late # {}
    /\ sender' = Lagging(late)
    /\ waitedOut' = waitedOut + 1
    /\ request' = [request EXCEPT ![q].phase = "answered"]
    /\ keeping' = [keeping EXCEPT ![q] = KeepingUp \ late]
    /\ UNCHANGED <<feedVars, syncer, stream, held, got, granted>>

------------------------------------------------------------------------------
(* A stream.                                                               *)

\* `stream` judges where the replica stands, under the read lock: it goes on
\* from what it was sent where the ring still serves it, or takes an image.
Judge(k) ==
    /\ adopting = {}
    /\ stream[k].phase = "none" /\ k \in setting.streams /\ granted < setting.granted
    /\ \E image \in BOOLEAN :
          /\ ~image => Serves(ring, got[k])
          /\ stream' = [stream EXCEPT ![k] =
                [phase |-> "judged", epoch |-> ring.epoch, image |-> image, caught |-> FALSE,
                 cursor |-> IF image THEN ring.seq ELSE got[k]]]
    /\ UNCHANGED <<feedVars, writeVars, sender, held, got, granted>>

\* Mutant of Open: the image goes out before the disk holds all of it.
OpenAtOnce(k) ==
    /\ stream[k].phase = "judged"
    /\ got' = [got EXCEPT ![k] = IF stream[k].epoch = ring.epoch THEN stream[k].cursor ELSE -1]
    /\ stream' = [stream EXCEPT ![k].phase = "opened"]
    /\ UNCHANGED <<feedVars, writeVars, sender, held, granted>>

\* The hello and the image are put into the socket, once the disk holds it.
Open(k) ==
    /\ stream[k].phase = "judged"
    /\ stream[k].image => ring.durable >= stream[k].cursor
    /\ got' = [got EXCEPT ![k] = IF stream[k].epoch = ring.epoch THEN stream[k].cursor ELSE -1]
    /\ stream' = [stream EXCEPT ![k].phase = "opened"]
    /\ UNCHANGED <<feedVars, writeVars, sender, held, granted>>

\* Mutant of Sending: the stream goes on from where the database is by now.
SendingFromNow(k) ==
    /\ stream[k].phase = "opened"
    /\ sender' = [sender EXCEPT ![k] = {[sent |-> stream[k].cursor, lagging |-> FALSE]}]
    /\ granted' = granted + 1
    /\ stream' = [stream EXCEPT ![k].phase = "ready", ![k].cursor = ring.seq]
    /\ UNCHANGED <<feedVars, writeVars, held, got>>

\* Feed::sending: durable writes wait for the stream from here on. The node's
\* may start behind (sending_as), and is waited for once it has caught up.
Sending(k) ==
    /\ stream[k].phase = "opened"
    /\ \E behind \in {FALSE, (k \in NodeStreams)} :
          /\ sender' = [sender EXCEPT ![k] = {[sent |-> stream[k].cursor, lagging |-> behind]}]
          /\ granted' = IF behind THEN granted ELSE granted + 1
    /\ stream' = [stream EXCEPT ![k].phase = "ready"]
    /\ UNCHANGED <<feedVars, writeVars, held, got>>

\* Mutant of Ended: the stream goes and is waited for all the same.
EndedKept(k) == UNCHANGED sender /\ stream' = [stream EXCEPT ![k] = NoStream]

\* The stream has ended (Feed::stopped), by itself or because a write failed.
Ended(k) ==
    /\ sender' = [sender EXCEPT ![k] = {}]
    /\ stream' = [stream EXCEPT ![k] = NoStream]

\* Feed::next, and what it gave put into the socket.
SendNext(k) ==
    LET t == NextAfter(ring, stream[k].cursor, stream[k].epoch) IN
    /\ stream[k].phase = "ready"
    /\ \/ /\ t.is = "records"
          /\ \E last \in t.lasts :
                /\ \A l \in t.lasts : l <= last
                /\ got' = [got EXCEPT ![k] = last]
                /\ stream' = [stream EXCEPT ![k].phase = "sent", ![k].cursor = last,
                                            ![k].caught = FALSE]
          /\ UNCHANGED sender
       \/ /\ t.is = "nothing"
          /\ \E s \in sender[k] : s.lagging \/ s.sent < stream[k].cursor
          /\ stream' = [stream EXCEPT ![k].phase = "sent", ![k].caught = TRUE]
          /\ UNCHANGED <<got, sender>>
       \/ t.is \in {"behind", "moved", "gone"} /\ Ended(k) /\ UNCHANGED got
    /\ UNCHANGED <<feedVars, writeVars, held, granted>>

\* Feed::sent: one that missed a wait and has sent all there was is waited for
\* again.
Sent(k) ==
    /\ stream[k].phase = "sent"
    /\ sender' = [sender EXCEPT ![k] =
          {[sent |-> Later(s.sent, stream[k].cursor),
            lagging |-> s.lagging /\ ~stream[k].caught] : s \in @}]
    /\ granted' = IF stream[k].caught /\ \E s \in sender[k] : s.lagging
                  THEN granted + 1 ELSE granted
    /\ stream' = [stream EXCEPT ![k].phase = "ready"]
    /\ UNCHANGED <<feedVars, writeVars, held, got>>

\* The socket fails, or the replica goes away.
Break(k) ==
    /\ stream[k].phase # "none" /\ Ended(k)
    /\ UNCHANGED <<feedVars, writeVars, held, got, granted>>

\* The node's stream is held up by another tenant's image, and is so no more.
Hold(k) ==
    /\ k \in NodeStreams \cap setting.streams
    /\ held' = [held EXCEPT ![k] = ~@]
    /\ UNCHANGED <<feedVars, writeVars, sender, stream, got, granted>>

------------------------------------------------------------------------------
(* The database.                                                           *)

\* Database::adopt on a replica, which has no request under way: under the write
\* lock an image at seq takes the
\* file's place, which of the writes there were holds the first `shared`, and
\* Tee::rewrite takes it for one of them all.
Adopt ==
    /\ adopting = {} /\ ring.epoch < setting.starts
    /\ \A q \in Requests : request[q].phase \in {"idle", "answered"}
    /\ \E seq \in 0 .. setting.seqs, shared \in 0 .. ring.seq :
          /\ shared <= seq
          /\ adopting' = {[seq |-> seq, shared |-> shared]}
          /\ disk' = shared
          /\ got' = [k \in Streams |-> IF got[k] <= shared THEN got[k] ELSE -1]
    /\ ring' = MarkDurable(ring, ring.seq)
    /\ keeping' = [q \in Requests |-> {}]
    /\ UNCHANGED <<ends, request, syncer, waitedOut, sender, stream, held, granted>>

\* Then, the lock still held, Feed::start.
StartOver ==
    /\ \E i \in adopting :
          /\ ring' = Started(ring, i.seq) /\ disk' = i.seq /\ ends' = {i.seq}
          /\ got' = [k \in Streams |-> IF got[k] <= i.shared THEN got[k] ELSE -1]
    /\ adopting' = {}
    /\ UNCHANGED <<writeVars, sender, stream, held, granted>>

\* The database is going, and stays after all.
Close == /\ setting.closes /\ ~ring.closed /\ ring' = [ring EXCEPT !.closed = TRUE]
         /\ UNCHANGED <<disk, adopting, ends, writeVars, streamVars>>
Reopen == /\ ring.closed /\ ring' = [ring EXCEPT !.closed = FALSE]
          /\ UNCHANGED <<disk, adopting, ends, writeVars, streamVars>>

Step ==
    \/ \E q \in Requests : \/ \E n \in 1 .. 2 : Write(q, n)
                           \/ Synced(q) \/ Answer(q) \/ WaitOut(q)
    \/ \E n \in 1 .. 2 : Buffered(n)
    \/ SyncerFlush \/ SyncerSynced \/ Rewrite
    \/ \E k \in Streams : \/ Judge(k) \/ Open(k) \/ Sending(k) \/ SendNext(k)
                          \/ Sent(k) \/ Break(k) \/ Hold(k)
    \/ Adopt \/ StartOver \/ Close \/ Reopen

Next == Step /\ UNCHANGED setting

\* A request's thread goes on: its durability runs to its end, and its wait to
\* the deadline. No stream is asked to make progress.
Fairness == \A q \in Requests : WF_vars(Synced(q) \/ Answer(q) \/ WaitOut(q))

Spec == Init /\ [][Next]_<<setting, vars>> /\ Fairness

\* The stream's thread has a step to make: what SendNext, Open, Sending and Sent
\* ask for. Each takes it to another phase.
CanGoOn(k) ==
    LET t == NextAfter(ring, stream[k].cursor, stream[k].epoch) IN
    \/ stream[k].phase = "judged" /\ (stream[k].image => ring.durable >= stream[k].cursor)
    \/ stream[k].phase \in {"opened", "sent"}
    \/ /\ stream[k].phase = "ready"
       /\ t.is = "nothing" => \E s \in sender[k] : s.lagging \/ s.sent < stream[k].cursor

\* The stream's socket takes what is written: its thread stays in no phase it can
\* go on from.
SocketTakes(k) ==
    \A p \in {"judged", "opened", "ready", "sent"} : []<>~(stream[k].phase = p /\ CanGoOn(k))

------------------------------------------------------------------------------
(* Properties.                                                             *)

\* Also: a stream is sending (Feed::senders) from its start to its end, at the
\* cursor it reported last or behind it.
TypeOK ==
    /\ setting \in Settings
    /\ ring \in [chunks : SUBSET [first : Nat \ {0}, lasts : SUBSET Nat],
                 seq : 0 .. MaxSeq, durable : 0 .. MaxSeq, epoch : Nat, closed : BOOLEAN]
    /\ disk \in 0 .. MaxSeq /\ ends \subseteq 0 .. MaxSeq
    /\ adopting \subseteq [seq : 0 .. MaxSeq, shared : 0 .. MaxSeq]
    /\ request \in [Requests -> [phase : {"idle", "flushed", "waiting", "answered"},
                                 upto : 0 .. MaxSeq, file : Nat]]
    /\ syncer \subseteq [upto : 0 .. MaxSeq, file : Nat]
    /\ stream \in [Streams -> [phase : {"none", "judged", "opened", "ready", "sent"},
                               cursor : 0 .. MaxSeq, epoch : Nat,
                               image : BOOLEAN, caught : BOOLEAN]]
    /\ sender \in [Streams -> SUBSET [sent : 0 .. MaxSeq, lagging : BOOLEAN]]
    /\ \A k \in Streams : \A s \in sender[k] :
          stream[k].phase \in {"ready", "sent"} /\ s.sent <= stream[k].cursor
    /\ held \in [Streams -> BOOLEAN] /\ got \in [Streams -> -1 .. MaxSeq]
    /\ keeping \in [Requests -> SUBSET Streams]
    /\ waitedOut \in Nat /\ granted \in Nat

\* The server took no image: its file and its feed are those it began with.
Own == adopting = {} /\ ring.epoch = 0

\* A replica is sent nothing the primary's disk does not hold: a record leaves
\* the feed once an fsync has covered it, an image once the disk holds all of it.
\* A server that takes an image itself marks all of its feed durable before the
\* feed starts over, and is left out.
OnlyDurableSent == Own => \A k \in Streams : got[k] <= disk

\* Whatever the chunks, a stream at the end of a record is given the records
\* after it, whole and none left out, down to the last one durable or the last
\* that fits; and a stream that `serves` let go on is not told it fell behind.
NextIsNext ==
    \A c \in ends :
        LET t == NextAfter([ring EXCEPT !.closed = FALSE], c, ring.epoch)
            after == {e \in ends : e > c}
        IN  /\ Serves(ring, c) => t.is # "behind"
            /\ t.is = "records" =>
                  /\ t.first = c + 1 /\ t.lasts \subseteq after
                  /\ \A l \in t.lasts, e \in after : e < l => e \in t.lasts
            /\ t.is = "nothing" => \A e \in after : e > ring.durable

\* A consumer of the changes is given every write after its cursor, wherever in
\* a record the cursor is, from the start of that record, and is told it fell
\* behind only of writes let go of.
ChangesFollow ==
    \A c \in 0 .. ring.seq :
        LET t == ChangesAfter([ring EXCEPT !.closed = FALSE], c)
            after == {e \in ends : e > c}
        IN  /\ t.is = "records" =>
                  /\ t.first <= c + 1 /\ t.first - 1 \in ends
                  /\ \A e \in ends \ after : e < t.first
                  /\ t.lasts \subseteq after
                  /\ \A l \in t.lasts, e \in after : e < l => e \in t.lasts
            /\ t.is = "behind" => ~Serves(ring, c)
            /\ t.is = "nothing" => \A e \in after : e > ring.durable

\* A write answered under `--sync always` is in the socket of every stream that
\* was keeping up when it was answered: killed there, the primary leaves it on
\* its way to each of them.
AnsweredSent ==
    \A q \in Requests : \A k \in keeping[q] : got[k] >= request[q].upto \/ got[k] = -1

\* A stream that stalls costs the writes one wait, not one each: no more waits
\* run out than streams came to be waited for, by opening or by catching up.
StallCostsOneWait == waitedOut <= granted

\* A stream whose socket takes what is written comes again and again to have sent
\* every write the disk holds, or has ended or waits for its image: none stays
\* behind for want of being looked at again.
Delivered ==
    (\A k \in Streams : SocketTakes(k)) =>
        \A k \in Streams :
            []<>(\/ stream[k].phase \in {"none", "judged"} \/ got[k] = -1
                 \/ got[k] >= disk \/ got[k] >= ring.durable)

\* A write on its way is answered, whatever the streams do.
Answered == \A q \in Requests : []<>(request[q].phase \in {"idle", "answered"})

------------------------------------------------------------------------------
(* What the properties above rest on, together inductive.                  *)

\* The chunks are runs of the records appended, one after another and the last
\* of them complete: each starts where a record does, leaves none of those
\* between out, and is followed by others down to the last write.
Consecutive(chunks, seq, at) ==
    /\ \A c \in chunks :
          /\ c.first - 1 \in at /\ c.lasts \subseteq at /\ c.lasts # {}
          /\ \A l \in c.lasts : c.first <= l
          /\ \A l \in c.lasts, e \in at : c.first <= e /\ e < l => e \in c.lasts
          /\ \A n \in c.first .. seq : \E d \in chunks :
                c.first <= d.first /\ d.first <= n /\ \E l \in d.lasts : n <= l
    /\ \A c, d \in chunks :
          c = d \/ (\A l \in c.lasts : l < d.first) \/ (\A l \in d.lasts : l < c.first)

RingInv ==
    /\ ring.durable <= ring.seq /\ ring.seq \in ends /\ \A e \in ends : e <= ring.seq
    /\ Consecutive(ring.chunks, ring.seq, ends)

\* No durability is of a file to come, and until an image is taken what is durable
\* and what was sent is on the disk, and a stream judged to go on does from there.
DurableInv ==
    /\ \A d \in syncer : d.file <= ring.epoch
    /\ \A q \in Requests : request[q].file <= ring.epoch
    /\ Own => /\ ring.durable <= disk
              /\ \A k \in Streams :
                    /\ got[k] <= disk
                    /\ stream[k].phase = "judged" /\ ~stream[k].image => stream[k].cursor = got[k]

\* A stream's cursor is what its replica was sent last, unless an image taken
\* since has made that another history's; one judged goes on from what it was sent
\* or after, and no request counted on it for more.
StandsAt(k) ==
    /\ stream[k].epoch <= ring.epoch
    /\ adopting = {} => got[k] <= ring.seq
    /\ stream[k].phase \in {"opened", "ready", "sent"} => got[k] \in {stream[k].cursor, -1}
    /\ adopting = {} /\ stream[k].epoch = ring.epoch =>
          /\ stream[k].phase \in {"opened", "ready", "sent"} => got[k] = stream[k].cursor
          /\ stream[k].phase = "judged" =>
                /\ stream[k].cursor <= ring.seq
                /\ \A q \in Requests : k \in keeping[q] => request[q].upto <= stream[k].cursor

\* A request under way, or answered with streams keeping up, is of the feed as it
\* is, and there is none while an image is taken.
SentInv ==
    /\ \A i \in adopting : i.shared <= i.seq
    /\ adopting # {} => \A q \in Requests :
          keeping[q] = {} /\ request[q].phase \in {"idle", "answered"}
    /\ \A q \in Requests :
          request[q].phase \in {"flushed", "waiting"} \/ keeping[q] # {}
              => request[q].upto <= ring.seq
    /\ \A k \in Streams : StandsAt(k)

\* Every stream waited for has come to be once more than it was waited out.
NotLagging == {k \in Streams : \E s \in sender[k] : ~s.lagging}
WaitInv == waitedOut + Cardinality(NotLagging) <= granted

\* The invariant the theorems on the feed are proved from: what the ring keeps,
\* how far the disk is, what the sockets took and who is waited for.
FeedInv == TypeOK /\ RingInv /\ DurableInv /\ SentInv /\ AnsweredSent /\ WaitInv

=============================================================================
