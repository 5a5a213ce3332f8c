---------------------------- MODULE Replication -----------------------------
(***************************************************************************)
(* Servers that follow one another (crates/fenec-http/src/replication.rs): *)
(* a primary streams the writes on its disk, a replica applies them to its *)
(* own file and serves replicas of its own, and a promotion forks the      *)
(* history where the replica stands.                                       *)
(*                                                                         *)
(* A write is a number no other write has: two databases hold the same     *)
(* write at a change, or two that differ. A file is the set of states a    *)
(* crash may leave it in: what an fsync covered, and whatever prefix of    *)
(* the records appended since the system had written by itself. The ring   *)
(* and the order of a feed's steps are Feed's: a stream here sends the     *)
(* durable writes after its cursor one at a time, and may end at any time, *)
(* as one that fell behind does. Bytes in a socket outlive their sender.   *)
(***************************************************************************)
EXTENDS History, FiniteSets, SequencesExt

CONSTANTS
    Servers,      \* the servers, each over one file
    Settings      \* the servers there are, how one may be started ("plain", "follow",
                  \* "promote"), whether one last a replica is not started without a
                  \* flag (careful), whether a replica is given replicas of its own
                  \* (chained), and bounds: writes made, histories begun, times a server
                  \* is started, streams opened with an image

ASSUME ReplicationAssumption ==
    Settings \subseteq [servers : SUBSET Servers, flags : SUBSET {"plain", "follow", "promote"},
                        careful : BOOLEAN, chained : BOOLEAN, writes : Nat, forks : Nat,
                        starts : Nat, images : Nat]

VARIABLES
    setting,  \* the servers, their flags, and the bounds
    log,      \* by server: the writes its database holds, one per change
    hist,     \* its history
    file,     \* the states a crash may leave its file in
    up,       \* whether it runs
    follows,  \* Follower::upstream, and {} on a server started as a primary
    running,  \* Follower::running
    role,     \* what its operator last made it
    force,    \* the follower's force_image
    epoch,    \* Ring::epoch
    conn,     \* the stream to it as a replica, both ends and the socket between
    made,     \* writes made
    forks,    \* histories begun
    starts,   \* servers started
    images    \* streams opened with an image

dbVars == <<log, hist, file>>
serverVars == <<up, follows, running, role, force, epoch>>
bounds == <<made, forks, starts, images>>
vars == <<dbVars, serverVars, conn, bounds>>

ChangeSeq(s) == Len(log[s])
State(s) == [log |-> log[s], hist |-> hist[s]]

\* Mutant of Durable: what was appended, synced or not.
DurableAppended(s) == ChangeSeq(s)
\* Feed::durable: what the file holds whatever a crash leaves of it.
Durable(s) == CHOOSE n \in 0 .. ChangeSeq(s) :
                  /\ \E f \in file[s] : Len(f.log) = n
                  /\ \A f \in file[s] : n <= Len(f.log)

NoStream == [to |-> {}, phase |-> "none", epoch |-> 0, cursor |-> 0, image |-> {}, chan |-> <<>>]

Init ==
    /\ setting \in Settings
    /\ log = [s \in Servers |-> <<>>]
    /\ hist = [s \in Servers |-> RootHistory]
    /\ file = [s \in Servers |-> {[log |-> <<>>, hist |-> RootHistory]}]
    /\ up = [s \in Servers |-> FALSE]
    /\ follows = [s \in Servers |-> {}]
    /\ running = [s \in Servers |-> FALSE]
    /\ role = [s \in Servers |-> "new"]
    /\ force = [s \in Servers |-> FALSE]
    /\ epoch = [s \in Servers |-> 0]
    /\ conn = [s \in Servers |-> NoStream]
    /\ made = 0 /\ forks = 0 /\ starts = 0 /\ images = 0

------------------------------------------------------------------------------
(* The database and its file.                                              *)

\* The database of s becomes [log, hist]: appended to the file, or synced too.
Appends(s, l, h) ==
    /\ log' = [log EXCEPT ![s] = l]
    /\ hist' = [hist EXCEPT ![s] = h]
    /\ file' = [file EXCEPT ![s] = @ \cup {[log |-> l, hist |-> h]}]
Syncs(s, l, h) ==
    /\ log' = [log EXCEPT ![s] = l]
    /\ hist' = [hist EXCEPT ![s] = h]
    /\ file' = [file EXCEPT ![s] = {[log |-> l, hist |-> h]}]

\* A client's write, which a following database refuses.
Write(s) ==
    /\ up[s] /\ ~hist[s].following /\ made < setting.writes
    /\ made' = made + 1
    /\ Appends(s, Append(log[s], made'), hist[s])
    /\ UNCHANGED <<serverVars, conn, forks, starts, images>>

\* The syncer, a durable write's own fsync, a checkpoint.
Sync(s) ==
    /\ up[s] /\ file[s] # {State(s)}
    /\ Syncs(s, log[s], hist[s])
    /\ UNCHANGED <<serverVars, conn, bounds>>

------------------------------------------------------------------------------
(* Starting and stopping.                                                  *)

\* A server is started on its file: settle_history under the flags it is given.
\* A replica's file is refused without them, and a primary's first start with
\* replicas begins a history of its own.
Start(s, flag, p) ==
    LET h == hist[s] IN
    /\ ~up[s] /\ starts < setting.starts /\ flag \in setting.flags
    /\ setting.careful /\ flag = "plain" => role[s] # "replica"
    /\ role' = [role EXCEPT ![s] = IF flag = "follow" THEN "replica" ELSE "primary"]
    /\ starts' = starts + 1
    /\ up' = [up EXCEPT ![s] = TRUE]
    /\ epoch' = [epoch EXCEPT ![s] = @ + 1]
    /\ force' = [force EXCEPT ![s] = FALSE]
    /\ follows' = [follows EXCEPT ![s] = IF flag = "follow" THEN {p} ELSE {}]
    /\ running' = [running EXCEPT ![s] = flag = "follow"]
    /\ \/ /\ flag = "follow" /\ p # s
          /\ IF h = Following(h.lineage) THEN UNCHANGED dbVars
             ELSE Appends(s, log[s], Following(h.lineage))
          /\ UNCHANGED forks
       \/ /\ flag = "promote" /\ h.following /\ forks < setting.forks
          /\ forks' = forks + 1
          /\ Syncs(s, log[s], Forked(h, forks', ChangeSeq(s)))
       \/ /\ flag = "promote" /\ ~h.following
          /\ UNCHANGED <<dbVars, forks>>
       \/ /\ flag = "plain" /\ ~h.following /\ h.lineage # <<>>
          /\ UNCHANGED <<dbVars, forks>>
       \/ /\ flag = "plain" /\ ~h.following /\ h.lineage = <<>> /\ forks < setting.forks
          /\ forks' = forks + 1
          /\ Syncs(s, log[s], Forked(h, forks', ChangeSeq(s)))
    /\ UNCHANGED <<conn, made, images>>

\* What a server that goes leaves of the streams: its own as a replica ends, and
\* of those it fed what is in their sockets.
Cut(s) ==
    conn' = [r \in Servers |->
        IF r = s THEN NoStream
        ELSE IF conn[r].to # {s} THEN conn[r]
        ELSE IF conn[r].phase = "judged" THEN NoStream
        ELSE [conn[r] EXCEPT !.to = {}]]

\* The process or its machine dies: the file is left in one of its states, and
\* opened again it is fsynced as it is (sync_existing).
Crash(s) ==
    /\ up[s]
    /\ up' = [up EXCEPT ![s] = FALSE]
    /\ running' = [running EXCEPT ![s] = FALSE]
    /\ \E f \in file[s] : Syncs(s, f.log, f.hist)
    /\ Cut(s)
    /\ UNCHANGED <<follows, role, force, epoch, bounds>>

------------------------------------------------------------------------------
(* A stream, from the primary's side.                                      *)

\* Follower::session reads where it stands, and `stream` judges it under the
\* read lock: it goes on from there, where the ring still serves it, or is sent
\* an image of what the primary holds.
Judge(r, p, image) ==
    /\ up[r] /\ running[r] /\ p \in follows[r] /\ up[p]
    /\ setting.chained \/ ~hist[p].following
    /\ conn[r].phase = "none"
    /\ image \/ (~force[r] /\ Continues(hist[p], Current(hist[r]), ChangeSeq(r), ChangeSeq(p)))
    /\ image => images < setting.images
    /\ images' = IF image THEN images + 1 ELSE images
    /\ conn' = [conn EXCEPT ![r] =
          IF image
          THEN [to |-> {p}, phase |-> "judged", epoch |-> epoch[p], cursor |-> ChangeSeq(p),
                image |-> {State(p)}, chan |-> <<>>]
          ELSE [to |-> {p}, phase |-> "opened", epoch |-> epoch[p], cursor |-> ChangeSeq(r),
                image |-> {},
                chan |-> <<[is |-> "hello", lineage |-> hist[p].lineage, image |-> {}, first |-> 0]>>]]
    /\ UNCHANGED <<dbVars, serverVars, made, forks, starts>>

\* The image goes out once the primary's disk holds all of it.
Open(r) ==
    /\ conn[r].phase = "judged"
    /\ \E p \in conn[r].to : Durable(p) >= conn[r].cursor
    /\ \E i \in conn[r].image :
          conn' = [conn EXCEPT ![r].phase = "opened", ![r].image = {},
                      ![r].chan = <<[is |-> "hello", lineage |-> i.hist.lineage, image |-> {i},
                                     first |-> 0]>>]
    /\ UNCHANGED <<dbVars, serverVars, bounds>>

\* Mutant of Send: the last durable write waits for one after it.
SendBefore(r) ==
    /\ conn[r].phase \in {"opened", "taken"}
    /\ \E p \in conn[r].to :
          /\ conn[r].epoch = epoch[p] /\ conn[r].cursor + 1 < Durable(p)
          /\ conn' = [conn EXCEPT
                ![r].cursor = @ + 1,
                ![r].chan = Append(@, [is |-> "write", lineage |-> <<>>, image |-> {},
                                       first |-> conn[r].cursor + 1,
                                       write |-> log[p][conn[r].cursor + 1]])]
    /\ UNCHANGED <<dbVars, serverVars, bounds>>
\* The next write on the primary's disk; a feed that started over ends the stream.
Send(r) ==
    /\ conn[r].phase \in {"opened", "taken"}
    /\ \E p \in conn[r].to :
          /\ conn[r].epoch = epoch[p] /\ conn[r].cursor < Durable(p)
          /\ conn' = [conn EXCEPT
                ![r].cursor = @ + 1,
                ![r].chan = Append(@, [is |-> "write", lineage |-> <<>>, image |-> {},
                                       first |-> conn[r].cursor + 1,
                                       write |-> log[p][conn[r].cursor + 1]])]
    /\ UNCHANGED <<dbVars, serverVars, bounds>>

------------------------------------------------------------------------------
(* The follower.                                                           *)

\* The hello, and the image after it: Database::adopt puts the image in the
\* file's place, fsynced, with the history it holds; Database::follow appends
\* the primary's, of which this database takes the writes.
TakeHello(r) ==
    /\ up[r] /\ conn[r].phase = "opened" /\ conn[r].chan # <<>>
    /\ LET m == Head(conn[r].chan)
           h == Following(m.lineage)
       IN  IF m.image = {}
           THEN /\ UNCHANGED <<epoch, force>>
                /\ IF h = hist[r] THEN UNCHANGED dbVars ELSE Appends(r, log[r], h)
           ELSE \E i \in m.image :
                   /\ log' = [log EXCEPT ![r] = i.log]
                   /\ hist' = [hist EXCEPT ![r] = h]
                   /\ file' = [file EXCEPT ![r] = {i, [log |-> i.log, hist |-> h]}]
                   /\ epoch' = [epoch EXCEPT ![r] = @ + 1]
                   /\ force' = [force EXCEPT ![r] = FALSE]
    /\ conn' = [conn EXCEPT ![r].phase = "taken", ![r].chan = Tail(@)]
    /\ UNCHANGED <<up, follows, running, role, bounds>>

\* A write, applied as the change after the last.
TakeWrite(r) ==
    /\ up[r] /\ conn[r].phase = "taken" /\ conn[r].chan # <<>>
    /\ Head(conn[r].chan).first = ChangeSeq(r) + 1
    /\ Appends(r, Append(log[r], Head(conn[r].chan).write), hist[r])
    /\ conn' = [conn EXCEPT ![r].chan = Tail(@)]
    /\ UNCHANGED <<serverVars, bounds>>

\* A write that is not the next, or that could not be applied: an image is asked
\* for.
RefuseWrite(r) ==
    /\ up[r] /\ conn[r].phase = "taken" /\ conn[r].chan # <<>>
    /\ force' = [force EXCEPT ![r] = TRUE]
    /\ conn' = [conn EXCEPT ![r] = NoStream]
    /\ UNCHANGED <<dbVars, up, follows, running, role, epoch, bounds>>

\* The stream ends: the socket, a feed behind, moved or gone, or silence.
Break(r) ==
    /\ conn[r].phase # "none"
    /\ conn' = [conn EXCEPT ![r] = NoStream]
    /\ UNCHANGED <<dbVars, serverVars, bounds>>

\* Follower::promote: the follower halted, the history forked where it stands,
\* and that synced before the lock is let go.
Promote(r) ==
    /\ up[r] /\ follows[r] # {} /\ forks < setting.forks
    /\ forks' = forks + 1
    /\ running' = [running EXCEPT ![r] = FALSE]
    /\ role' = [role EXCEPT ![r] = "primary"]
    /\ conn' = [conn EXCEPT ![r] = NoStream]
    /\ Syncs(r, log[r], Forked(hist[r], forks', ChangeSeq(r)))
    /\ UNCHANGED <<up, follows, force, epoch, made, starts, images>>

Step ==
    \E s \in setting.servers :
        \/ Write(s) \/ Sync(s) \/ Crash(s)
        \/ \E flag \in setting.flags, p \in setting.servers : Start(s, flag, p)
        \/ \E p \in setting.servers, image \in BOOLEAN : Judge(s, p, image)
        \/ Open(s) \/ Send(s) \/ TakeHello(s) \/ TakeWrite(s) \/ RefuseWrite(s)
        \/ Break(s) \/ Promote(s)

Next == Step /\ UNCHANGED setting

\* The syncer's passes come, and the two threads of a stream go on: the one that
\* sends, and the follower that takes what came.
Fairness ==
    \A s \in Servers :
        WF_vars(Sync(s)) /\ WF_vars(Open(s) \/ Send(s)) /\ WF_vars(TakeHello(s) \/ TakeWrite(s))

Spec == Init /\ [][Next]_<<setting, vars>> /\ Fairness

------------------------------------------------------------------------------
(* Properties.                                                             *)

\* What a crash may leave of a file is a prefix of what the database holds, and
\* only a running replica has a stream (Follower::session).
TypeOK ==
    \A s \in Servers :
        /\ State(s) \in file[s]
        /\ \A f \in file[s] : IsPrefix(f.log, log[s])
        /\ up[s] \in BOOLEAN /\ Cardinality(follows[s]) <= 1
        /\ conn[s].phase \in {"none", "judged", "opened", "taken"}
        /\ conn[s].phase # "none" => up[s] /\ hist[s].following

\* What a stream goes on from is the primary's own: the replica holds a prefix
\* of what its primary does, as long as neither took an image or died since, and
\* what is in the socket leads on from there.
Streaming(r, p) == conn[r].phase = "taken" /\ conn[r].to = {p} /\ conn[r].epoch = epoch[p]
Prefix == \A r, p \in Servers : Streaming(r, p) => IsPrefix(log[r], log[p])

\* Two databases of one history that agree on a number agree on the write under
\* it.
NamesWrites ==
    \A r, p \in Servers :
        (hist[r].lineage # <<>> /\ hist[r].lineage = hist[p].lineage)
            => IsPrefix(log[r], log[p]) \/ IsPrefix(log[p], log[r])

\* A primary that crashes comes back holding every write any replica of its
\* history was sent: no replica is ever ahead of its primary's disk.
NoneAhead ==
    \A r, p \in Servers :
        (r # p /\ hist[r].lineage # <<>> /\ hist[r].lineage = hist[p].lineage
            /\ hist[r].following /\ up[p] /\ ~hist[p].following)
            => \A f \in file[p] : IsPrefix(log[r], f.log)

\* A history is written by one server: a replica's file opens as a primary only
\* where its history forks.
OneWriter ==
    \A r, p \in Servers :
        (up[r] /\ up[p] /\ ~hist[r].following /\ ~hist[p].following
            /\ Current(hist[r]) = Current(hist[p]) /\ Current(hist[r]) # 0) => r = p

\* A history names its writes: it has one writer, and one write under a number,
\* on every server that holds it, up or down (History::fork, Database::follow).
HistoryInv == TypeOK /\ OneWriter /\ NamesWrites

\* A stream that stays open brings its replica to all its primary holds: what
\* `stream`'s loop reads of the feed, the follower applies.
Connected(r, p) ==
    conn[r].phase # "none" /\ conn[r].to = {p} /\ conn[r].epoch = epoch[p]
CatchesUp ==
    \A r, p \in Servers : <>[]Connected(r, p) => <>[](log[r] = log[p])

=============================================================================
