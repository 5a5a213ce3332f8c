------------------------------ MODULE Tenants -------------------------------
(***************************************************************************)
(* One tenant in a node's registry (crates/fenec-http/src/tenants.rs):     *)
(* threads that open, use, close, delete, freeze, promote and point it at  *)
(* a primary, the sweeper and the follower beside them, and the node's     *)
(* shutdown. A tenant shares nothing with the others but the registry's    *)
(* own lock, which is held for a lookup and nothing longer.                *)
(*                                                                         *)
(* A slot is the registry's entry, with its lock and the instance it       *)
(* holds; an instance is an open database, numbered while anything holds   *)
(* it. Contents are sets of writes: `has` of a database, with what it has  *)
(* buffered, and of the file.                                              *)
(***************************************************************************)
EXTENDS Integers, FiniteSets

CONSTANTS
    Threads,     \* those that handle requests and the periodic ones
    Settings     \* the threads at work and what they may be asked for, whether rows
                 \* expire here, whether the file is found a replica's; and bounds:
                 \* operations begun, writes made, the follower's and sweeper's too

AllOps == {"write", "schema", "create", "delete", "close", "sync", "freeze", "thaw",
           "follow", "promote", "shutdown"}
ASSUME TenantsAssumption ==
    /\ IsFiniteSet(Threads)
    /\ Settings \subseteq [threads : SUBSET Threads, ops : SUBSET AllOps, sweeps : BOOLEAN,
                           replica : BOOLEAN, begun : Nat, made : Nat]

VARIABLES
    setting,   \* what is asked of the tenant, and the bounds
    reg,       \* the registry's entry for the name: a slot, or 0
    held,      \* by slot: the instance it holds, or 0 (Held::Closed)
    locker,    \* by slot: the threads that hold its lock
    file,      \* the tenant's file, and the .follows beside it
    db,        \* by instance: its database, its flags and its follower
    refs,      \* by instance: the threads that hold the Arc<Tenant>
    gate,      \* by instance: the threads inside `enter`
    beside,    \* by instance: whether the sweeper holds its database
    flushed,   \* by instance: what the sweeper's durability has to put on the disk
    pc, op,    \* by thread: where it is, and in what
    at, got,   \* by thread: the slot and the instance it has
    saw,       \* by thread: what reopen_streams read
    shutting,  \* Tenants::shutting_down
    todo,      \* the slots shutdown has still to take
    answered,  \* writes answered, until the tenant is deleted or told to follow
    still,     \* what a freeze promised: the contents, until a thaw, or a delete or
               \* a follow that closes the tenant
    swept,     \* the sweeper's own writes
    stands,    \* whether a promotion was answered and no follow asked for since
    made, ops

slotVars == <<reg, held, locker>>
sweeper == <<beside, flushed>>
dbVars == <<db, refs, gate, sweeper>>
threadVars == <<pc, op, at, got, saw>>
promises == <<answered, still, swept, stands>>
vars == <<slotVars, file, dbVars, threadVars, shutting, todo, promises, made, ops>>

Slots == 1 .. Cardinality(Threads) + 1
Insts == 1 .. Cardinality(Threads) + 2
Closed == [has |-> {}, dirty |-> FALSE, following |-> FALSE, frozen |-> FALSE, run |-> FALSE,
           follower |-> FALSE, stopped |-> FALSE]

\* Whether anything holds an instance's database, and with it the file's lock:
\* its slot, a request, its follower's thread, the sweeper.
Alive(i) ==
    refs[i] # {} \/ beside[i] \/ db[i].run \/ \E s \in Slots : held[s] = i

Init ==
    /\ reg = 0 /\ held = [s \in Slots |-> 0] /\ locker = [s \in Slots |-> {}]
    /\ setting \in Settings
    /\ file = [exists |-> TRUE, has |-> {}, following |-> setting.replica,
               follows |-> setting.replica]
    /\ db = [i \in Insts |-> Closed]
    /\ refs = [i \in Insts |-> {}] /\ gate = [i \in Insts |-> {}]
    /\ beside = [i \in Insts |-> FALSE] /\ flushed = [i \in Insts |-> {}]
    /\ pc = [t \in Threads |-> "idle"] /\ op = [t \in Threads |-> "none"]
    /\ at = [t \in Threads |-> 0] /\ got = [t \in Threads |-> 0]
    /\ saw = [t \in Threads |-> FALSE]
    /\ shutting = FALSE /\ todo = {}
    /\ answered = {} /\ still = {} /\ swept = {} /\ stands = FALSE
    /\ made = 0 /\ ops = 0

Goto(t, where) == pc' = [pc EXCEPT ![t] = where]

\* An operation is asked for.
Begin(t, o) ==
    /\ pc[t] = "idle" /\ t \in setting.threads /\ ops < setting.begun
    /\ o = "shutdown" => ~shutting
    /\ ops' = ops + 1
    /\ op' = [op EXCEPT ![t] = o]
    /\ Goto(t, CASE o = "shutdown" -> "flag" [] o = "sync" -> "listing" [] OTHER -> "lookup")
    /\ stands' = IF o = "follow" THEN FALSE ELSE stands
    /\ UNCHANGED <<slotVars, file, dbVars, at, got, saw, shutting, todo, answered, still, swept, made>>

------------------------------------------------------------------------------
(* with_slot.                                                              *)

\* The registry's entry, made where there is none.
Lookup(t) ==
    /\ pc[t] = "lookup"
    /\ LET free == CHOOSE s \in Slots : s # reg /\ s \notin todo /\ \A u \in Threads : at[u] # s
           slot == IF reg = 0 THEN free ELSE reg
       IN  /\ reg' = slot
           /\ at' = [at EXCEPT ![t] = slot]
    /\ Goto(t, "lock")
    /\ UNCHANGED <<held, locker, file, dbVars, op, got, saw, shutting, todo, promises, made, ops>>

\* The slot's lock, and the registry asked again under it.
Lock(t) ==
    /\ pc[t] = "lock" /\ locker[at[t]] = {}
    /\ IF at[t] # reg
       THEN Goto(t, "lookup") /\ at' = [at EXCEPT ![t] = 0] /\ UNCHANGED locker
       ELSE Goto(t, "body") /\ UNCHANGED at /\ locker' = [locker EXCEPT ![at[t]] = {t}]
    /\ UNCHANGED <<reg, held, file, dbVars, op, got, saw, shutting, todo, promises, made, ops>>

\* Mutant of Leave: one left closed is dropped with its lock still held.
LeaveLocked(t, inst) ==
    /\ held' = [held EXCEPT ![at[t]] = inst]
    /\ locker' = IF inst = 0 THEN locker ELSE [locker EXCEPT ![at[t]] = {}]
    /\ reg' = IF inst = 0 /\ reg = at[t] THEN 0 ELSE reg
    /\ at' = [at EXCEPT ![t] = 0]
\* The way out, the slot holding `inst`: one left closed leaves the registry.
Leave(t, inst) ==
    /\ held' = [held EXCEPT ![at[t]] = inst]
    /\ locker' = [locker EXCEPT ![at[t]] = {}]
    /\ reg' = IF inst = 0 /\ reg = at[t] THEN 0 ELSE reg
    /\ at' = [at EXCEPT ![t] = 0]

Here(t) == held[at[t]]
Uses == {"write", "schema", "freeze", "thaw", "promote"}

\* get: the open tenant, or the file opened for it.
Get(t) ==
    /\ pc[t] = "body" /\ op[t] \in Uses
    /\ IF Here(t) # 0
       THEN /\ got' = [got EXCEPT ![t] = Here(t)]
            /\ refs' = [refs EXCEPT ![Here(t)] = @ \cup {t}]
            /\ Goto(t, "have") /\ Leave(t, Here(t))
       ELSE /\ IF shutting \/ ~file.exists
               THEN Goto(t, "idle") /\ Leave(t, 0)
               ELSE Goto(t, "opening") /\ UNCHANGED <<slotVars, at>>
            /\ UNCHANGED <<got, refs>>
    /\ UNCHANGED <<file, db, gate, sweeper, op, saw, shutting, todo, promises, made, ops>>

\* create: refused where there is one.
Create(t) ==
    /\ pc[t] = "body" /\ op[t] = "create"
    /\ IF Here(t) # 0 \/ file.exists \/ shutting
       THEN Goto(t, "idle") /\ Leave(t, Here(t))
       ELSE Goto(t, "opening") /\ UNCHANGED <<slotVars, at>>
    /\ UNCHANGED <<file, dbVars, op, got, saw, shutting, todo, promises, made, ops>>

\* The instance open_as makes: the file's, following where it did or is told to.
Opened(t) ==
    LET f == file.following \/ op[t] = "follow" IN
    [has |-> file.has, dirty |-> FALSE, following |-> f, frozen |-> FALSE, run |-> f /\ file.follows,
     follower |-> f /\ file.follows, stopped |-> FALSE]

\* Mutant of Open: the file's lock is not taken.
OpenUnlocked(t) ==
    /\ pc[t] = "opening"
    /\ LET i == CHOOSE k \in Insts : ~Alive(k) IN
       /\ db' = [db EXCEPT ![i] = Opened(t)]
       /\ file' = [file EXCEPT !.exists = TRUE, !.following = Opened(t).following]
       /\ got' = [got EXCEPT ![t] = IF op[t] \in Uses THEN i ELSE 0]
       /\ refs' = [refs EXCEPT ![i] = IF op[t] \in Uses THEN {t} ELSE {}]
       /\ Leave(t, i)
    /\ Goto(t, IF op[t] \in Uses THEN "have" ELSE "idle")
    /\ UNCHANGED <<gate, sweeper, op, saw, shutting, todo, promises, made, ops>>
\* open_as, once the file's lock is free.
Open(t) ==
    /\ pc[t] = "opening" /\ \A k \in Insts : ~Alive(k)
    /\ LET i == CHOOSE k \in Insts : TRUE IN
       /\ db' = [db EXCEPT ![i] = Opened(t)]
       /\ file' = [file EXCEPT !.exists = TRUE, !.following = Opened(t).following]
       /\ got' = [got EXCEPT ![t] = IF op[t] \in Uses THEN i ELSE 0]
       /\ refs' = [refs EXCEPT ![i] = IF op[t] \in Uses THEN {t} ELSE {}]
       /\ Leave(t, i)
    /\ Goto(t, IF op[t] \in Uses THEN "have" ELSE "idle")
    /\ UNCHANGED <<gate, sweeper, op, saw, shutting, todo, promises, made, ops>>

\* hold_tenant gave up waiting for the file's lock: an open, or a delete.
GiveUp(t) ==
    /\ pc[t] \in {"opening", "remove"} /\ \E k \in Insts : Alive(k)
    /\ Goto(t, "idle") /\ Leave(t, 0)
    /\ UNCHANGED <<file, dbVars, op, got, saw, shutting, todo, promises, made, ops>>

------------------------------------------------------------------------------
(* Closing, deleting and following.                                        *)

\* Mutant of Dropped: nothing syncs what the tenant buffered.
DroppedUnsynced(i) == UNCHANGED <<file, db>>
\* A database asked is_dirty and synced: one flushed since its last write is
\* passed over, though its durability may not have run.
Synced(i) == [file EXCEPT !.has = IF db[i].dirty THEN db[i].has ELSE @]
\* The last Arc goes: what is buffered reaches the file (Drop for Tenant).
Dropped(i) ==
    /\ file' = Synced(i)
    /\ db' = [db EXCEPT ![i].dirty = FALSE]

\* close_idle and make_room: only what nothing but the slot holds is closed.
Close(t) ==
    /\ pc[t] = "body" /\ op[t] = "close"
    /\ IF \/ Here(t) = 0 \/ refs[Here(t)] # {} \/ beside[Here(t)]
          \/ db[Here(t)].frozen \/ db[Here(t)].run
       THEN Goto(t, "idle") /\ Leave(t, Here(t))
       ELSE Goto(t, "closing") /\ UNCHANGED <<slotVars, at>>
    /\ UNCHANGED <<file, dbVars, op, got, saw, shutting, todo, promises, made, ops>>

\* The slot emptied: a sweep may have taken the database since the look.
Closing(t) ==
    /\ pc[t] = "closing"
    /\ Dropped(Here(t)) /\ Goto(t, "idle") /\ Leave(t, 0)
    /\ UNCHANGED <<refs, gate, sweeper, op, got, saw, shutting, todo, promises, made, ops>>

\* release: the streams ended and the follower halted.
Releasing(t) ==
    /\ Goto(t, "release")
    /\ db' = [db EXCEPT ![Here(t)].run = FALSE]
    /\ UNCHANGED <<slotVars, at>>

Delete(t) ==
    /\ pc[t] = "body" /\ op[t] = "delete"
    /\ IF Here(t) # 0 THEN Releasing(t)
       ELSE Goto(t, "remove") /\ UNCHANGED <<db, slotVars, at>>
    /\ UNCHANGED <<file, refs, gate, sweeper, op, got, saw, shutting, todo, promises, made, ops>>

\* follow_lineage: one that follows the node it is told to already follows it
\* again; a primary's, or one that follows another node, is let go of, unless
\* frozen, and opened to follow.
Follow(t) ==
    /\ pc[t] = "body" /\ op[t] = "follow"
    /\ \/ shutting /\ Goto(t, "idle") /\ Leave(t, Here(t)) /\ UNCHANGED db
       \/ ~shutting /\ Here(t) = 0 /\ Goto(t, "record") /\ UNCHANGED <<db, slotVars, at>>
       \/ /\ ~shutting /\ Here(t) # 0
          /\ \E another \in BOOLEAN :
                IF db[Here(t)].following /\ file.follows /\ ~another
                THEN /\ Goto(t, "record") /\ UNCHANGED <<slotVars, at>>
                     /\ db' = [db EXCEPT ![Here(t)].run = FALSE]
                ELSE IF db[Here(t)].frozen
                THEN Goto(t, "idle") /\ Leave(t, Here(t)) /\ UNCHANGED db
                ELSE Releasing(t)
    /\ UNCHANGED <<file, refs, gate, sweeper, op, got, saw, shutting, todo, promises, made, ops>>

\* Nothing but the slot holds the tenant: it is closed.
Released(t) ==
    /\ pc[t] = "release" /\ refs[Here(t)] = {}
    /\ Dropped(Here(t))
    /\ held' = [held EXCEPT ![at[t]] = 0]
    /\ still' = {}
    /\ Goto(t, IF op[t] = "delete" THEN "remove" ELSE "record")
    /\ UNCHANGED <<reg, locker, refs, gate, sweeper, op, at, got, saw, shutting, todo, answered,
                   swept, stands, made, ops>>

\* A request that does not let go: the wait is over, and what was ended starts
\* again. reopen_streams reads whether the database follows, then starts.
ReleaseTimeout(t) ==
    /\ pc[t] = "release" /\ refs[Here(t)] # {}
    /\ saw' = [saw EXCEPT ![t] = db[Here(t)].following /\ db[Here(t)].follower]
    /\ Goto(t, "reopen")
    /\ UNCHANGED <<slotVars, file, dbVars, op, at, got, shutting, todo, promises, made, ops>>
Reopen(t) ==
    /\ pc[t] = "reopen"
    /\ db' = [db EXCEPT ![Here(t)].run = @ \/ saw[t]]
    /\ Goto(t, "idle") /\ Leave(t, Here(t))
    /\ UNCHANGED <<file, refs, gate, sweeper, op, got, saw, shutting, todo, promises, made, ops>>

\* delete_held: the file goes, with its .follows.
Remove(t) ==
    /\ pc[t] = "remove" /\ \A k \in Insts : ~Alive(k)
    /\ file' = [exists |-> FALSE, has |-> {}, following |-> FALSE, follows |-> FALSE]
    /\ answered' = {} /\ swept' = {} /\ stands' = FALSE
    /\ Goto(t, "idle") /\ Leave(t, 0)
    /\ UNCHANGED <<dbVars, op, got, saw, shutting, todo, still, made, ops>>

\* record_following, before the follower starts or the file is opened to follow.
Record(t) ==
    /\ pc[t] = "record"
    /\ IF file.exists
       THEN /\ file' = [file EXCEPT !.follows = TRUE]
            /\ answered' = {}
            /\ Goto(t, IF Here(t) = 0 THEN "opening" ELSE "again") /\ UNCHANGED <<slotVars, at>>
       ELSE Goto(t, "idle") /\ Leave(t, 0) /\ UNCHANGED <<file, answered>>
    /\ UNCHANGED <<dbVars, op, got, saw, shutting, todo, still, swept, stands, made, ops>>
Again(t) ==
    /\ pc[t] = "again"
    /\ db' = [db EXCEPT ![Here(t)].run = db[Here(t)].follower]
    /\ Goto(t, "idle") /\ Leave(t, Here(t))
    /\ UNCHANGED <<file, refs, gate, sweeper, op, got, saw, shutting, todo, promises, made, ops>>

------------------------------------------------------------------------------
(* What a request does with the tenant it has.                             *)

Mine(t) == got[t]

\* handle_admitted: entered, then asked whether it is frozen. The schema route
\* enters and asks only the lease.
Enter(t) ==
    /\ pc[t] = "have" /\ op[t] \in {"write", "schema"}
    /\ gate' = [gate EXCEPT ![Mine(t)] = @ \cup {t}]
    /\ Goto(t, IF op[t] = "schema" THEN "writing" ELSE "entered")
    /\ UNCHANGED <<slotVars, file, db, refs, sweeper, op, at, got, saw, shutting, todo, promises,
                   made, ops>>
Entered(t) ==
    /\ pc[t] = "entered"
    /\ Goto(t, IF db[Mine(t)].frozen THEN "done" ELSE "writing")
    /\ UNCHANGED <<slotVars, file, dbVars, op, at, got, saw, shutting, todo, promises, made, ops>>

\* The write, under the database's lock, which a shutdown keeps; refused where
\* the database follows, or for a reason of its own.
Writes(t) ==
    /\ pc[t] = "writing" /\ ~db[Mine(t)].stopped /\ Goto(t, "done")
    /\ IF db[Mine(t)].following \/ made = setting.made THEN UNCHANGED <<db, answered, made>>
       ELSE /\ made' = made + 1
            /\ db' = [db EXCEPT ![Mine(t)].has = @ \cup {made'}, ![Mine(t)].dirty = TRUE]
            /\ answered' = answered \cup {made'}
    /\ UNCHANGED <<slotVars, file, refs, gate, sweeper, op, at, got, saw, shutting, todo, still,
                   swept, stands, ops>>

\* The request ends: the gate and the Arc let go.
Done(t) ==
    /\ pc[t] = "done"
    /\ gate' = [gate EXCEPT ![Mine(t)] = @ \ {t}]
    /\ refs' = [refs EXCEPT ![Mine(t)] = @ \ {t}]
    /\ got' = [got EXCEPT ![t] = 0]
    /\ Goto(t, "idle")
    /\ UNCHANGED <<slotVars, file, db, sweeper, op, at, saw, shutting, todo, promises, made, ops>>

\* freeze: the flag, then the gate, which the requests inside hold.
Freeze(t) ==
    /\ pc[t] = "have" /\ op[t] = "freeze"
    /\ db' = [db EXCEPT ![Mine(t)].frozen = TRUE]
    /\ Goto(t, "gating")
    /\ UNCHANGED <<slotVars, file, refs, gate, sweeper, op, at, got, saw, shutting, todo, promises,
                   made, ops>>
\* Mutant of Gate: the writes in flight are not waited for.
GateAtOnce(t) ==
    /\ pc[t] = "gating"
    /\ still' = IF db[Mine(t)].frozen /\ ~db[Mine(t)].following THEN {db[Mine(t)].has} ELSE still
    /\ Goto(t, "done")
    /\ UNCHANGED <<slotVars, file, dbVars, op, at, got, saw, shutting, todo, answered, swept, stands,
                   made, ops>>
Gate(t) ==
    /\ pc[t] = "gating" /\ gate[Mine(t)] = {}
    /\ still' = IF db[Mine(t)].frozen /\ ~db[Mine(t)].following THEN {db[Mine(t)].has} ELSE still
    /\ Goto(t, "done")
    /\ UNCHANGED <<slotVars, file, dbVars, op, at, got, saw, shutting, todo, answered, swept, stands,
                   made, ops>>
Thaw(t) ==
    /\ pc[t] = "have" /\ op[t] = "thaw"
    /\ db' = [db EXCEPT ![Mine(t)].frozen = FALSE]
    /\ still' = {}
    /\ Goto(t, "done")
    /\ UNCHANGED <<slotVars, file, refs, gate, sweeper, op, at, got, saw, shutting, todo, answered, swept,
                   stands, made, ops>>

\* Mutant of Halt: the follower runs on.
HaltNothing(t) ==
    /\ pc[t] = "have" /\ op[t] = "promote"
    /\ Goto(t, IF db[Mine(t)].follower \/ db[Mine(t)].following THEN "forking" ELSE "done")
    /\ UNCHANGED <<slotVars, file, dbVars, op, at, got, saw, shutting, todo, promises, made, ops>>
\* promote_held: the follower halted, where there is one; the history forked and
\* synced; the record of whom it follows forgotten. A copy that is not what the
\* router expects is refused before any of it.
Halt(t) ==
    /\ pc[t] = "have" /\ op[t] = "promote"
    /\ IF db[Mine(t)].follower \/ db[Mine(t)].following
       THEN Goto(t, "forking") /\ db' = [db EXCEPT ![Mine(t)].run = FALSE]
       ELSE Goto(t, "done") /\ UNCHANGED db
    /\ UNCHANGED <<slotVars, file, refs, gate, sweeper, op, at, got, saw, shutting, todo, promises,
                   made, ops>>
Fork(t) ==
    /\ pc[t] = "forking" /\ ~db[Mine(t)].stopped
    /\ db' = [db EXCEPT ![Mine(t)].following = FALSE, ![Mine(t)].dirty = FALSE]
    /\ file' = [file EXCEPT !.following = FALSE, !.has = db[Mine(t)].has]
    /\ Goto(t, "forget")
    /\ UNCHANGED <<slotVars, refs, gate, sweeper, op, at, got, saw, shutting, todo, promises, made,
                   ops>>
Forget(t) ==
    /\ pc[t] = "forget"
    /\ file' = [file EXCEPT !.follows = FALSE]
    /\ stands' = \A u \in Threads : op[u] = "follow" => pc[u] = "idle"
    /\ Goto(t, "done")
    /\ UNCHANGED <<slotVars, dbVars, op, at, got, saw, shutting, todo, answered, still, swept, made, ops>>

------------------------------------------------------------------------------
(* What runs beside.                                                       *)

\* sync_dirty: the open tenants, passing over a slot that is busy.
Listing(t) ==
    /\ pc[t] = "listing"
    /\ IF reg # 0 /\ locker[reg] = {} /\ held[reg] # 0
       THEN /\ refs' = [refs EXCEPT ![held[reg]] = @ \cup {t}]
            /\ got' = [got EXCEPT ![t] = held[reg]]
            /\ Goto(t, "syncing")
       ELSE Goto(t, "idle") /\ UNCHANGED <<refs, got>>
    /\ UNCHANGED <<slotVars, file, db, gate, sweeper, op, at, saw, shutting, todo, promises, made,
                   ops>>
\* sync_now, where it is dirty: flushed under its lock, on the disk after. A
\* shutdown never comes between, one thread being both (fenec-server/src/main.rs).
Syncing(t) ==
    /\ pc[t] = "syncing" /\ ~db[Mine(t)].stopped
    /\ db' = [db EXCEPT ![Mine(t)].dirty = FALSE]
    /\ Goto(t, IF db[Mine(t)].dirty THEN "pushing" ELSE "done")
    /\ UNCHANGED <<slotVars, file, refs, gate, sweeper, op, at, got, saw, shutting, todo, promises,
                   made, ops>>
Pushing(t) ==
    /\ pc[t] = "pushing"
    /\ file' = [file EXCEPT !.has = db[Mine(t)].has]
    /\ Goto(t, "done")
    /\ UNCHANGED <<slotVars, dbVars, op, at, got, saw, shutting, todo, promises, made, ops>>

\* The follower applies a write of its primary's, or takes its image; its hello
\* has the database follow.
Takes(i, image) ==
    /\ db[i].run /\ ~db[i].stopped /\ made < setting.made
    /\ made' = made + 1
    /\ db' = [db EXCEPT ![i].has = IF image THEN {made'} ELSE @ \cup {made'},
                        ![i].following = TRUE, ![i].dirty = ~image]
    /\ file' = [file EXCEPT !.following = TRUE, !.has = IF image THEN {made'} ELSE @]
    /\ UNCHANGED <<slotVars, refs, gate, sweeper, threadVars, shutting, todo, promises, ops>>

\* The sweeper takes the database, not the tenant; deletes what expired, if it
\* is still there, and flushes, under the database's lock and whatever its tenant
\* is; makes it durable once the lock is let go; goes on, or lets go.
SweepBegins(i) ==
    /\ setting.sweeps /\ Alive(i) /\ ~beside[i]
    /\ beside' = [beside EXCEPT ![i] = TRUE]
    /\ UNCHANGED <<slotVars, file, db, refs, gate, flushed, threadVars, shutting, todo, promises,
                   made, ops>>
Sweep(i) ==
    /\ beside[i] /\ flushed[i] = {} /\ ~db[i].following /\ ~db[i].stopped
    /\ \E gone \in SUBSET {made + 1} :
          /\ made' = made + Cardinality(gone) /\ made' <= setting.made
          /\ swept' = swept \cup gone
          /\ db' = [db EXCEPT ![i].has = @ \cup gone, ![i].dirty = FALSE]
          /\ flushed' = [flushed EXCEPT ![i] = db'[i].has]
    /\ UNCHANGED <<slotVars, file, refs, gate, beside, threadVars, shutting, todo, answered, still,
                   stands, ops>>
\* The durability writes what is buffered by then, unless another sync covered it.
SweepSyncs(i) ==
    /\ flushed[i] # {}
    /\ file' = [file EXCEPT !.has = IF flushed[i] \subseteq @ THEN @ ELSE db[i].has]
    /\ flushed' = [flushed EXCEPT ![i] = {}]
    /\ UNCHANGED <<slotVars, db, refs, gate, beside, threadVars, shutting, todo, promises, made, ops>>
SweepEnds(i) ==
    /\ beside[i] /\ flushed[i] = {}
    /\ beside' = [beside EXCEPT ![i] = FALSE]
    /\ UNCHANGED <<slotVars, file, db, refs, gate, flushed, threadVars, shutting, todo, promises,
                   made, ops>>

\* shutdown: the flag first, the slots after, each lock kept with the database's
\* once it is synced, where it is dirty.
Flag(t) ==
    /\ pc[t] = "flag" /\ shutting' = TRUE /\ Goto(t, "snapshot")
    /\ UNCHANGED <<slotVars, file, dbVars, op, at, got, saw, todo, promises, made, ops>>
Snapshot(t) ==
    /\ pc[t] = "snapshot" /\ todo' = {reg} \ {0} /\ Goto(t, "stopping")
    /\ UNCHANGED <<slotVars, file, dbVars, op, at, got, saw, shutting, promises, made, ops>>
\* Mutant of StopSlot: the locks are let go of.
StopSlotUnkept(t) ==
    /\ pc[t] = "stopping"
    /\ \E s \in todo :
          /\ locker[s] = {} /\ UNCHANGED locker
          /\ IF held[s] = 0 THEN UNCHANGED <<db, file>>
             ELSE Dropped(held[s])
          /\ todo' = todo \ {s}
    /\ UNCHANGED <<reg, held, refs, gate, sweeper, threadVars, shutting, promises, made, ops>>
StopSlot(t) ==
    /\ pc[t] = "stopping"
    /\ \E s \in todo :
          /\ locker[s] = {} /\ locker' = [locker EXCEPT ![s] = {t}]
          /\ IF held[s] = 0 THEN UNCHANGED <<db, file>>
             ELSE /\ file' = Synced(held[s])
                  /\ db' = [db EXCEPT ![held[s]].dirty = FALSE, ![held[s]].stopped = TRUE]
          /\ todo' = todo \ {s}
    /\ UNCHANGED <<reg, held, refs, gate, sweeper, threadVars, shutting, promises, made, ops>>
Stopped(t) ==
    /\ pc[t] = "stopping" /\ todo = {} /\ Goto(t, "stopped")
    /\ UNCHANGED <<slotVars, file, dbVars, op, at, got, saw, shutting, todo, promises, made, ops>>

Step(t) ==
    \/ Lookup(t) \/ Lock(t) \/ Get(t) \/ Create(t) \/ Open(t) \/ GiveUp(t)
    \/ Close(t) \/ Closing(t) \/ Delete(t) \/ Follow(t) \/ Released(t) \/ ReleaseTimeout(t)
    \/ Reopen(t) \/ Remove(t) \/ Record(t) \/ Again(t)
    \/ Enter(t) \/ Entered(t) \/ Writes(t) \/ Done(t) \/ Freeze(t) \/ Gate(t) \/ Thaw(t)
    \/ Halt(t) \/ Fork(t) \/ Forget(t) \/ Listing(t) \/ Syncing(t) \/ Pushing(t)
    \/ Flag(t) \/ Snapshot(t) \/ StopSlot(t) \/ Stopped(t)

Beside(i) ==
    \/ \E image \in BOOLEAN : Takes(i, image)
    \/ SweepBegins(i) \/ Sweep(i) \/ SweepSyncs(i) \/ SweepEnds(i)

Next ==
    /\ \/ \E t \in Threads : Step(t) \/ \E o \in setting.ops : Begin(t, o)
       \/ \E i \in Insts : Beside(i)
    /\ UNCHANGED setting

Places == {"lookup", "lock", "body", "opening", "closing", "release", "reopen", "remove",
           "record", "again", "have", "entered", "writing", "done", "gating", "forking",
           "forget", "listing", "syncing", "pushing", "flag", "snapshot", "stopping"}

\* Where Step(t) is enabled, spelled out: ENABLED of it costs TLC too much.
CanStep(t) ==
    CASE pc[t] = "lock" -> locker[at[t]] = {}
      [] pc[t] = "gating" -> gate[got[t]] = {}
      [] pc[t] \in {"writing", "forking", "syncing"} -> ~db[got[t]].stopped
      [] pc[t] = "stopping" -> todo = {} \/ \E s \in todo : locker[s] = {}
      [] OTHER -> TRUE

\* Weak fairness, by the places it leaves: no thread stays for ever where it can
\* go on (each step but StopSlot takes it elsewhere, and the slots run out), and
\* every sweep ends.
Fairness ==
    /\ \A t \in Threads, p \in Places : []<>~(pc[t] = p /\ CanStep(t))
    /\ \A i \in Insts : []<>~beside[i]

Spec == Init /\ [][Next]_<<setting, vars>> /\ Fairness

------------------------------------------------------------------------------
(* Properties.                                                             *)

\* A slot holds an instance only while it is the registry's, its lock has one
\* holder, and who is in the gate holds the tenant (Tenants::with_slot, Tenant::enter).
TypeOK ==
    /\ reg \in 0 .. Cardinality(Slots) /\ held \in [Slots -> 0 .. Cardinality(Insts)]
    /\ \A s \in Slots : Cardinality(locker[s]) <= 1 /\ (held[s] # 0 => reg = s)
    /\ \A i \in Insts : gate[i] \subseteq refs[i]
    /\ \A t \in Threads : got[t] # 0 <=> \E i \in Insts : t \in refs[i]
    /\ todo \subseteq Slots /\ Cardinality(todo) <= 1

\* One database over the file at any time: two over it corrupt it.
OneDatabase == \A i, k \in Insts : Alive(i) /\ Alive(k) => i = k

\* An open waits only for what runs beside a tenant: the slot's lock, asked again
\* of the registry, leaves no instance of another slot over the file.
WaitsForBeside ==
    \A t \in Threads : pc[t] = "opening" => \A i \in Insts : Alive(i) => beside[i]

\* A write answered is in the database, or in the file once it is closed, until
\* the tenant is deleted or told to follow.
AnsweredKept ==
    answered \subseteq (file.has \cup UNION {db[i].has : i \in {k \in Insts : Alive(k)}})

\* At the end of a shutdown every write answered is in the file, and none is
\* answered after it, but what the sweeper flushed and is still making durable:
\* shutdown_with finds that database clean and does not sync it.
StoppedSynced ==
    (\E t \in Threads : pc[t] = "stopped") =>
        answered \subseteq file.has \cup UNION {flushed[i] : i \in Insts}

\* Once a freeze of a primary's database returns, it does not change until a thaw,
\* as Tenants::freeze says.
FrozenStill == \A has \in still : \A i \in Insts : Alive(i) => db[i].has = has

\* What the code keeps of it: the sweeper, which asks no flag, is alone in changing
\* a frozen database. No write passes the flag or the gate, and no idle close takes
\* the instance the freeze lives on (Tenants::freeze, Tenants::close_with).
FrozenButSwept ==
    \A has \in still : \E i \in Insts :
        Alive(i) /\ db[i].frozen /\ has \subseteq db[i].has /\ db[i].has \ has \subseteq swept

\* The registry keeps a slot for a tenant that is open, or that a thread is at.
RegistryHoldsOpen == reg # 0 => held[reg] # 0 \/ \E t \in Threads : at[t] = reg \/ pc[t] = "stopping"

\* The registry, its slots and the databases over the file agree: one database
\* at a time, none opened beside another, no slot kept for nothing
\* (Tenants::with_slot, Tenants::open_as).
RegistryInv == TypeOK /\ OneDatabase /\ WaitsForBeside /\ RegistryHoldsOpen

\* Promoted, it follows nobody, however it is closed and opened again.
PromotionStands == stands => ~file.following /\ \A i \in Insts : Alive(i) => ~db[i].following

\* Whatever is asked of a tenant is answered, but at a shutdown.
OpsEnd == \A t \in Threads : []<>(pc[t] = "idle" \/ shutting)

=============================================================================
