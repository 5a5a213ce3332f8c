-------------------------------- MODULE Waits --------------------------------
(***************************************************************************)
(* The writes one database holds (`Fenec-Wait`, fenec-http/src/waits.rs).  *)
(* A request whose run wrote nothing takes a place in the group of its     *)
(* claim and waits; one of those waiting, the leader, looks for every      *)
(* group outside the mutex, a group whose look found a row bids for it, a  *)
(* round of bids is settled, and the head of a group that won runs.        *)
(*                                                                         *)
(* A claim is a filter and an order: the rows it passes and how it ranks   *)
(* them. A row's `due` is the time from which the filter passes it (a      *)
(* delayed job's ready time, the end of a lease), {} while there is none.  *)
(* The look's answer is the pick's; how it is found among the rows written *)
(* since is module Looks. An option is a set of at most one element.       *)
(***************************************************************************)
EXTENDS Integers, SequencesExt

CONSTANTS
    Requests,   \* requests sent with Fenec-Wait, each held at most once
    Claims,     \* what a request would pick: what a group is made by
    Rows,       \* the rows of the collection, in the order of a field
    Passes,     \* [Claims -> SUBSET Rows]: the rows the filter passes once due
    RankOf,     \* [Claims -> [Rows -> rank]]: {} where a field orders the claim
    Racers,     \* bound: requests between reading the clock and the mutex
    MaxTime,    \* bound: the clock
    Settings    \* the requests that come, each with its claim, those whose wait may
                \* pass, the rows written, and bounds: writes, the clock, looks that err and clients
                \* gone, runs refused, runs paused, closes of the tenant

ASSUME WaitsAssumption ==
    /\ Rows \subseteq Nat
    /\ Passes \in [Claims -> SUBSET Rows] /\ {Racers, MaxTime} \subseteq Nat
    /\ \A s \in Settings :
        /\ DOMAIN s.claim \subseteq Requests /\ Range(s.claim) \subseteq Claims
        /\ s.impatient \subseteq Requests /\ s.rows \subseteq Rows /\ s.time \in 0 .. MaxTime
        /\ {s.writes, s.fails, s.refusals, s.pauses, s.closes} \subseteq Nat

VARIABLES
    setting,    \* the requests and their claims, and the bounds
    due,        \* the rows there are, and from when the claims pass them
    seq,        \* Database::change_seq
    time,       \* the clock, as now() reads it
    st,         \* State, under the mutex
    pc,         \* where each request's thread is
    joined,     \* Turn::joined: the order in which requests came
    plan,       \* the plan a run that wrote nothing left
    late,       \* requests whose wait has passed
    alarms,     \* what a request asleep wakes for by itself
    jobs,       \* looks the leader has still to make
    looks,      \* looks it made and has not recorded
    spent,      \* how often each bounded thing happened, and the claims refused
    put         \* the writes announced as each row was last written

db == <<due, seq, time, put>>
threads == <<joined, plan, late>>
vars == <<due, seq, time, st, pc, joined, plan, late, alarms, jobs, looks, spent, put>>

ClaimOf == setting.claim

Only(option) == CHOOSE x \in option : TRUE
Least(S) == CHOOSE x \in S : \A y \in S : x <= y
------------------------------------------------------------------------------
(* The database a look or a run reads.                                     *)

Ready(c, d, t) == {x \in Passes[c] : \E u \in d[x] : u <= t}

RankIn(c, x) == IF RankOf[c][x] = {} THEN 0 ELSE Only(RankOf[c][x])

\* The row the claim's order puts first.
Pick(c, S) ==
    CHOOSE x \in S : \A y \in S \ {x} :
        RankIn(c, x) < RankIn(c, y) \/ (RankIn(c, x) = RankIn(c, y) /\ x < y)

\* Database::wakes_at: the next moment any living row has past t.
WakesAt(d, t) ==
    LET later == {u \in UNION {d[x] : x \in Rows} : u > t}
    IN  IF later = {} THEN {} ELSE {Least(later)}
------------------------------------------------------------------------------
(* Groups.                                                                 *)

Claim(g) == ClaimOf[Head(g.queue)]
Ranked(g) == \E x \in Rows : RankOf[Claim(g)][x] # {}
HeadJoined(g) == joined[Head(g.queue)]

\* A group is named by the request that started it.
NewGroup(r, p) ==
    [id |-> r, queue |-> <<r>>, stale |-> TRUE, since |-> p.seq, at |-> p.at,
     now |-> FALSE, quiet |-> FALSE, looking |-> FALSE, seen |-> 0, bid |-> {},
     go |-> FALSE, running |-> FALSE, behind |-> {}, line |-> {}, back |-> "no"]

Idle(g) ==
    /\ ~g.looking /\ g.bid = {} /\ ~g.go /\ ~g.running /\ g.behind = {}
    /\ g.back = "no"

DueAt(g, t) == \E a \in g.at : a <= t

Owes(g, horizon, t) ==
    /\ g.now \/ (g.stale /\ g.seen < horizon) \/ DueAt(g, t)
    /\ Idle(g)

At(s, id) == {i \in DOMAIN s.groups : s.groups[i].id = id}
GroupOf(s, r) ==
    Only({i \in DOMAIN s.groups : r \in Range(s.groups[i].queue)})
Each(s, F(_)) == [s EXCEPT !.groups = [i \in DOMAIN s.groups |-> F(s.groups[i])]]

\* A request waiting in `next`: any but a head whose group runs or is to.
Waiting(s, but) ==
    LET free(g) == {i \in DOMAIN g.queue :
                        g.queue[i] # but /\ (i > 1 \/ ~(g.running \/ g.go))}
        with == {i \in DOMAIN s.groups : free(s.groups[i]) # {}}
    IN  IF with = {} THEN {}
        ELSE LET g == s.groups[Least(with)] IN {g.queue[Least(free(g))]}

\* Whom `kick` wakes.
Kick(s) ==
    IF s.looking THEN {} ELSE IF s.leader # {} THEN s.leader ELSE Waiting(s, "none")

\* `r` leaves `next`: the state, and whom it wakes to look in its place.
Resign(s, r) == IF s.leader \subseteq {r} THEN [s EXCEPT !.leader = {}] ELSE s

ResignWakes(s, r) == IF s.leader \subseteq {r} THEN Waiting(s, r) ELSE {}
------------------------------------------------------------------------------
(* Rounds of bids.                                                         *)

TakerOf(s, row) == {e.by : e \in {f \in s.taken : {f.row} = row}}

\* Whom the round waits for: 0, or the first group still to bid.
FirstToBid(s) ==
    LET horizon == IF s.horizon = {} THEN s.writes ELSE Only(s.horizon)
        still == {i \in DOMAIN s.groups :
                    LET g == s.groups[i]
                    IN  g.looking \/ Owes(g, horizon, time) \/ g.behind # {}}
    IN  IF still = {} THEN 0 ELSE Least(still)

Better(a, b) ==
    \/ b.rank = {} /\ a.rank # {}
    \/ a.rank # {} /\ b.rank # {} /\ Only(a.rank) < Only(b.rank)
    \/ a.rank = b.rank /\ a.joined < b.joined

\* The bids for the row that group i bids for, an error being no other's.
Rivals(s, i) ==
    LET row == Only(s.groups[i].bid).row
    IN  IF row = {} THEN {i}
        ELSE {j \in DOMAIN s.groups : \E b \in s.groups[j].bid : b.row = row}

\* What becomes of group i's bid: it waits, it wins, or it goes behind.
Settled(s, i, first) ==
    LET g == s.groups[i]
        bid(j) == Only(s.groups[j].bid)
        best == CHOOSE j \in Rivals(s, i) :
                    \A k \in Rivals(s, i) \ {j} : Better(bid(j), bid(k))
        given == TakerOf(s, bid(i).row)
        settles == \/ first = 0
                   \/ bid(best).rank = {}
                      /\ bid(best).joined < HeadJoined(s.groups[first])
        tie == \A j \in Rivals(s, i) : bid(j).rank = {}
    IN  IF g.bid = {} \/ (given = {} /\ ~settles) THEN g
        ELSE IF given = {} /\ best = i THEN [g EXCEPT !.bid = {}, !.go = TRUE]
        ELSE [g EXCEPT !.bid = {},
                       !.behind = IF given # {} THEN given ELSE {s.groups[best].id},
                       !.line = IF tie THEN {bid(i).joined} ELSE {}]

\* A settled round, whether or not the horizon it began with is let go.
Settlement(s, first) ==
    LET groups == [i \in DOMAIN s.groups |-> Settled(s, i, first)]
        won == {i \in DOMAIN groups : groups[i].go /\ ~s.groups[i].go}
        rows == {[row |-> Only(Only(s.groups[i].bid).row), by |-> groups[i].id] :
                    i \in {j \in won : Only(s.groups[j].bid).row # {}}}
    IN  [s EXCEPT !.groups = groups, !.taken = @ \cup rows,
                  !.horizon = IF \E i \in DOMAIN groups : groups[i].bid # {}
                              THEN @ ELSE {}]

\* A gap ends where a bid waits for the group in it.
GapEnded(s, first) ==
    LET waited == \E i \in DOMAIN s.groups : i # first /\ s.groups[i].bid # {}
        horizon == IF s.horizon = {} THEN s.writes ELSE Only(s.horizon)
    IN  IF waited /\ Owes(s.groups[first], horizon, time)
        THEN [s EXCEPT !.groups[first].quiet = FALSE] ELSE s

\* Every bid settled as it comes.
SettleAtOnce(s) ==
    IF \E i \in DOMAIN s.groups : s.groups[i].bid # {} THEN Settlement(s, 0)
    ELSE [s EXCEPT !.horizon = {}]

Settle(s) ==
    LET first == FirstToBid(s)
        ahead == \E i \in DOMAIN s.groups :
                    s.groups[i].bid # {} /\ (first = 0 \/ i < first)
    IN  IF first = 0 /\ ~ahead THEN [s EXCEPT !.horizon = {}]
        ELSE LET ended == IF first = 0 THEN s ELSE GapEnded(s, first)
             IN  IF first # 0 /\ (~ahead \/ \E i \in DOMAIN s.groups : Ranked(s.groups[i]))
                 THEN ended ELSE Settlement(ended, first)

\* The heads a settled round wakes.
Won(before, after) ==
    {Head(after.groups[i].queue) :
        i \in {j \in DOMAIN after.groups : after.groups[j].go /\ ~before.groups[j].go}}

Awake(g) == [g EXCEPT !.behind = {}, !.line = {}, !.now = TRUE]

\* The groups behind a run left there.
ReleaseRowsAlone(s, id) == [s EXCEPT !.taken = {e \in @ : e.by # id}]

\* A run ended or a head left: who was behind it looks again, the first of a
\* line alone, the rest of the line behind it.
Release(s, id) ==
    LET line == UNION {g.line : g \in {h \in Range(s.groups) : h.behind = {id}}}
        first == {g.id : g \in {h \in Range(s.groups) :
                        h.behind = {id} /\ line # {} /\ h.line = {Least(line)}}}
        freed(g) == IF g.behind # {id} THEN g
                    ELSE IF g.line # {} /\ first # {g.id}
                         THEN [g EXCEPT !.behind = first]
                         ELSE Awake(g)
    IN  Each([s EXCEPT !.taken = {e \in @ : e.by # id}], freed)

Disband(s, id) ==
    LET freed(g) == IF g.behind = {id} THEN Awake(g) ELSE g IN Each(s, freed)
------------------------------------------------------------------------------
(* The looks.                                                              *)

Unpaused(g) ==
    IF g.back = "over" /\ ~g.running /\ ~g.go
    THEN [g EXCEPT !.back = "no", !.now = TRUE] ELSE g

ToLook(g) ==
    Idle(g) /\ (g.now \/ DueAt(g, time) \/ (g.stale /\ ~g.quiet))

\* Each group with a look to make, marked as looking.
Jobs(s) ==
    LET marked(g) ==
            LET u == Unpaused(g)
            IN  IF ToLook(u)
                THEN [u EXCEPT !.now = FALSE, !.stale = FALSE, !.looking = TRUE,
                               !.seen = s.writes]
                ELSE u
    IN  Each(s, marked)

JobsOf(s) ==
    LET job(g) == [id |-> g.id, claim |-> Claim(g), since |-> g.since,
                   due |-> Unpaused(g).now \/ DueAt(g, time)]
        asked(g) == ToLook(Unpaused(g))
        toLook == SelectSeq(s.groups, asked)
    IN  [i \in DOMAIN toLook |-> job(toLook[i])]

\* What the leader asleep wakes for: a pause, a gap with a write in it, a
\* moment.
Deadline(s) ==
    LET of(g) == IF g.back # "no" THEN (IF g.running \/ g.go THEN {} ELSE {<<"back", g.id>>})
                 ELSE IF ~Idle(g) THEN {}
                 ELSE (IF g.stale /\ g.quiet THEN {<<"gap", g.id>>} ELSE {})
                      \cup {<<"at", a>> : a \in g.at}
    IN  UNION {of(g) : g \in Range(s.groups)}

Look(j) ==
    LET ready == Ready(j.claim, due, time)
        asked == seq # j.since \/ j.due
        row == IF ready = {} THEN {} ELSE {Pick(j.claim, ready)}
    IN  [id |-> j.id, seq |-> seq, error |-> FALSE,
         row |-> IF asked THEN row ELSE {},
         rank |-> IF asked /\ row # {} THEN RankOf[j.claim][Only(row)] ELSE {},
         at |-> IF asked /\ row = {} THEN {WakesAt(due, time)} ELSE {}]

\* What a look found, kept for its group. A bid for a row taken since the look
\* began looks again; one for a row given already goes behind that run.
Record(s, l) ==
    LET i == Only(At(s, l.id))
        g == [s.groups[i] EXCEPT !.looking = FALSE, !.since = l.seq,
                                 !.at = IF l.at = {} THEN @ ELSE Only(l.at)]
        gone == \E e \in s.gone : {e.row} = l.row /\ g.seen < e.at
        taker == TakerOf(s, l.row)
    IN  IF At(s, l.id) = {} THEN s
        ELSE IF l.row = {} /\ ~l.error
        THEN Disband([s EXCEPT !.groups[i] = [g EXCEPT !.quiet = TRUE]], l.id)
        ELSE IF gone THEN [s EXCEPT !.groups[i] = [g EXCEPT !.quiet = FALSE, !.now = TRUE]]
        ELSE IF taker # {}
        THEN [s EXCEPT !.groups[i] =
                [g EXCEPT !.quiet = FALSE, !.behind = taker,
                          !.line = IF l.rank = {} THEN {HeadJoined(g)} ELSE {}]]
        ELSE [s EXCEPT !.groups[i] =
                [g EXCEPT !.quiet = FALSE,
                          !.bid = {[row |-> l.row, rank |-> l.rank, joined |-> HeadJoined(g)]}],
                       !.horizon = IF @ = {} THEN {s.writes} ELSE @]
------------------------------------------------------------------------------
(* Writes, and what they tell the held requests (Waits::wrote).            *)

\* A group with a look or a run under way not marked.
WroteIdle(s) ==
    LET marked(g) == IF Idle(g) THEN [g EXCEPT !.stale = TRUE] ELSE g
    IN  IF s.groups = <<>> THEN s ELSE Each([s EXCEPT !.writes = @ + 1], marked)

Wrote(s) ==
    LET marked(g) == [g EXCEPT !.stale = TRUE]
    IN  IF s.groups = <<>> THEN s ELSE Each([s EXCEPT !.writes = @ + 1], marked)

WroteWakes(s) ==
    LET tells(g) == Idle(g) /\ (g.quiet => ~g.stale)
    IN  IF \E g \in Range(s.groups) : tells(g) THEN Kick(s) ELSE {}

Woken(p, who) == [r \in Requests |-> IF p[r] = "asleep" /\ r \in who THEN "next" ELSE p[r]]

\* Row x becomes d under the write lock, by a thread that goes on as p says.
Write(x, d, p) ==
    /\ due' = [due EXCEPT ![x] = d] /\ seq' = seq + 1 /\ time' = time
    /\ put' = [put EXCEPT ![x] = Wrote(st).writes]
    /\ st' = Wrote(st) /\ pc' = Woken(p, WroteWakes(st))

\* A taken row is gone, or leased until later.
TakenAs == {{}} \cup {{u} : u \in (time + 1) .. setting.time}

Put(x) ==
    /\ spent.writes < setting.writes /\ x \in setting.rows /\ due[x] = {}
    /\ spent' = [spent EXCEPT !.writes = @ + 1]
    /\ \E u \in time .. setting.time : Write(x, {u}, pc)
    /\ UNCHANGED <<threads, alarms, jobs, looks>>

\* A request not held takes a row.
Taken(x) ==
    /\ spent.writes < setting.writes /\ due[x] # {} /\ Only(due[x]) <= time
    /\ spent' = [spent EXCEPT !.writes = @ + 1]
    /\ \E d \in TakenAs : Write(x, d, pc)
    /\ UNCHANGED <<threads, alarms, jobs, looks>>

\* The run under the write lock writes the row its claim picks, and the
\* request's thread goes on at `then`.
RunWrites(r, then) ==
    LET ready == Ready(ClaimOf[r], due, time)
    IN  /\ ready # {}
        /\ \E d \in TakenAs : Write(Pick(ClaimOf[r], ready), d, [pc EXCEPT ![r] = then])
        /\ UNCHANGED <<threads, alarms, jobs, looks, spent>>

\* The run wrote nothing: it leaves a plan (waits::plan).
RunNothing(r, then) ==
    /\ Ready(ClaimOf[r], due, time) = {}
    /\ plan' = [plan EXCEPT ![r] = [seq |-> seq, at |-> WakesAt(due, time)]]
    /\ pc' = [pc EXCEPT ![r] = then]
    /\ UNCHANGED <<db, st, joined, late, alarms, jobs, looks, spent>>
------------------------------------------------------------------------------
(* A request's thread (respond).                                           *)

\* The first run, answered where it wrote.
FirstRun(r) ==
    /\ pc[r] = "new" /\ r \in DOMAIN ClaimOf
    /\ RunWrites(r, "left") \/ RunNothing(r, "planned")

\* `join` reads the clock before it takes the mutex.
Come(r) ==
    /\ pc[r] = "planned"
    /\ Cardinality({q \in Requests : pc[q] = "coming"}) < Racers
    /\ joined' = [joined EXCEPT ![r] = 1 + Cardinality({q \in Requests : joined[q] > 0})]
    /\ pc' = [pc EXCEPT ![r] = "coming"]
    /\ UNCHANGED <<db, st, plan, late, alarms, jobs, looks, spent>>

Join(r) ==
    LET p == plan[r]
        same == {i \in DOMAIN st.groups : Claim(st.groups[i]) = ClaimOf[r]}
        i == Only(same)
        at == IF st.groups[i].at = {} \/ p.at = {} THEN st.groups[i].at \cup p.at
              ELSE {Least(st.groups[i].at \cup p.at)}
        s == IF same # {}
             THEN [st EXCEPT !.groups[i].queue = Append(@, r), !.groups[i].at = at]
             ELSE [st EXCEPT !.groups = Append(@, NewGroup(r, p))]
        kicks == same = {} \/ at # st.groups[i].at
    IN  /\ pc[r] = "coming"
        /\ st' = s
        /\ pc' = Woken([pc EXCEPT ![r] = "next"], IF kicks THEN Kick(s) ELSE {})
        /\ UNCHANGED <<db, threads, alarms, jobs, looks, spent>>

\* `next` returns: to a run its group's bid won, or for good.
Returns(r, s, to) ==
    /\ st' = Resign(s, r)
    /\ pc' = Woken([pc EXCEPT ![r] = to], ResignWakes(s, r))
    /\ UNCHANGED <<db, threads, alarms, jobs, looks, spent>>

\* A turn of the loop in `next`, under the mutex.
Loop(r) ==
    LET i == GroupOf(st, r)
        g == st.groups[i]
        wins == Head(g.queue) = r /\ g.go
        s == IF st.leader = {} THEN [st EXCEPT !.leader = {r}] ELSE st
    IN  /\ pc[r] = "next"
        /\ \/ st.closed /\ Returns(r, st, "leaving")
           \/ /\ ~st.closed /\ wins
              /\ Returns(r, [st EXCEPT !.groups[i].go = FALSE, !.groups[i].running = TRUE],
                         "running")
           \/ ~st.closed /\ ~wins /\ r \in late /\ Returns(r, st, "leaving")
           \/ /\ ~st.closed /\ ~wins /\ r \notin late
              /\ s.leader = {r} /\ JobsOf(s) # <<>>
              /\ jobs' = JobsOf(s) /\ st' = [Jobs(s) EXCEPT !.looking = TRUE]
              /\ pc' = [pc EXCEPT ![r] = "looking"]
              /\ UNCHANGED <<db, threads, alarms, looks, spent>>
           \/ /\ ~st.closed /\ ~wins /\ r \notin late
              /\ s.leader # {r} \/ JobsOf(s) = <<>>
              /\ st' = IF s.leader = {r} THEN Jobs(s) ELSE s
              /\ alarms' = [alarms EXCEPT ![r] = IF s.leader = {r} THEN Deadline(Jobs(s)) ELSE {}]
              /\ pc' = [pc EXCEPT ![r] = "asleep"]
              /\ UNCHANGED <<db, threads, jobs, looks, spent>>

\* Some of the leader's looks, under one read lock (look_all, LOOK_HOLD).
LookAll(r) ==
    /\ pc[r] = "looking" /\ jobs # <<>>
    /\ \E k \in 1 .. Len(jobs) :
        /\ looks' = looks \o [i \in 1 .. k |-> Look(jobs[i])]
        /\ jobs' = SubSeq(jobs, k + 1, Len(jobs))
    /\ UNCHANGED <<db, st, pc, threads, alarms, spent>>

\* A look meets an error, which its head is to run and answer.
LookErrs(r) ==
    /\ pc[r] = "looking" /\ jobs # <<>> /\ spent.fails < setting.fails
    /\ looks' = Append(looks, [Look(Head(jobs)) EXCEPT !.error = TRUE, !.row = {},
                                                       !.rank = {}, !.at = {}])
    /\ jobs' = Tail(jobs)
    /\ spent' = [spent EXCEPT !.fails = @ + 1]
    /\ UNCHANGED <<db, st, pc, threads, alarms>>

\* The looks made are recorded and the round settled, under the mutex.
Looked(r) ==
    LET recorded == FoldLeft(Record, [st EXCEPT !.looking = FALSE], looks)
        settled == Settle(recorded)
    IN  /\ pc[r] = "looking" /\ jobs = <<>>
        /\ st' = settled /\ looks' = <<>>
        /\ pc' = Woken([pc EXCEPT ![r] = "next"], Won(recorded, settled))
        /\ UNCHANGED <<db, threads, alarms, jobs, spent>>

\* A wait that sleeps to a moment wakes there.
Passed(alarm) ==
    CASE alarm[1] = "at" -> alarm[2] <= time
      [] alarm[1] = "gap" -> \A i \in At(st, alarm[2]) : ~st.groups[i].quiet
      [] alarm[1] = "back" -> \A i \in At(st, alarm[2]) : st.groups[i].back # "paused"

Timeout(r) ==
    /\ pc[r] = "asleep" /\ (r \in late \/ \E a \in alarms[r] : Passed(a))
    /\ pc' = [pc EXCEPT ![r] = "next"]
    /\ UNCHANGED <<db, st, threads, alarms, jobs, looks, spent>>

\* The run of a head that won, and its client gone before it.
Run(r) ==
    /\ pc[r] = "running"
    /\ RunWrites(r, "handing") \/ RunNothing(r, "nothing")

Gone(r) ==
    /\ pc[r] = "running" /\ spent.fails < setting.fails
    /\ spent' = [spent EXCEPT !.fails = @ + 1]
    /\ pc' = [pc EXCEPT ![r] = "handing"]
    /\ UNCHANGED <<db, st, threads, alarms, jobs, looks>>

\* The run is refused -- a token past its time, an error -- and writes nothing.
Refused(r) ==
    /\ pc[r] = "running" /\ Cardinality(spent.refused) < setting.refusals
    /\ spent' = [spent EXCEPT !.refused = @ \cup {ClaimOf[r]}]
    /\ pc' = [pc EXCEPT ![r] = "leaving"]
    /\ UNCHANGED <<db, st, threads, alarms, jobs, looks>>

Again(r) ==
    LET i == GroupOf(st, r)
        s == Release([st EXCEPT !.groups[i].since = plan[r].seq, !.groups[i].at = plan[r].at,
                                !.groups[i].running = FALSE], st.groups[i].id)
    IN  /\ pc[r] = "nothing"
        /\ st' = s
        /\ pc' = Woken([pc EXCEPT ![r] = "next"], Kick(s))
        /\ UNCHANGED <<db, threads, alarms, jobs, looks, spent>>

\* The tenant's rate refused the run before it wrote.
Pause(r) ==
    LET i == GroupOf(st, r)
        s == Release([st EXCEPT !.groups[i].running = FALSE, !.groups[i].back = "paused"],
                     st.groups[i].id)
        settled == Settle(s)
    IN  /\ pc[r] = "running" /\ r \notin late /\ spent.pauses < setting.pauses
        /\ spent' = [spent EXCEPT !.pauses = @ + 1]
        /\ st' = settled
        /\ pc' = Woken([pc EXCEPT ![r] = "next"], Won(s, settled) \cup Kick(settled))
        /\ UNCHANGED <<db, threads, alarms, jobs, looks>>

\* A group a request left. What its head held for the group -- a run, a win it
\* did not run, a bid -- goes with it.
Without(g, r, handOn) ==
    IF Head(g.queue) = r
    THEN [g EXCEPT !.queue = Tail(@), !.running = FALSE, !.bid = {}, !.go = FALSE,
                   !.now = @ \/ handOn \/ g.bid # {} \/ g.go]
    ELSE [g EXCEPT !.queue = SelectSeq(@, LAMBDA q : q # r)]

\* The group kept where its last head's coming put it.
PlacedThere(groups, i, g) ==
    IF g.queue = <<>> THEN RemoveAt(groups, i) ELSE [groups EXCEPT ![i] = g]

\* A group whose head left goes where its next head's coming puts it.
Placed(groups, i, g) ==
    LET rest == RemoveAt(groups, i)
        later == {k \in DOMAIN rest : HeadJoined(rest[k]) > HeadJoined(g)}
    IN  IF g.queue = <<>> THEN rest
        ELSE IF Head(g.queue) = Head(groups[i].queue) THEN [groups EXCEPT ![i] = g]
        ELSE InsertAt(rest, IF later = {} THEN Len(groups) ELSE Least(later), g)

\* The rows a run took are remembered for the looks begun before it ended.
Recalled(s, id) ==
    LET open(at) == \E g \in Range(s.groups) : g.looking /\ g.seen < at
        took == {[row |-> e.row, at |-> s.writes] : e \in {f \in s.taken : f.by = id}}
    IN  [s EXCEPT !.gone = {e \in @ : open(e.at)} \cup (IF open(s.writes) THEN took ELSE {})]

Leave(r, handOn) ==
    LET i == GroupOf(st, r)
        id == st.groups[i].id
        head == Head(st.groups[i].queue) = r
        left == [st EXCEPT !.groups = Placed(@, i, Without(@[i], r, handOn))]
        recalled == IF head /\ handOn THEN Recalled(left, id) ELSE left
        released == IF head THEN Release(recalled, id) ELSE recalled
        settled == Settle(released)
    IN  /\ pc[r] = IF handOn THEN "handing" ELSE "leaving"
        /\ st' = settled
        /\ pc' = Woken([pc EXCEPT ![r] = "left"], Won(released, settled) \cup Kick(settled))
        /\ UNCHANGED <<db, threads, alarms, jobs, looks, spent>>

------------------------------------------------------------------------------
(* Time, and the tenant closed, for good or for a while (Waits::close).    *)

WaitOut(r) ==
    /\ pc[r] \in {"next", "asleep", "looking", "running"} /\ r \in setting.impatient \ late
    /\ late' = late \cup {r}
    /\ UNCHANGED <<db, st, pc, joined, plan, alarms, jobs, looks, spent>>

Tick ==
    /\ time < setting.time /\ time' = time + 1
    /\ UNCHANGED <<due, seq, put, st, pc, threads, alarms, jobs, looks, spent>>

GapEnds ==
    \E i \in DOMAIN st.groups :
        /\ st.groups[i].quiet
        /\ st' = [st EXCEPT !.groups[i].quiet = FALSE]
        /\ UNCHANGED <<db, pc, threads, alarms, jobs, looks, spent>>

PauseEnds ==
    \E i \in DOMAIN st.groups :
        /\ st.groups[i].back = "paused"
        /\ st' = [st EXCEPT !.groups[i].back = "over"]
        /\ UNCHANGED <<db, pc, threads, alarms, jobs, looks, spent>>

\* The requests asleep not woken to be told.
CloseUntold ==
    /\ spent.closes < setting.closes
    /\ ~st.closed /\ st' = [st EXCEPT !.closed = TRUE]
    /\ spent' = [spent EXCEPT !.closes = @ + 1]
    /\ UNCHANGED <<db, pc, threads, alarms, jobs, looks>>

\* A shutdown ends the requests held as a close does (end_all).
Close ==
    /\ spent.closes < setting.closes
    /\ ~st.closed /\ st' = [st EXCEPT !.closed = TRUE]
    /\ spent' = [spent EXCEPT !.closes = @ + 1]
    /\ pc' = Woken(pc, UNION {Range(g.queue) : g \in Range(st.groups)})
    /\ UNCHANGED <<db, threads, alarms, jobs, looks>>

\* What closed the tenant gave up: those not answered yet wait on.
Reopen ==
    /\ st.closed /\ st' = [st EXCEPT !.closed = FALSE]
    /\ UNCHANGED <<db, pc, threads, alarms, jobs, looks, spent>>

Init ==
    /\ setting \in Settings
    /\ due = [x \in Rows |-> {}] /\ seq = 0 /\ time = 0
    /\ st = [closed |-> FALSE, groups |-> <<>>, writes |-> 0, horizon |-> {}, taken |-> {},
             gone |-> {}, leader |-> {}, looking |-> FALSE]
    /\ pc = [r \in Requests |-> "new"]
    /\ joined = [r \in Requests |-> 0]
    /\ plan = [r \in Requests |-> [seq |-> 0, at |-> {}]]
    /\ late = {} /\ alarms = [r \in Requests |-> {}] /\ jobs = <<>> /\ looks = <<>>
    /\ spent = [writes |-> 0, fails |-> 0, refused |-> {}, pauses |-> 0, closes |-> 0]
    /\ put = [x \in Rows |-> 0]

Thread(r) ==
    \/ Come(r) \/ Join(r) \/ Loop(r) \/ LookAll(r) \/ Looked(r) \/ Timeout(r)
    \/ Run(r) \/ Again(r) \/ Leave(r, TRUE) \/ Leave(r, FALSE)

Step ==
    \/ \E x \in Rows : Put(x) \/ Taken(x)
    \/ \E r \in Requests : \/ FirstRun(r) \/ Thread(r) \/ LookErrs(r) \/ Gone(r)
                           \/ Refused(r) \/ Pause(r) \/ WaitOut(r)
    \/ Tick \/ GapEnds \/ PauseEnds \/ Close \/ Reopen

Next == Step /\ UNCHANGED setting

Spec == Init /\ [][Next]_<<setting, vars>>

Places == {"new", "planned", "coming", "next", "asleep", "looking", "running", "nothing",
           "handing", "leaving", "left"}

\* Where Thread(r) is enabled, spelled out: ENABLED of it costs TLC too much.
CanStep(r) ==
    \/ pc[r] \notin {"new", "planned", "asleep", "left"}
    \/ pc[r] = "planned" /\ Cardinality({q \in Requests : pc[q] = "coming"}) < Racers
    \/ pc[r] = "asleep" /\ (r \in late \/ \E a \in alarms[r] : Passed(a))

\* Weak fairness, by the places it leaves: no thread stays for ever where it can
\* go on (each of its steps but LookAll takes it elsewhere, and the looks run
\* out), and every gap and every pause passes.
Fairness ==
    /\ \A r \in Requests, p \in Places \ {"new", "left"} : []<>~(pc[r] = p /\ CanStep(r))
    /\ \A id \in Requests :
        /\ []<>(\A i \in At(st, id) : ~st.groups[i].quiet)
        /\ []<>(\A i \in At(st, id) : st.groups[i].back # "paused")

LiveSpec == Spec /\ Fairness
------------------------------------------------------------------------------
(* Properties.                                                             *)

Option(S) == {{}} \cup {{x} : x \in S}

\* Every request is in one group while it is held, and in none before or after.
TypeOK ==
    /\ due \in [Rows -> Option(0 .. MaxTime)] /\ seq \in Nat /\ time \in 0 .. MaxTime
    /\ pc \in [Requests -> Places] /\ late \subseteq Requests
    /\ st.leader \in Option(Requests) /\ st.horizon \in Option(0 .. st.writes)
    /\ \A r \in Requests :
        Cardinality({i \in DOMAIN st.groups : r \in Range(st.groups[i].queue)})
            = IF pc[r] \in {"new", "planned", "coming", "left"} THEN 0 ELSE 1
    /\ \A g \in Range(st.groups) : g.queue # <<>>

\* Nothing is to happen but by a request, a write, a wait's end or a moment.
AtRest ==
    /\ \A r \in Requests :
        /\ pc[r] \in {"new", "asleep", "left"} /\ ~(pc[r] = "asleep" /\ r \in late)
        /\ pc[r] = "asleep" =>
             \A a \in alarms[r] : a[1] = "at" /\ ~Passed(a)

\* The head's run was refused: leave(false) may leave those behind it in its
\* group asleep with the row there.
PassedOver(g) == Claim(g) \in spent.refused

\* A request is held and run again once it may write (the doc of waits.rs):
\* with every thread asleep, no row is there that a held request would take --
\* but for those of a group a refusal passed over.
NothingMissed ==
    AtRest => \A g \in Range(st.groups) :
        Ready(Claim(g), due, time) = {} \/ PassedOver(g)

\* One held request looks for every group, until it leaves and hands the looks
\* on (State::leader, resign): while requests sleep, one leads, or is awake to.
LooksGoOn ==
    /\ \A r \in st.leader : pc[r] \in {"next", "asleep", "looking"}
    /\ (\E r \in Requests : pc[r] = "asleep") /\ st.leader = {}
         => \E r \in Requests : pc[r] \in {"next", "running", "nothing", "handing", "leaving"}

\* A row is given to one group at a time, which runs or is to, and a group
\* waits behind one that will let it go (State::taken, Group::behind).
RunsReleased ==
    /\ \A e \in st.taken :
        /\ \A f \in st.taken : e.row = f.row => e = f
        /\ \E g \in Range(st.groups) : g.id = e.by /\ (g.go \/ g.running)
    /\ \A g \in Range(st.groups) : \A id \in g.behind :
        \E h \in Range(st.groups) :
            h.id = id /\ (~Idle(h) \/ h.now \/ DueAt(h, time))

\* The groups are in the order their heads came, and so is each queue
\* (State::groups, Group::queue), which settle's one scan relies on.
InOrder ==
    /\ \A i, j \in DOMAIN st.groups :
        i < j => HeadJoined(st.groups[i]) < HeadJoined(st.groups[j])
    /\ \A g \in Range(st.groups) : \A i, j \in DOMAIN g.queue :
        i < j => joined[g.queue[i]] < joined[g.queue[j]]

\* The groups, their order, the rows given and who leads agree with where each
\* held request stands (State).
WaitsInv == TypeOK /\ LooksGoOn /\ RunsReleased /\ InOrder

Bidding(g, x) == [rank |-> RankOf[Claim(g)][x], joined |-> HeadJoined(g)]

\* A row several groups would take goes to the one whose claim ranks it first,
\* the one held longest on a tie (settle): a row announced by the time
\* its round's first bidder was recorded leaves no group idle that ranks it better
\* and was not passed over.
GivenToFirst ==
    [][\A e \in st'.taken \ st.taken : \A g, h \in Range(st'.groups) :
         (/\ put[e.row] \in 1 .. (IF st.horizon = {} THEN st.writes ELSE Only(st.horizon))
          /\ g.id = e.by /\ h.id # e.by /\ Idle(h) /\ e.row \in Ready(Claim(h), due, time)
          /\ ~PassedOver(h))
         => ~Better(Bidding(h, e.row), Bidding(g, e.row))]_vars

\* A row there for a held request is taken, or no request held would take it:
\* the looks end, the round settles and the head runs.
Served ==
    \A x \in Rows :
        LET wanted == \E g \in Range(st.groups) :
                          x \in Ready(Claim(g), due, time) /\ ~PassedOver(g)
        IN  wanted ~> ~wanted

\* The tenant closed, every held request is answered, unless it is opened again
\* first (Waits::close, Waits::reopen).
AllAnswered == st.closed ~> (~st.closed \/ st.groups = <<>>)
==============================================================================
