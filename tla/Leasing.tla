------------------------------ MODULE Leasing ------------------------------
(***************************************************************************)
(* Automatic failover: a router leases every node the tenants it places    *)
(* there, and fails a node over once its lease has certainly lapsed        *)
(* (crates/fenec-shard/src/lease.rs and the rounds, grants and failovers   *)
(* of crates/fenec-shard/src/lib.rs), beside the nodes' side (LeaseNode).  *)
(*                                                                         *)
(* Time is the router's clock, `now`. boot[n][i] is what node n's boot     *)
(* clock reads at the router's time i: it may run slower than the router's *)
(* but, over more than a lease and its margin, by no more than the margin  *)
(* (ClockKept), which is what the code's tenth stands for.                 *)
(*                                                                         *)
(* A grant is in flight from its send until it is read, however late: the  *)
(* router gives up on it at any time (GiveUp), and the node may read it    *)
(* long after. A router process may end at any time and another, with      *)
(* another lease, take over the directory: restarted at the same term, or  *)
(* promoted at the next. Its grants stay in flight.                        *)
(*                                                                         *)
(* Left out: a tenant's move (its source is frozen, not fenced), a         *)
(* failover by hand (it waits for no lease), and which copy a failover     *)
(* promotes: any other node here.                                          *)
(***************************************************************************)
EXTENDS LeaseNode

CONSTANTS
    Nodes,        \* nodes the directory names
    Elsewhere,    \* stands for its other nodes, whose leases are left out
    Restarting,   \* the nodes that may restart
    Terms,        \* the leases router processes may be started with
    Share,        \* the margin is a lease divided by this (10 in the code)
    MaxTime,      \* bound: the router's clock
    MaxProc,      \* bound: router processes
    MaxGrant,     \* bound: grants a process sends a node
    MaxReading    \* bound: readings of the directory a process takes

ASSUME LeasingAssumption ==
    /\ Elsewhere \notin Nodes /\ Restarting \subseteq Nodes
    /\ Terms \subseteq Nat \ {0} /\ Terms # {}
    /\ Share \in Nat \ {0}
    /\ MaxTime \in Nat /\ MaxProc \in Nat
    /\ MaxGrant \in Nat /\ MaxReading \in Nat

Places == Nodes \cup {Elsewhere}

VARIABLES
    now,        \* the router's clock
    boot,       \* boot[n][i]: node n's clock at the router's time i
    lease,      \* lease[n]: what node n holds (LeaseNode)
    grants,     \* grants[n]: the grants in flight to n
    reply,      \* reply[n]: the answer on its way to the grant waited on
    place,      \* the directory: the node each tenant is placed on
    record,     \* the directory: the longest lease a router may have granted
    router,     \* the router process: its lease, its holder, what it counts by
    held,       \* held[n]: what the router knows of n's lease
    turn,       \* turn[n]: who holds n's turn to be granted
    sent,       \* sent[n]: the reading of the newest list sent to n
    queue,      \* queue[n]: grants waiting for n's turn
    withheld,   \* withheld[n]: tenants n's grants name no more
    left        \* left[n]: tenants n's failover goes back to

dirVars == <<place, record>>
nodeVars == <<lease, grants, reply>>
vars == <<now, boot, nodeVars, dirVars, router, held, turn, sent, queue,
          withheld, left>>

\* Mutant of Lapse: a failover that waits for the lease and no margin.
LapseNoMargin(l) == l

\* lapse: a lease and its margin.
Lapse(l) == l + l \div Share

Clock(n) == boot[n][now]

------------------------------------------------------------------------------
(* The router's record of a node and of the grant that holds its turn.     *)

FreshHeld == [acked |-> now, ackedGrant |-> {}, next |-> 0, list |-> {},
              lost |-> FALSE, refuses |-> FALSE, own |-> FALSE,
              granting |-> FALSE, failing |-> FALSE, known |-> TRUE]

UnknownHeld == [acked |-> 0, ackedGrant |-> {}, next |-> 0, list |-> {},
                lost |-> FALSE, refuses |-> FALSE, own |-> FALSE,
                granting |-> FALSE, failing |-> FALSE, known |-> FALSE]

\* Leases::entry: counted as granted when the router first knew the node.
Entry(n) == IF held[n].known THEN held[n] ELSE FreshHeld

FreeTurn == [phase |-> "free", grant |-> <<0, 0>>, ms |-> 0, list |-> {},
             with |-> FALSE, followed |-> FALSE, back |-> FALSE,
             round |-> FALSE, todo |-> {}, over |-> {}]

\* Mutant of TermOf: a router that counts every node by its own lease.
TermOfOwn(h, r) == r.term

\* Leases::term_of: the router's own lease once the node ran one of it, the
\* longest recorded until then.
TermOf(h, r) == IF h.own THEN r.term ELSE r.inherited

\* lapsed: more than a lease and its margin since the last answer in time.
Lapsed(h, r) == now - h.acked > Lapse(TermOf(h, r))

\* Router::primaries_read: what the directory places on n, less what is
\* withheld from it.
Primaries(n, pl, wh) == {t \in Tenants : pl[t] = {n} /\ t \notin wh[n]}

\* Leases::short: no lease, or less than lasts to the next round's grant.
Short(leftMs) == 2 * leftMs < router.granting

NewRouter(proc, term, holder) ==
    [proc |-> proc, term |-> term, holder |-> holder, led |-> FALSE,
     started |-> now, inherited |-> term, recorded |-> FALSE,
     granting |-> term, readings |-> 0]

------------------------------------------------------------------------------
Reply == [kind : {"taken", "kept", "needs_list", "superseded"},
          ran : BOOLEAN, left : Nat]
RouterState == [proc : Nat, term : Terms, holder : Holder, led : BOOLEAN,
                started : Nat, inherited : Nat, recorded : BOOLEAN,
                granting : Nat, readings : Nat]
Held == [acked : Nat, ackedGrant : Option(Number), next : Nat, list : Option(Lists),
         lost : BOOLEAN, refuses : BOOLEAN, own : BOOLEAN, granting : BOOLEAN,
         failing : BOOLEAN, known : BOOLEAN]
Turn == [phase : {"free", "waiting", "failover"}, grant : Number, ms : Nat,
         list : Lists, with : BOOLEAN, followed : BOOLEAN, back : BOOLEAN,
         round : BOOLEAN, todo : Lists, over : Lists]
Queued == [list : Lists, reading : Nat, round : BOOLEAN]

\* The clocks, the node's lease (fenec-http lease.rs State), the router's
\* records (Leases, Held) and the directory hold values of their types.
TypeOK ==
    /\ now \in Nat
    /\ boot \in [Nodes -> [0 .. now -> Nat]]
    /\ lease \in [Nodes -> LeaseState]
    /\ grants \in [Nodes -> SUBSET Grant]
    /\ reply \in [Nodes -> Option(Reply)]
    /\ place \in [Tenants -> Option(Places)]
    /\ record \in Nat
    /\ router \in RouterState
    /\ held \in [Nodes -> Held]
    /\ turn \in [Nodes -> Turn]
    /\ sent \in [Nodes -> Nat]
    /\ queue \in [Nodes -> SUBSET Queued]
    /\ withheld \in [Nodes -> Lists]
    /\ left \in [Nodes -> Lists]

Init ==
    /\ now = 0
    /\ boot = [n \in Nodes |-> [i \in 0 .. 0 |-> 0]]
    /\ lease = [n \in Nodes |-> NewLease]
    /\ grants = [n \in Nodes |-> {}]
    /\ reply = [n \in Nodes |-> {}]
    /\ place \in [Tenants -> {{}} \cup {{n} : n \in Places}]
    /\ record = 0
    /\ \E term \in Terms : router = NewRouter(0, term, [term |-> 0, history |-> 0])
    /\ held = [n \in Nodes |-> UnknownHeld]
    /\ turn = [n \in Nodes |-> FreeTurn]
    /\ sent = [n \in Nodes |-> 0]
    /\ queue = [n \in Nodes |-> {}]
    /\ withheld = [n \in Nodes |-> {}]
    /\ left = [n \in Nodes |-> {}]

------------------------------------------------------------------------------
(* Granting.                                                               *)

\* Router::grant_term: what a grant runs, the directory made to record a
\* lease no shorter first. Where the raise cannot be written, no longer than
\* the record. A directory with no record yet takes its first: the code says
\* of one that cannot that a later router is not told of the lease.
GrantTerm(r, ms) ==
    \/ /\ r.recorded \/ record >= r.term
       /\ ms = r.term
       /\ router' = [r EXCEPT !.recorded = TRUE, !.granting = r.term]
       /\ UNCHANGED record
    \/ /\ ~r.recorded /\ record < r.term
       /\ ms = r.term
       /\ record' = r.term
       /\ router' = [r EXCEPT !.recorded = TRUE, !.granting = r.term]
    \/ /\ ~r.recorded /\ record < r.term /\ record # 0
       /\ ms = record
       /\ router' = [r EXCEPT !.granting = record]
       /\ UNCHANGED record

\* Leases::number and the POST: the next grant to n, acknowledging the newest
\* whose answer came back, under the turn tn; h is the node's record.
Send(n, h, tn) ==
    LET number == <<router.proc, h.next>>
    IN  /\ h.next < MaxGrant
        /\ grants' = [grants EXCEPT ![n] = @ \cup
                        {[holder |-> router.holder, ms |-> tn.ms, list |-> tn.list,
                          with |-> tn.with, grant |-> number, acked |-> h.ackedGrant]}]
        /\ reply' = [reply EXCEPT ![n] = {}]
        /\ turn' = [turn EXCEPT ![n] = [tn EXCEPT !.phase = "waiting", !.grant = number]]
        /\ held' = [held EXCEPT ![n] = [h EXCEPT !.next = @ + 1]]

\* The list rides where the node may not hold it.
StartGrant(n, list, ms, round, over) ==
    Send(n, Entry(n),
         [FreeTurn EXCEPT !.list = list, !.ms = ms, !.round = round, !.over = over,
                          !.with = (Entry(n).list # {list})])

\* Router::grant takes the node's turn: one grant to a node at a time, and
\* none over a reading older than the newest sent.
TakeTurn(n) ==
    /\ turn[n].phase = "free"
    /\ \E q \in queue[n] :
        /\ queue' = [queue EXCEPT ![n] = @ \ {q}]
        /\ \/ /\ q.reading < sent[n]
              /\ held' = [held EXCEPT ![n].granting = @ /\ ~q.round]
              /\ UNCHANGED <<router, record, sent, grants, reply, turn>>
           \/ /\ q.reading >= sent[n]
              /\ sent' = [sent EXCEPT ![n] = q.reading]
              /\ \E ms \in {router.term, record} :
                    GrantTerm(router, ms) /\ StartGrant(n, q.list, ms, q.round, {})
    /\ UNCHANGED <<now, boot, lease, place, withheld, left>>

\* The turn is let go of. A node that answered after its failover is granted
\* again at once, over what the directory places there now (answers_again).
EndTurn(n, h, wh, back) ==
    /\ turn' = [turn EXCEPT ![n] = FreeTurn]
    /\ held' = [held EXCEPT ![n] = [h EXCEPT !.granting = @ /\ ~turn[n].round]]
    /\ reply' = [reply EXCEPT ![n] = {}]
    /\ left' = [left EXCEPT ![n] = IF back THEN @ \ turn[n].over ELSE @]
    /\ IF back
       THEN /\ router.readings < MaxReading
            /\ router' = [router EXCEPT !.readings = @ + 1]
            /\ queue' = [queue EXCEPT ![n] = @ \cup
                           {[list |-> Primaries(n, place, wh), round |-> FALSE,
                             reading |-> router.readings + 1]}]
       ELSE UNCHANGED <<router, queue>>
    /\ UNCHANGED grants

\* Leases::answered and Leases::ran: the router's record once n said a.
AfterAnswer(n, a) ==
    LET h == held[n]
    IN  CASE a.kind = "taken" ->
               [h EXCEPT !.acked = now, !.ackedGrant = {turn[n].grant},
                         !.list = {turn[n].list}, !.refuses = FALSE, !.lost = FALSE,
                         !.own = @ \/ a.ran]
          [] a.kind = "kept" ->
               [h EXCEPT !.acked = now, !.ackedGrant = {turn[n].grant},
                         !.list = {}, !.refuses = FALSE, !.lost = FALSE]
          [] a.kind = "needs_list" -> [h EXCEPT !.list = {}]
          [] a.kind = "superseded" -> [h EXCEPT !.refuses = TRUE]

\* Whether grant_held goes round again, and with what.
Again(tn, a) ==
    IF a.kind = "needs_list" /\ ~tn.with THEN {[tn EXCEPT !.with = TRUE]}
    ELSE IF a.kind = "kept" /\ ~tn.followed
    THEN {[tn EXCEPT !.with = TRUE, !.followed = TRUE]}
    ELSE IF a.kind = "taken" /\ ~tn.followed /\ Short(a.left)
    THEN {[tn EXCEPT !.with = FALSE, !.followed = TRUE]}
    ELSE {}

\* The answer came back in time.
Hear(n) ==
    /\ turn[n].phase = "waiting"
    /\ \E a \in reply[n] :
        LET h    == AfterAnswer(n, a)
            back == turn[n].back \/ (held[n].lost /\ ~h.lost)
            wh   == IF held[n].lost /\ ~h.lost
                    THEN [withheld EXCEPT ![n] = {}] ELSE withheld
            more == Again([turn[n] EXCEPT !.back = back], a)
        IN  /\ withheld' = wh
            /\ \/ \E tn \in more : Send(n, h, tn) /\ UNCHANGED <<router, queue, left>>
               \/ more = {} /\ EndTurn(n, h, wh, back)
    /\ UNCHANGED <<now, boot, lease, dirVars, sent>>

\* No answer within the pool's bound: the grant may be read all the same.
GiveUp(n) ==
    /\ turn[n].phase = "waiting"
    /\ EndTurn(n, held[n], withheld, turn[n].back)
    /\ UNCHANGED <<now, boot, lease, dirVars, sent, withheld>>

\* The node reads a grant in flight. Its answer reaches the router where the
\* router still waits on that grant. Answers are given at moments that differ.
NodeReads(n) ==
    /\ \A a \in lease[n].answered : a.at # Clock(n)
    /\ \E g \in grants[n] :
        /\ grants' = [grants EXCEPT ![n] = @ \ {g}]
        /\ lease' = [lease EXCEPT ![n] = ReadGrant(@, g, Clock(n))]
        /\ reply' = IF turn[n].phase = "waiting" /\ turn[n].grant = g.grant
                    THEN [reply EXCEPT ![n] = {Said(lease[n], g, Clock(n))}]
                    ELSE reply
    /\ UNCHANGED <<now, boot, dirVars, router, held, turn, sent, queue, withheld, left>>

------------------------------------------------------------------------------
(* Rounds and failovers.                                                   *)

\* Leases::leading: the first round counts every node as granted now, by the
\* longest lease the directory recorded.
Leading ==
    IF router.led THEN router
    ELSE [router EXCEPT !.led = TRUE, !.started = now,
                        !.inherited = IF record > router.term THEN record ELSE router.term]

\* Mutant of Lowerable: the record lowered a lease of this router's after it led.
LowerableEarly(r) == r.inherited > r.term /\ now - r.started > Lapse(r.term)

\* Leases::lowerable: the router has led a lease and a margin of a longer one.
Lowerable(r) == r.inherited > r.term /\ now - r.started > Lapse(r.inherited)

\* Leases::know for every node, and the first round's recount.
RoundEntry(n) == IF router.led THEN Entry(n) ELSE [Entry(n) EXCEPT !.acked = now]

\* Leases::suspects.
Suspect(h, r) ==
    /\ ~h.refuses /\ ~h.lost /\ ~h.failing
    /\ Lapsed(h, r)

\* Router::round: every node with none of a round's grants under way is sent
\* one, and every node whose lease looks lapsed is suspected.
Round ==
    /\ router.readings < MaxReading
    /\ \E lower \in BOOLEAN :
        LET lead == Leading
            wh   == IF router.led THEN withheld ELSE [n \in Nodes |-> {}]
            r    == [lead EXCEPT !.inherited = IF lower THEN router.term ELSE @,
                                 !.readings = @ + 1]
        IN  /\ lower => Lowerable(lead)
            /\ record' = IF lower THEN router.term ELSE record
            /\ router' = r
            /\ withheld' = wh
            /\ held' = [n \in Nodes |->
                          [RoundEntry(n) EXCEPT !.granting = TRUE,
                                                !.failing = @ \/ Suspect(RoundEntry(n), r)]]
            /\ queue' = [n \in Nodes |->
                           IF held[n].granting THEN queue[n]
                           ELSE queue[n] \cup {[list |-> Primaries(n, place, wh),
                                                reading |-> r.readings, round |-> TRUE]}]
    /\ UNCHANGED <<now, boot, nodeVars, place, turn, sent, left>>

\* Router::fail_over_lapsed and Leases::confirm_lapse: the lapse is judged
\* again in the node's turn, which the failover then keeps.
ConfirmLapse(n) ==
    LET h == held[n]
        lapsed == ~h.refuses /\ ~h.lost /\ Lapsed(h, router)
    IN  /\ h.failing
        /\ turn[n].phase = "free"
        /\ held' = [held EXCEPT ![n].failing = FALSE, ![n].lost = @ \/ lapsed]
        /\ turn' = IF lapsed
                   THEN [turn EXCEPT ![n] =
                           [FreeTurn EXCEPT !.phase = "failover",
                                            !.todo = {t \in Tenants : place[t] = {n}}]]
                   ELSE turn
        /\ UNCHANGED <<now, boot, nodeVars, dirVars, router, sent, queue, withheld, left>>

\* Router::failover, one tenant: promoted on another node and placed there;
\* left, its promotion refused; or left to later, held by another operation.
Promote(n, t) ==
    /\ turn[n].phase = "failover" /\ t \in turn[n].todo
    /\ \/ /\ turn' = [turn EXCEPT ![n] = [turn[n] EXCEPT !.todo = @ \ {t}, !.over = @ \cup {t}]]
          /\ UNCHANGED place
       \/ /\ turn' = [turn EXCEPT ![n] = [turn[n] EXCEPT !.todo = @ \ {t}]]
          /\ \/ \E to \in Places \ {n} : place' = [place EXCEPT ![t] = {to}]
             \/ UNCHANGED place
    /\ UNCHANGED <<now, boot, nodeVars, record, router, held, sent, queue, withheld, left>>

\* Router::granted_after: one reading of the directory; the node itself is
\* granted first, in the turn still held, and every other node after.
GrantedAfter(n, pl, wh, over) ==
    LET reading == router.readings + 1
        list(m) == Primaries(m, pl, wh)
    IN  /\ router.readings < MaxReading
        /\ sent' = [sent EXCEPT ![n] = reading]
        /\ queue' = [m \in Nodes |->
                       IF m = n THEN queue[m]
                       ELSE queue[m] \cup {[list |-> list(m), reading |-> reading,
                                            round |-> FALSE]}]
        /\ \E ms \in {router.term, record} :
            /\ GrantTerm([router EXCEPT !.readings = reading], ms)
            /\ StartGrant(n, list(n), ms, FALSE, over)

\* The failover's end: what another operation held is named by no grant to
\* the node from here on, and gone back to.
FinishFailover(n) ==
    /\ turn[n].phase = "failover" /\ turn[n].todo = {}
    /\ withheld' = [withheld EXCEPT ![n] = @ \cup turn[n].over]
    /\ left' = [left EXCEPT ![n] = @ \cup turn[n].over]
    /\ GrantedAfter(n, place, withheld', turn[n].over)
    /\ UNCHANGED <<now, boot, lease, place>>

\* Router::fail_over_held: each tenant let go of meanwhile is promoted, in
\* the node's turn and while the node has answered no grant.
HeldPass(n) ==
    /\ turn[n].phase = "free" /\ held[n].lost
    /\ \E ready \in SUBSET left[n] :
        /\ ready # {}
        /\ \E moved \in SUBSET {t \in ready : place[t] = {n}} :
             \E to \in [moved -> Places \ {n}] :
               place' = [t \in Tenants |-> IF t \in moved THEN {to[t]} ELSE place[t]]
        /\ withheld' = [withheld EXCEPT ![n] = @ \ ready]
        /\ left' = [left EXCEPT ![n] = @ \ ready]
    /\ GrantedAfter(n, place', withheld', left'[n])
    /\ UNCHANGED <<now, boot, lease>>

\* Mutant of HeldEnd: given up, what is left stays left out of the grants.
HeldEndKeeps(n) ==
    /\ left[n] # {}
    /\ left' = [left EXCEPT ![n] = {}]
    /\ UNCHANGED <<now, boot, nodeVars, dirVars, router, held, turn, sent, queue, withheld>>

\* It ends once the node answered, or gives up and names what is left again.
HeldEnd(n) ==
    /\ left[n] # {}
    /\ withheld' = [withheld EXCEPT ![n] = IF held[n].lost THEN @ \ left[n] ELSE @]
    /\ left' = [left EXCEPT ![n] = {}]
    /\ UNCHANGED <<now, boot, nodeVars, dirVars, router, held, turn, sent, queue>>

------------------------------------------------------------------------------
(* What happens around the router and the nodes.                           *)

\* A tenant arrives on n, created there or promoted there by the failover of
\* a node left out of Nodes, and n is granted at once (lease_now).
Arrive(t, n) ==
    /\ place[t] = {} \/ place[t] = {Elsewhere}
    /\ router.readings < MaxReading
    /\ place' = [place EXCEPT ![t] = {n}]
    /\ router' = [router EXCEPT !.readings = @ + 1]
    /\ queue' = [queue EXCEPT ![n] = @ \cup
                   {[list |-> Primaries(n, place', withheld), round |-> FALSE,
                     reading |-> router.readings + 1]}]
    /\ UNCHANGED <<now, boot, nodeVars, record, held, turn, sent, withheld, left>>

\* A router process ends and another leads: restarted on the same history,
\* or a standby promoted, which forks it.
NextRouter ==
    /\ router.proc < MaxProc
    /\ \E term \in Terms, forked \in {0, 1} :
        router' = NewRouter(router.proc + 1, term,
                            [term |-> router.holder.term + forked,
                             history |-> router.holder.history + forked])
    /\ reply' = [n \in Nodes |-> {}]
    /\ held' = [n \in Nodes |-> UnknownHeld]
    /\ turn' = [n \in Nodes |-> FreeTurn]
    /\ sent' = [n \in Nodes |-> 0]
    /\ queue' = [n \in Nodes |-> {}]
    /\ withheld' = [n \in Nodes |-> {}]
    /\ left' = [n \in Nodes |-> {}]
    /\ UNCHANGED <<now, boot, lease, grants, dirVars>>

\* A node restarts: it holds no lease, and knows no grant it answered.
NodeRestarts(n) ==
    /\ n \in Restarting
    /\ lease[n] # NewLease
    /\ lease' = [lease EXCEPT ![n] = NewLease]
    /\ UNCHANGED <<now, boot, grants, reply, dirVars, router, held, turn, sent, queue,
                   withheld, left>>

\* The clocks: a node's may stand still for a tick of the router's, but over
\* more than a lease and its margin counts at least the lease.
ClockKept(clock, t) ==
    \A l \in Terms : \A i \in 0 .. t :
        t - i > l + l \div Share => clock[t] - clock[i] >= l

Tick ==
    /\ now < MaxTime
    /\ now' = now + 1
    /\ \E step \in [Nodes -> {0, 1}] :
        boot' = [n \in Nodes |->
                   [i \in 0 .. now + 1 |-> IF i <= now THEN boot[n][i]
                                           ELSE boot[n][now] + step[n]]]
    /\ \A n \in Nodes : ClockKept(boot'[n], now + 1)
    /\ UNCHANGED <<nodeVars, dirVars, router, held, turn, sent, queue, withheld, left>>

Next ==
    \/ Tick \/ Round \/ NextRouter
    \/ \E n \in Nodes :
        \/ TakeTurn(n) \/ Hear(n) \/ GiveUp(n) \/ NodeReads(n)
        \/ ConfirmLapse(n) \/ FinishFailover(n) \/ HeldPass(n) \/ HeldEnd(n)
        \/ NodeRestarts(n)
        \/ \E t \in Tenants : Promote(n, t) \/ Arrive(t, n)

Spec == Init /\ [][Next]_vars

------------------------------------------------------------------------------
(* What the leases are for.                                                *)

\* A node takes a tenant's writes only while the directory places the tenant
\* there: whatever grants are read late, whatever router granted them and
\* with whatever lease, a tenant promoted elsewhere is written on its new
\* node alone (Lease::allows against Router::failover).
OnePrimary ==
    \A n \in Nodes, t \in Tenants :
        Allows(lease[n], t, Clock(n)) => place[t] = {n}

\* No node runs a lease longer than the directory records, so a router that
\* starts next, with whatever lease, waits out every lease there is: the raise
\* comes before the grant, and the record is lowered only once no longer lease
\* can run (Router::grant_term, Leases::lowerable).
RecordCovers ==
    \A n \in Nodes :
        Running(lease[n], Clock(n)) =>
            \A b \in lease[n].basis : lease[n].until - b.at <= record

\* A tenant a node's grants leave out is one the node's failover is still to
\* go back to: none is left out for good, unwritable where the directory
\* places it (Leases::withhold and release against Router::fail_over_held).
WithheldTracked == \A n \in Nodes : withheld[n] \subseteq left[n]
==============================================================================
