--------------------------- MODULE MCReplication ----------------------------
(* Replication for TLC, from a primary already started, or from a primary and *)
(* two replicas at rest: a primary and a replica that swap places by crash,   *)
(* promotion and restart, with and without an image; two servers started      *)
(* under any flags in any order; a replica of a replica; and one failover     *)
(* among three.                                                               *)
EXTENDS Replication, TLC

CONSTANTS a, b, c

Setting(servers, flags, writes, forksMade, starting, imaged) ==
    [servers |-> servers, flags |-> flags, careful |-> TRUE, chained |-> FALSE,
     writes |-> writes, forks |-> forksMade, starts |-> starting, images |-> imaged]

Swapping == Setting({a, b}, {"plain", "follow"}, 2, 2, 3, 1)
AnyFlags == [Setting({a, b}, {"plain", "follow", "promote"}, 2, 2, 3, 0) EXCEPT !.careful = FALSE]
Chain == [Setting({a, b, c}, {"plain", "follow"}, 1, 1, 3, 0) EXCEPT !.chained = TRUE]
Among == Setting({a, b, c}, {"plain", "follow"}, 2, 2, 4, 0)
MCSettings == {Swapping, AnyFlags, Chain, Among}

\* Two failovers among three, the second from a replica that had not reached the
\* first.
Behind == Setting({a, b, c}, {"plain", "follow"}, 2, 3, 5, 0)
BehindSettings == {Behind}

h1 == <<[id |-> 1, from |-> 0]>>

\* A server with one history of its own and no write, the others not started.
Begun ==
    LET on == [s \in Servers |->
                  IF s = a THEN [lineage |-> h1, following |-> FALSE] ELSE RootHistory]
    IN
    /\ log = [s \in Servers |-> <<>>] /\ hist = on
    /\ file = [s \in Servers |-> {[log |-> <<>>, hist |-> on[s]]}]
    /\ up = [s \in Servers |-> s = a]
    /\ follows = [s \in Servers |-> {}]
    /\ running = [s \in Servers |-> FALSE]
    /\ role = [s \in Servers |-> IF s = a THEN "primary" ELSE "new"]
    /\ epoch = [s \in Servers |-> IF s = a THEN 1 ELSE 0]
    /\ made = 0 /\ starts = 1

\* A primary with one write, one replica that has it and one that has not yet
\* been sent it, all of it synced and no stream open.
Settled ==
    LET at == (a :> <<1>>) @@ (b :> <<>>) @@ (c :> <<1>>)
        on == [s \in Servers |-> [lineage |-> h1, following |-> s # a]]
    IN
    /\ log = at /\ hist = on
    /\ file = [s \in Servers |-> {[log |-> at[s], hist |-> on[s]]}]
    /\ up = [s \in Servers |-> TRUE]
    /\ follows = [s \in Servers |-> IF s = a THEN {} ELSE {a}]
    /\ running = [s \in Servers |-> s # a]
    /\ role = [s \in Servers |-> IF s = a THEN "primary" ELSE "replica"]
    /\ epoch = [s \in Servers |-> 1]
    /\ made = 1 /\ starts = 3

MCInit ==
    /\ setting \in Settings
    /\ IF setting \in {Among, Behind} THEN Settled ELSE Begun
    /\ force = [s \in Servers |-> FALSE]
    /\ conn = [s \in Servers |-> NoStream]
    /\ forks = 1 /\ images = 0
MCSpec == MCInit /\ [][Next]_<<setting, vars>> /\ Fairness

=============================================================================
