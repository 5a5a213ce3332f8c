----------------------------- MODULE MCTenants ------------------------------
(* Tenants for TLC: requests, closes and deletes against each other and the   *)
(* sweeper; a shutdown among them; freezes and thaws, with the sweeper and at *)
(* greater length without; a replica promoted; and one told to follow.        *)
EXTENDS Tenants

CONSTANTS t1, t2, t3

Setting(threads, asked, begun, writes) ==
    [threads |-> threads, ops |-> asked, sweeps |-> TRUE, replica |-> FALSE,
     begun |-> begun, made |-> writes]

Opening == Setting({t1, t2}, {"write", "schema", "create", "delete", "close", "sync"}, 4, 1)
Crowd == [Setting({t1, t2, t3}, {"write", "delete", "close"}, 3, 1) EXCEPT !.sweeps = FALSE]
Stopping == Setting({t1, t2}, {"write", "close", "shutdown"}, 3, 2)
Frozen == Setting({t1, t2}, {"write", "freeze", "thaw", "close", "delete"}, 3, 2)
Thawed == [Frozen EXCEPT !.begun = 4, !.sweeps = FALSE]
Promoted == [Setting({t1, t2}, {"write", "promote", "close", "sync"}, 3, 2) EXCEPT !.replica = TRUE]
Told == Setting({t1, t2}, {"write", "follow", "close", "delete"}, 3, 2)
MCSettings == {Opening, Crowd, Stopping, Frozen, Thawed, Promoted, Told,
               [Told EXCEPT !.replica = TRUE]}

\* A schema applied to a tenant that is frozen.
SchemaSettings == {[Setting({t1, t2}, {"freeze", "schema"}, 2, 1) EXCEPT !.sweeps = FALSE]}

=============================================================================
