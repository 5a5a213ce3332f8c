------------------------------- MODULE MCFeed -------------------------------
(* Feed for TLC: two writers and a stream under `--sync always`, a writer     *)
(* with a replica's stream and the node's, the syncer with a database that    *)
(* may close, a ring that drops its oldest, and a replica that takes an image.*)
EXTENDS Feed

CONSTANTS q1, q2, k1, k2

Setting(always, requests, streams, seqs, opens) ==
    [always |-> always, closes |-> FALSE, requests |-> requests, streams |-> streams,
     seqs |-> seqs, starts |-> 0, granted |-> opens]

MCSettings ==
    {Setting(TRUE, {q1, q2}, {k1}, 3, 2),
     Setting(TRUE, {q1}, {k1, k2}, 2, 2),
     [Setting(FALSE, {}, {k1}, 4, 2) EXCEPT !.closes = TRUE],
     [Setting(FALSE, {}, {k1}, 3, 1) EXCEPT !.starts = 1],
     [Setting(FALSE, {}, {}, 7, 0) EXCEPT !.starts = 1]}
=============================================================================
