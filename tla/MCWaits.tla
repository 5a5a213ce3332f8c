------------------------------ MODULE MCWaits ------------------------------
(***************************************************************************)
(* Claims over two rows: c1 and c2 order by a field, n1 and n2 rank by a   *)
(* distance, each nearer to another row. Groups of one claim and of        *)
(* several, moments and waits that pass, looks that err, clients gone,     *)
(* runs refused and paused, a close that may be taken back.                *)
(***************************************************************************)
EXTENDS Waits

CONSTANTS r1, r2, r3

MCClaims == {"c1", "c2", "n1", "n2"}
MCPasses == [c \in MCClaims |-> {1, 2}]
MCRanks == [c1 |-> <<{}, {}>>, c2 |-> <<{}, {}>>, n1 |-> <<{2}, {1}>>, n2 |-> <<{1}, {2}>>]

One == r1 :> "c1" @@ r2 :> "c1"
Two == r1 :> "c1" @@ r2 :> "c2"
TwoOfOne == r1 :> "c1" @@ r2 :> "c1" @@ r3 :> "c2"
Ranking == r1 :> "n1" @@ r2 :> "n2"

Bounds(claim, impatient, writes, clock) ==
    [claim |-> claim, impatient |-> impatient, rows |-> {1}, writes |-> writes,
     time |-> clock, fails |-> 0, refusals |-> 0, pauses |-> 0, closes |-> 0]

MCSettings ==
    {[Bounds(TwoOfOne, {}, 1, 0) EXCEPT !.refusals = 1],
     [Bounds(Ranking, {}, 2, 0) EXCEPT !.rows = {1, 2}],
     [Bounds(One, {r1}, 1, 1) EXCEPT !.pauses = 1],
     [Bounds(Two, {r1}, 1, 0) EXCEPT !.fails = 1],
     [Bounds(Two, {}, 1, 1) EXCEPT !.closes = 1]}
==============================================================================
