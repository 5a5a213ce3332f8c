-------------------------- MODULE MCSubscriptions --------------------------
(* Subscriptions for TLC: one value in the shape and one out of it, a ring   *)
(* shorter than the writes.  Four subscriptions: over broken streams and     *)
(* restarts, with rules over restarts that lose writes, with rules at a      *)
(* replica that adopts an image, and of rows that expire.                    *)
EXTENDS Subscriptions

MCVals == {"in", "out"}
MCShape == {"in"}
MCSettings ==
    {[expiring |-> FALSE, scoped |-> FALSE, ids |-> {1, 2}, seqs |-> 3, times |-> 0,
      breaks |-> 1, restarts |-> 1, losses |-> 0, adopts |-> 0],
     [expiring |-> FALSE, scoped |-> TRUE, ids |-> {1, 2}, seqs |-> 2, times |-> 0,
      breaks |-> 0, restarts |-> 1, losses |-> 1, adopts |-> 0],
     [expiring |-> FALSE, scoped |-> TRUE, ids |-> {1, 2}, seqs |-> 2, times |-> 0,
      breaks |-> 0, restarts |-> 0, losses |-> 0, adopts |-> 1],
     [expiring |-> TRUE, scoped |-> FALSE, ids |-> {1}, seqs |-> 2, times |-> 2,
      breaks |-> 0, restarts |-> 0, losses |-> 0, adopts |-> 0]}
=============================================================================
