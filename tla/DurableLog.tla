----------------------------- MODULE DurableLog -----------------------------
(***************************************************************************)
(* What a database's file promises its writers, whatever crashes: a write  *)
(* reported durable is there at every later open, the writes there are the *)
(* ones taken, in their order, and no other.                               *)
(***************************************************************************)
EXTENDS Integers, Sequences

CONSTANT Writes      \* what may be written

VARIABLES
    taken,     \* the writes the database has taken, in order
    durable    \* the first of them, as far as a writer was told durable

vars == <<taken, durable>>

Init == taken = <<>> /\ durable = <<>>

\* A write is taken, and durable only once it is reported.
Take == /\ \E w \in Writes : taken' = Append(taken, w)
        /\ UNCHANGED durable

\* Writes are reported durable, every one before them with them.
Report == /\ \E n \in Len(durable) .. Len(taken) : durable' = SubSeq(taken, 1, n)
          /\ UNCHANGED taken

\* A crash loses the end of what was taken, and nothing that was reported.
Lose == /\ \E n \in Len(durable) .. Len(taken) : taken' = SubSeq(taken, 1, n)
        /\ UNCHANGED durable

\* A copy of the file as it once was is put in its place.
Replace == /\ \E n \in 0 .. Len(taken) : taken' = SubSeq(taken, 1, n)
           /\ durable' = taken'

Next == Take \/ Report \/ Lose \/ Replace

Spec == Init /\ [][Next]_vars
=============================================================================
