------------------------------ MODULE MCLooks ------------------------------
(* Looks for TLC: two rows, a look among one or both, a ring of two marks    *)
(* that three changes overflow, and a clock of three readings.  Each         *)
(* comparison on its own, with compacts or with a clock set back.            *)
EXTENDS Looks

MCIds == {1, 2}
MCSettings ==
    {[op |-> "le", among |-> 2, seqs |-> 3, compacts |-> 0, back |-> 0],
     [op |-> "ge", among |-> 1, seqs |-> 2, compacts |-> 0, back |-> 1],
     [op |-> "lt", among |-> 1, seqs |-> 3, compacts |-> 0, back |-> 0],
     [op |-> "gt", among |-> 2, seqs |-> 2, compacts |-> 1, back |-> 1]}
=============================================================================
