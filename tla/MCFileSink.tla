------------------------------ MODULE MCFileSink ------------------------------
(* A file with failures, a rewrite and two durabilities at once; one with more *)
(* writes, whose log begins more than one generation; and one rewritten twice, *)
(* the second time before the first rename is on the disk.                     *)
EXTENDS FileSinkInv

MCBudgets == {[writes |-> 3, crash |-> 2, fail |-> 1, swap |-> 1, waiting |-> 2],
              [writes |-> 5, crash |-> 2, fail |-> 0, swap |-> 0, waiting |-> 1],
              [writes |-> 2, crash |-> 2, fail |-> 1, swap |-> 2, waiting |-> 1]}
=============================================================================
