----------------------------- MODULE MCRouters -----------------------------
(***************************************************************************)
(* Leasing where one router process follows another, every tenant placed   *)
(* on a node watched from the start.                                       *)
(***************************************************************************)
EXTENDS Leasing

RoutersInit == Init /\ \A t \in Tenants : place[t] \in {{n} : n \in Nodes}

RoutersSpec == RoutersInit /\ [][Next]_vars
=============================================================================
