----------------------------- MODULE MCLeasing -----------------------------
(***************************************************************************)
(* Leasing under one router process: late grants, failovers, restarts.     *)
(***************************************************************************)
EXTENDS LeasingInv
=============================================================================
