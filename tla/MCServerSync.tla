---------------------------- MODULE MCServerSync ----------------------------
(* The server's syncs on small instances. *)
EXTENDS ServerSync

MCStarted == {[policy |-> "interval", checkpoints |-> FALSE],
              [policy |-> "always", checkpoints |-> TRUE],
              [policy |-> "off", checkpoints |-> FALSE]}
=============================================================================
