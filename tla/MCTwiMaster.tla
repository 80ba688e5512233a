---------------------------- MODULE MCTwiMaster ----------------------------
(* Transfers of up to three bytes; a chip that refuses or holds the bus. *)
EXTENDS TwiMaster

MCFaults == {"nack", "stick"}
===========================================================================
