---------------------------- MODULE MCRedlockInv ----------------------------
(* The instances of MCRedlock whose ttls satisfy LeaseAssumption. *)
EXTENDS MCRedlock, RedlockInv
=============================================================================
