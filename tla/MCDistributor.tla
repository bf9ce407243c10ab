---------------------------- MODULE MCDistributor ----------------------------
(***************************************************************************)
(* Model-checking instance of Distributor.                                 *)
(***************************************************************************)
EXTENDS Distributor, TLC

MCActor == 0..NumReceivers
=============================================================================
