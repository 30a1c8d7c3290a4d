---------------------------- MODULE MCCyberCash ----------------------------
(***************************************************************************)
(* Participants for the instances of CyberCash and of its refinement that  *)
(* TLC checks; the .cfg files give all of them and all bounds.             *)
(***************************************************************************)
EXTENDS CyberCashLedger

CONSTANTS Ann, Bob, Pool, Migrator
=============================================================================
