---------------------------- MODULE MCCashPermit ----------------------------
(***************************************************************************)
(* Participants for the instance of CashPermit.                            *)
(***************************************************************************)
EXTENDS CashPermit

CONSTANTS Ann, Bob, Pool
=============================================================================
