---------------------------- MODULE MCCashSystem ----------------------------
(***************************************************************************)
(* Participants for the instances of CashSystem: a treasury that is also a *)
(* user, a user or pool, a standard token Psm and a token Hook that calls  *)
(* its sender back.                                                        *)
(***************************************************************************)
EXTENDS CashSystem

CONSTANTS Ann, Bob, Pool, Mig, Cash, Other, Psm, Hook
=============================================================================
