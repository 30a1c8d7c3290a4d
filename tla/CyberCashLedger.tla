-------------------------- MODULE CyberCashLedger --------------------------
(***************************************************************************)
(* CyberCash implements CashLedger: the wallets are what balanceOf returns *)
(* and the supply is what totalSupply returns, so that minting a reward,   *)
(* which moves it from a computed to a stored balance, is not visible.     *)
(***************************************************************************)
EXTENDS CyberCash

Ledger == INSTANCE CashLedger WITH
  wallet <- [a \in Accounts |-> balanceOf(cash, a)],
  supply <- totalSupply(cash),
  score  <- cash.burnScore,
  pool   <- cash.liquidityPool,
  exempt <- cash.exemptedAddresses,
  time   <- now

\* The contract's lazy accounting (rewardsPerTokenBurned, pendingMints, mints
\* inside transfers) is to users an immediate one: every transaction changes
\* what balanceOf and totalSupply report exactly as the ledger says.
ImplementsLedger == Ledger!Spec
=============================================================================
