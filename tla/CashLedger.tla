---------------------------- MODULE CashLedger ----------------------------
(***************************************************************************)
(* What CyberCash promises its users, without saying how.  Every account   *)
(* has a wallet, the balance it sees, and a burn score.  Time pays income  *)
(* into the wallets of those who have a score.  A transfer takes the       *)
(* amount from the sender, burns the tax out of it and delivers the rest,  *)
(* and nobody else's wallet changes but the pool's, by its burn.  Nothing  *)
(* here is claimed, settled, pending or minted.                            *)
(***************************************************************************)
EXTENDS Integers, FiniteSets, Functions

CONSTANTS
  Accounts, ZeroAddress, Treasury, Routers,
  INITIAL_SUPPLY, RESERVE_BUFFER, MINT_PER_SECOND,
  BURN_ON_TRANSFER, BURN_FROM_LP, BURN_PRECISION

VARIABLES
  wallet,  \* what balanceOf returns for each account
  supply,  \* what totalSupply returns
  score,   \* the burn score of each account
  pool,    \* the liquidity pool, ZeroAddress until the token is live
  exempt,  \* accounts whose transfers are not taxed
  time     \* seconds since the deployment

ledger == <<wallet, supply, score, pool, exempt, time>>

SumOf(f) == SumFunctionOnSet(f, Accounts)

Live == pool # ZeroAddress

Tax(amount) == (amount * BURN_ON_TRANSFER) \div BURN_PRECISION

\* The pool's burn: its share of the amount, short of eating into the buffer.
PoolBurn(amount) ==
  LET share == (amount * BURN_FROM_LP) \div BURN_PRECISION
      spare == wallet[pool] - RESERVE_BUFFER
  IN  IF spare > share THEN share ELSE IF spare > 0 THEN spare ELSE 0

\* The sender is debited before the receiver is credited, so that a transfer
\* to oneself costs the tax and nothing more.
Delivered(from, to, paid, received) ==
  LET debited == [wallet EXCEPT ![from] = @ - paid]
  IN  [debited EXCEPT ![to] = @ + received]
-----------------------------------------------------------------------------
Init ==
  /\ wallet = [a \in Accounts |-> IF a = Treasury THEN INITIAL_SUPPLY ELSE 0]
  /\ supply = INITIAL_SUPPLY
  /\ score = [a \in Accounts |-> 0]
  /\ pool = ZeroAddress
  /\ exempt = Routers
  /\ time = 0

GoLive(poolAddress, migratorAddress) ==
  /\ ~ Live
  /\ pool' = poolAddress
  /\ exempt' = exempt \cup {poolAddress, migratorAddress}
  /\ UNCHANGED <<wallet, supply, score, time>>

FreeTransfer(from, to, amount) ==
  /\ Live => {from, to} \cap exempt # {}
  /\ amount <= wallet[from]
  /\ wallet' = Delivered(from, to, amount, amount)
  /\ UNCHANGED <<supply, score, pool, exempt, time>>

TaxedTransfer(from, to, amount) ==
  /\ Live /\ {from, to} \cap exempt = {}
  /\ amount <= wallet[from]
  /\ wallet' = [Delivered(from, to, amount, amount - Tax(amount)) EXCEPT
                  ![pool] = @ - PoolBurn(amount)]
  /\ supply' = supply - Tax(amount) - PoolBurn(amount)
  /\ score' = [score EXCEPT ![from] = @ + Tax(amount)]
  /\ UNCHANGED <<pool, exempt, time>>

\* Giving burn score away moves no token: past income stays where it was
\* earned and only future income follows the score.
MoveScore(from, to, amount) ==
  /\ to \notin exempt
  /\ amount <= score[from]
  /\ LET reduced == [score EXCEPT ![from] = @ - amount]
     IN  score' = [reduced EXCEPT ![to] = @ + amount]
  /\ UNCHANGED <<wallet, supply, pool, exempt, time>>

\* Time passes.  The supply grows by exactly the scheduled inflation, wallets
\* only grow, and what they hold together stays within the supply.
Accrue ==
  /\ time' > time
  /\ supply' = supply + (IF Live THEN MINT_PER_SECOND * (time' - time) ELSE 0)
  /\ \A a \in Accounts :
        /\ wallet'[a] >= wallet[a]
        /\ score[a] = 0 => wallet'[a] = wallet[a]
  /\ SumOf(wallet') <= supply'
  /\ UNCHANGED <<score, pool, exempt>>

Next ==
  \/ \E p, m \in Accounts : GoLive(p, m)
  \/ \E from, to \in Accounts : \E amount \in 0 .. wallet[from] :
        \/ FreeTransfer(from, to, amount)
        \/ TaxedTransfer(from, to, amount)
  \/ \E from, to \in Accounts : \E amount \in 0 .. score[from] :
        MoveScore(from, to, amount)
  \/ Accrue

Spec == Init /\ [][Next]_ledger
=============================================================================
