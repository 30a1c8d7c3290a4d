----------------------------- MODULE CyberCash -----------------------------
(***************************************************************************)
(* The CyberCash token: an ERC20 whose transfers burn from the sender and  *)
(* from the liquidity pool, and whose fixed inflation accrues to users in  *)
(* proportion to what they have burned.                                    *)
(*                                                                         *)
(* The contract is a record, cash, with one field per storage variable; a  *)
(* private function is an operator from storage to storage (see ERC20 for  *)
(* the pairs CanF / F), and an external function is an action: the EVM     *)
(* runs each transaction to its end or rolls it back.  What interleaves    *)
(* are the transactions of different accounts and the passage of time.     *)
(***************************************************************************)
EXTENDS ERC20, FiniteSets, Functions

CONSTANTS
  INITIAL_SUPPLY, RESERVE_BUFFER, REWARD_PRECISION, MINT_PER_SECOND,
  BURN_ON_TRANSFER, BURN_FROM_LP, BURN_PRECISION,
  Treasury,   \* the _owner given to the constructor
  Routers,    \* the DEX routers the constructor exempts from burns
  Pools, Migrators,  \* the addresses the owner may pass to initialize
  Spenders,   \* the addresses users approve
  Amounts,    \* token and burn score amounts callers pass
  Approvals,  \* allowance amounts callers pass
  MaxTime     \* bound: the last block timestamp considered

ASSUME AddressAssumption ==
  /\ IsFiniteSet(Accounts)
  /\ ZeroAddress \notin Accounts
  /\ Treasury \in Accounts
  /\ Routers \subseteq Accounts
  /\ Pools \subseteq Addresses
  /\ Migrators \subseteq Addresses
  /\ Spenders \subseteq Addresses

ASSUME ParameterAssumption ==
  /\ INITIAL_SUPPLY \in Nat
  /\ RESERVE_BUFFER \in Nat
  /\ REWARD_PRECISION \in Nat \ {0}
  /\ MINT_PER_SECOND \in Nat
  /\ BURN_PRECISION \in Nat \ {0}
  /\ BURN_ON_TRANSFER \in 0 .. BURN_PRECISION
  /\ BURN_FROM_LP \in Nat
  /\ MaxTime \in Nat
  /\ MaxUint \in Nat
  /\ Amounts \subseteq Uint
  /\ Approvals \subseteq Uint

\* Everything that can ever exist fits a uint256, scaled as the code scales
\* it.  With the deployed constants this holds for any 64-bit timestamp.
MaxSupply == INITIAL_SUPPLY + MINT_PER_SECOND * MaxTime

ASSUME HeadroomAssumption ==
  /\ MaxTime \in Uint
  /\ MaxSupply + 1 \in Uint
  /\ MaxSupply * BURN_ON_TRANSFER \in Uint
  /\ MaxSupply * BURN_FROM_LP \in Uint
  /\ MINT_PER_SECOND * MaxTime * REWARD_PRECISION \in Uint

VARIABLES
  cash,  \* storage of the CyberCash contract
  now    \* block.timestamp, counted from the deployment

vars == <<cash, now>>

Storage ==
  [ balances    : [Accounts -> Uint],
    totalSupply : Uint,
    allowances  : [Accounts -> [Accounts -> Uint]],
    owner             : Addresses,
    liquidityPool     : Addresses,
    exemptedAddresses : SUBSET Accounts,
    rewardsPerTokenBurned     : Uint,
    userRewardsPerTokenBurned : [Accounts -> Uint],
    lastMintTime : Uint,
    pendingMints : Uint,
    totalBurned  : Uint,
    burnScore    : [Accounts -> Uint] ]

TypeOK == cash \in Storage /\ now \in 0 .. MaxTime
-----------------------------------------------------------------------------
(* Views. *)

totalRewards(s) ==
  IF s.owner = ZeroAddress THEN MINT_PER_SECOND * (now - s.lastMintTime) ELSE 0

\* MUTANT: the accumulator is rounded up.
simulatedRoundedUp(s) ==
  s.rewardsPerTokenBurned
    + (totalRewards(s) * REWARD_PRECISION + s.totalBurned - 1) \div s.totalBurned

simulatedRewardsPerTokenBurned(s) ==
  s.rewardsPerTokenBurned + (totalRewards(s) * REWARD_PRECISION) \div s.totalBurned

\* MUTANT: divides before it multiplies.
userRewardsTruncated(s, user) ==
  s.burnScore[user]
    * ((simulatedRewardsPerTokenBurned(s) - s.userRewardsPerTokenBurned[user])
         \div REWARD_PRECISION)

userRewards(s, user) ==
  (s.burnScore[user]
     * (simulatedRewardsPerTokenBurned(s) - s.userRewardsPerTokenBurned[user]))
    \div REWARD_PRECISION

\* The checked arithmetic of userRewards: it panics unless all of this holds.
CanUserRewards(s, user) ==
  /\ now - s.lastMintTime \in Uint
  /\ totalRewards(s) * REWARD_PRECISION \in Uint
  /\ s.totalBurned # 0
  /\ simulatedRewardsPerTokenBurned(s) \in Uint
  /\ simulatedRewardsPerTokenBurned(s) - s.userRewardsPerTokenBurned[user] \in Uint
  /\ s.burnScore[user]
       * (simulatedRewardsPerTokenBurned(s) - s.userRewardsPerTokenBurned[user]) \in Uint

balanceOf(s, account) == s.balances[account] + userRewards(s, account)

\* MUTANT: leaves out the rewards since the last mint.
totalSupplyAtLastMint(s) == s.totalSupply + s.pendingMints

totalSupply(s) == s.totalSupply + s.pendingMints + totalRewards(s)
-----------------------------------------------------------------------------
(* Private functions that change storage. *)

CanMintRewards(s, account) ==
  /\ CanUserRewards(s, account)
  /\ CanMint(s, account, userRewards(s, account))
  /\ s.pendingMints + totalRewards(s) \in Uint
  /\ (s.pendingMints + totalRewards(s)) - userRewards(s, account) \in Uint

\* MUTANT: the user's tracker is set before the global one is updated.
mintRewardsSwapped(s, account) ==
  [Mint(s, account, userRewards(s, account)) EXCEPT
     !.rewardsPerTokenBurned = simulatedRewardsPerTokenBurned(s),
     !.userRewardsPerTokenBurned[account] = s.rewardsPerTokenBurned,
     !.pendingMints = (@ + totalRewards(s)) - userRewards(s, account),
     !.lastMintTime = now]

\* MUTANT: the mint timestamp is not updated.
mintRewardsUntimed(s, account) ==
  [Mint(s, account, userRewards(s, account)) EXCEPT
     !.rewardsPerTokenBurned = simulatedRewardsPerTokenBurned(s),
     !.userRewardsPerTokenBurned[account] = simulatedRewardsPerTokenBurned(s),
     !.pendingMints = (@ + totalRewards(s)) - userRewards(s, account)]

mintRewards(s, account) ==
  [Mint(s, account, userRewards(s, account)) EXCEPT
     !.rewardsPerTokenBurned = simulatedRewardsPerTokenBurned(s),
     !.userRewardsPerTokenBurned[account] = simulatedRewardsPerTokenBurned(s),
     !.pendingMints = (@ + totalRewards(s)) - userRewards(s, account),
     !.lastMintTime = now]

burnedFromTx(amount) == (amount * BURN_ON_TRANSFER) \div BURN_PRECISION

canBurnFromLP(s) ==
  LET pooledAmount == balanceOf(s, s.liquidityPool)
  IN  IF pooledAmount > RESERVE_BUFFER THEN pooledAmount - RESERVE_BUFFER ELSE 0

\* MUTANT: the burn is not capped by what may be burned.
burnedFromLPUncapped(s, amount) ==
  IF canBurnFromLP(s) > 0 THEN (amount * BURN_FROM_LP) \div BURN_PRECISION ELSE 0

burnedFromLP(s, amount) ==
  LET wanted == (amount * BURN_FROM_LP) \div BURN_PRECISION
  IN  IF canBurnFromLP(s) > wanted THEN wanted ELSE canBurnFromLP(s)

CanBurnOnTransfer(s, sender, amount) ==
  /\ CanUserRewards(s, s.liquidityPool)
  /\ balanceOf(s, s.liquidityPool) \in Uint
  /\ amount * BURN_ON_TRANSFER \in Uint
  /\ amount * BURN_FROM_LP \in Uint
  /\ CanBurn(s, sender, burnedFromTx(amount))
  /\ CanBurn(Burn(s, sender, burnedFromTx(amount)),
             s.liquidityPool, burnedFromLP(s, amount))
  /\ s.totalBurned + burnedFromTx(amount) \in Uint
  /\ s.burnScore[sender] + burnedFromTx(amount) \in Uint

burnOnTransfer(s, sender, amount) ==
  [Burn(Burn(s, sender, burnedFromTx(amount)),
        s.liquidityPool, burnedFromLP(s, amount)) EXCEPT
     !.totalBurned = @ + burnedFromTx(amount),
     !.burnScore[sender] = @ + burnedFromTx(amount)]
-----------------------------------------------------------------------------
(* The body that transfer and transferFrom share. *)

Initialized(s) == s.liquidityPool # ZeroAddress

\* MUTANT: only the receiver is looked up.
TaxedByReceiver(s, from, to) == Initialized(s) /\ to \notin s.exemptedAddresses

Taxed(s, from, to) ==
  /\ Initialized(s)
  /\ from \notin s.exemptedAddresses
  /\ to \notin s.exemptedAddresses

\* MUTANT: the sender's rewards are left to be minted later.
SettledLater(s, from) == s

Settled(s, from) == IF Initialized(s) THEN mintRewards(s, from) ELSE s

Burnt(s, from, to, amount) ==
  IF Taxed(s, from, to) THEN burnOnTransfer(s, from, amount) ELSE s

SentAmount(s, from, to, amount) ==
  IF Taxed(s, from, to) THEN amount - burnedFromTx(amount) ELSE amount

CanSend(s, from, to, amount) ==
  /\ Initialized(s) => CanMintRewards(s, from)
  /\ Taxed(s, from, to) => CanBurnOnTransfer(Settled(s, from), from, amount)
  /\ CanMove(Burnt(Settled(s, from), from, to, amount),
             from, to, SentAmount(s, from, to, amount))

\* MUTANT: the tax is burned, and scored, before the rewards are minted.
SendBurnFirst(s, from, to, amount) ==
  Move(Settled(Burnt(s, from, to, amount), from),
       from, to, SentAmount(s, from, to, amount))

Send(s, from, to, amount) ==
  Move(Burnt(Settled(s, from), from, to, amount),
       from, to, SentAmount(s, from, to, amount))
-----------------------------------------------------------------------------
(* Deployment and the external functions. *)

Init ==
  /\ now = 0
  /\ cash = [ balances    |-> [a \in Accounts |-> IF a = Treasury THEN INITIAL_SUPPLY ELSE 0],
              totalSupply |-> INITIAL_SUPPLY,
              allowances  |-> [a \in Accounts |-> [b \in Accounts |-> 0]],
              owner             |-> Treasury,
              liquidityPool     |-> ZeroAddress,
              exemptedAddresses |-> Routers,
              rewardsPerTokenBurned     |-> 0,
              userRewardsPerTokenBurned |-> [a \in Accounts |-> 0],
              lastMintTime |-> now,
              pendingMints |-> 0,
              totalBurned  |-> 1,
              burnScore    |-> [a \in Accounts |-> 0] ]

initialize(sender, poolAddress, migratorAddress) ==
  /\ sender = cash.owner
  /\ poolAddress # ZeroAddress
  /\ migratorAddress # ZeroAddress
  /\ cash' = [cash EXCEPT !.exemptedAddresses = @ \cup {poolAddress, migratorAddress},
                          !.liquidityPool = poolAddress,
                          !.lastMintTime = now,
                          !.owner = ZeroAddress]
  /\ UNCHANGED now

transfer(from, to, amount) ==
  /\ CanSend(cash, from, to, amount)
  /\ cash' = Send(cash, from, to, amount)
  /\ UNCHANGED now

\* MUTANT: spends the allowance for what the receiver gets.
transferFromNet(spender, from, to, amount) ==
  /\ CanSpendAllowance(cash, from, spender, SentAmount(cash, from, to, amount))
  /\ LET spent == SpendAllowance(cash, from, spender, SentAmount(cash, from, to, amount))
     IN  /\ CanSend(spent, from, to, amount)
         /\ cash' = Send(spent, from, to, amount)
  /\ UNCHANGED now

transferFrom(spender, from, to, amount) ==
  /\ CanSpendAllowance(cash, from, spender, amount)
  /\ LET spent == SpendAllowance(cash, from, spender, amount)
     IN  /\ CanSend(spent, from, to, amount)
         /\ cash' = Send(spent, from, to, amount)
  /\ UNCHANGED now

\* MUTANT: both scores are read before either is written.
ScoreMovedFromCache(s, from, to, amount) ==
  LET reduced == [s EXCEPT !.burnScore[from] = @ - amount]
  IN  [reduced EXCEPT !.burnScore[to] = s.burnScore[to] + amount]

ScoreMoved(s, from, to, amount) ==
  LET reduced == [s EXCEPT !.burnScore[from] = @ - amount]
  IN  [reduced EXCEPT !.burnScore[to] = @ + amount]

\* MUTANT: exempted addresses may receive burn score.
CanGiveScore(s, from, to, amount) ==
  /\ to # ZeroAddress
  /\ amount # 0
  /\ amount <= s.burnScore[from]

CanMoveScore(s, from, to, amount) ==
  /\ to # ZeroAddress
  /\ to \notin s.exemptedAddresses
  /\ amount # 0
  /\ amount <= s.burnScore[from]

transferBurnScore(from, to, amount) ==
  /\ CanMoveScore(cash, from, to, amount)
  /\ CanMintRewards(cash, from)
  /\ CanMintRewards(mintRewards(cash, from), to)
  /\ cash' = ScoreMoved(mintRewards(mintRewards(cash, from), to), from, to, amount)
  /\ cash'.burnScore[to] \in Uint
  /\ UNCHANGED now

approve(owner, spender, amount) ==
  /\ spender # ZeroAddress
  /\ cash' = Approve(cash, owner, spender, amount)
  /\ UNCHANGED now

increaseAllowance(owner, spender, added) ==
  /\ spender # ZeroAddress
  /\ cash.allowances[owner][spender] + added \in Uint
  /\ cash' = Approve(cash, owner, spender, cash.allowances[owner][spender] + added)
  /\ UNCHANGED now

decreaseAllowance(owner, spender, subtracted) ==
  /\ spender # ZeroAddress
  /\ cash.allowances[owner][spender] >= subtracted
  /\ cash' = Approve(cash, owner, spender, cash.allowances[owner][spender] - subtracted)
  /\ UNCHANGED now

\* The sequencer includes the next transaction in a later block.
Tick ==
  /\ now' \in (now + 1) .. MaxTime
  /\ UNCHANGED cash

Next ==
  \/ \E s \in Accounts, p \in Pools, m \in Migrators : initialize(s, p, m)
  \/ \E f \in Accounts, t \in Addresses, a \in Amounts : transfer(f, t, a)
  \/ \E s, f \in Accounts, t \in Addresses, a \in Amounts : transferFrom(s, f, t, a)
  \/ \E f \in Accounts, t \in Addresses, a \in Amounts : transferBurnScore(f, t, a)
  \/ \E o \in Accounts, s \in Spenders, a \in Approvals : approve(o, s, a)
  \/ \E o \in Accounts, s \in Spenders, a \in Approvals : increaseAllowance(o, s, a)
  \/ \E o \in Accounts, s \in Spenders, a \in Approvals : decreaseAllowance(o, s, a)
  \/ Tick

Spec == Init /\ [][Next]_vars
-----------------------------------------------------------------------------
(* Properties. *)

Total(f) == SumFunctionOnSet(f, Accounts)

\* The physical balances always add up to the physical supply: what the
\* unchecked blocks of OpenZeppelin's _mint, _burn and _transfer rely on.
PhysicalSupply == Total(cash.balances) = cash.totalSupply

\* The divisor of every reward, totalBurned, is exactly the burn scores of all
\* users and the phantom token it is initialised with (line 80), however
\* scores were earned in burnOnTransfer and moved by transferBurnScore.
BurnScoreAccounted == cash.totalBurned = Total(cash.burnScore) + 1

\* Solvency of the reward pool: pendingMints covers, scaled by
\* REWARD_PRECISION and so before any rounding, what every user could claim.
\* It is what makes the subtraction at the end of mintRewards safe.
claims(s) ==
  [u \in Accounts |->
     s.burnScore[u] * (s.rewardsPerTokenBurned - s.userRewardsPerTokenBurned[u])]

RewardsBacked ==
  /\ \A u \in Accounts :
        cash.userRewardsPerTokenBurned[u] <= cash.rewardsPerTokenBurned
  /\ Total(claims(cash)) <= REWARD_PRECISION * cash.pendingMints

\* No user's visible balance is uncovered: the reported total supply is at
\* least the sum of what balanceOf reports, as the test-suite asserts after
\* single transfers.
SupplyCoversBalances ==
  Total([u \in Accounts |-> balanceOf(cash, u)]) <= totalSupply(cash)

\* Once initialised, mintRewards(u) cannot revert for any user at any time: no
\* underflow of pendingMints, no overflow of a reward.  If it could, u could
\* never transfer again, as every transfer of u begins with it.
SettlementNeverReverts ==
  Initialized(cash) => \A u \in Accounts : CanMintRewards(cash, u)

\* Everything balanceOf shows can be sent, to anybody, in one transfer: the
\* rewards are minted before the tax is burned and the rest is moved.
BalanceIsSpendable ==
  \A from, to \in Accounts :
    \A amount \in 0 .. balanceOf(cash, from) : CanSend(cash, from, to, amount)

\* Addresses exempted from burns (routers, pool, migrator) hold no burn score,
\* neither earned nor received, so no inflation is lost to them.
ExemptHaveNoScore ==
  \A x \in cash.exemptedAddresses : cash.burnScore[x] = 0

\* What was ever minted: all tokens in existence or pending, and all tokens
\* users burned, never exceed the initial supply plus MINT_PER_SECOND for each
\* second since the deployment.
InflationCap ==
  totalSupply(cash) + (cash.totalBurned - 1)
    <= INITIAL_SUPPLY + MINT_PER_SECOND * now

\* A transaction that burns leaves the pool at least RESERVE_BUFFER, or all it
\* had if that is less, so that an AMM never sees an empty reserve.
PoolReserveKept ==
  [][cash'.totalBurned > cash.totalBurned =>
       \/ cash'.balances[cash.liquidityPool] >= RESERVE_BUFFER
       \/ cash'.balances[cash.liquidityPool] >= cash.balances[cash.liquidityPool]]_vars

\* A transaction that uses an allowance up costs the owner no more than what
\* it uses: transferFrom spends the allowance for the whole amount and takes
\* the tax out of it, not on top of it.
AllowanceBoundsLoss ==
  [][\A owner, spender \in Accounts :
       LET used == cash.allowances[owner][spender] - cash'.allowances[owner][spender]
       IN  used > 0 => balanceOf(cash, owner) - balanceOf(cash', owner) <= used]_vars

\* While dt seconds pass a user's balance grows by burnScore / totalBurned of
\* the inflation of those seconds.  It is off by less than one token for the
\* rounding of the reward and burnScore / REWARD_PRECISION for the rounding of
\* the accumulator, whatever happened since the user's last settlement.
Grown(u) == balanceOf(cash, u)' - balanceOf(cash, u)

Inflation == IF Initialized(cash) THEN MINT_PER_SECOND * (now' - now) ELSE 0

ProportionalShare ==
  [][now' > now =>
       \A u \in Accounts :
         LET error == Grown(u) * cash.totalBurned * REWARD_PRECISION
                        - cash.burnScore[u] * Inflation * REWARD_PRECISION
             bound == cash.totalBurned * (REWARD_PRECISION + cash.burnScore[u])
         IN  -bound < error /\ error < bound]_vars
-----------------------------------------------------------------------------
(* What the repository's README says and the code does not do. *)

\* "The newly minted tokens from inflation accrue to CASH users"
\* (README.md:31): when some user has burned, all of the supply is in the
\* users' balances but for a token of rounding each.
InflationReachesUsers ==
  cash.totalBurned > 1 =>
    totalSupply(cash) - Total([u \in Accounts |-> balanceOf(cash, u)])
      <= Cardinality(Accounts)
=============================================================================
