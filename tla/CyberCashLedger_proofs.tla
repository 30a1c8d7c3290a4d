----------------------- MODULE CyberCashLedger_proofs -----------------------
(***************************************************************************)
(* Every transaction changes what balanceOf and totalSupply report exactly *)
(* as CashLedger says, what this entails for the pool and for owners who   *)
(* approve, and how exact the shares are by which balances grow.           *)
(*                                                                         *)
(* The argument follows the three stages of a transfer.  A settlement is   *)
(* invisible: it turns a computed reward into a stored balance.  After it  *)
(* nothing accrues within the transaction, so the burns change a visible   *)
(* balance by what they change the stored one, although they change the    *)
(* divisor and a burn score; and so does the move.                         *)
(***************************************************************************)
EXTENDS CyberCashLedger, CyberCash_proofs

-----------------------------------------------------------------------------
(* Rewards within one transaction. *)

\* A reward depends on the variables of the accounting only.
LEMMA SameReward ==
  ASSUME NEW s, NEW t, NEW u,
         t.owner = s.owner, t.lastMintTime = s.lastMintTime,
         t.rewardsPerTokenBurned = s.rewardsPerTokenBurned,
         t.totalBurned = s.totalBurned,
         t.burnScore[u] = s.burnScore[u],
         t.userRewardsPerTokenBurned[u] = s.userRewardsPerTokenBurned[u]
  PROVE  /\ totalRewards(t) = totalRewards(s)
         /\ userRewards(t, u) = userRewards(s, u)
BY DEF userRewards, simulatedRewardsPerTokenBurned, totalRewards

\* After a settlement no inflation is outstanding.
LEMMA NothingNew ==
  ASSUME NEW s, Good(s), now \in 0 .. MaxTime, s.lastMintTime = now
  PROVE  /\ totalRewards(s) = 0
         /\ simulatedRewardsPerTokenBurned(s) = s.rewardsPerTokenBurned
<1>1. totalRewards(s) = 0
  <2>1. now - s.lastMintTime = 0
    BY ParameterAssumption
  <2> QED BY <2>1, ParameterAssumption DEF totalRewards
<1>2. now <= now
  BY ParameterAssumption
<1>3. PICK d \in Nat : /\ simulatedRewardsPerTokenBurned(s) = s.rewardsPerTokenBurned + d
                       /\ d <= totalRewards(s) * REWARD_PRECISION
  BY <1>2, AddedBound
<1>4. totalRewards(s) * REWARD_PRECISION = 0
  BY <1>1, ParameterAssumption
<1>5. s.rewardsPerTokenBurned \in Nat
  BY DEF Good, Storage, Uint
<1> QED BY <1>1, <1>3, <1>4, <1>5

\* Hence a reward is then what the stored accumulator says, whatever totalBurned is.
LEMMA StoredReward ==
  ASSUME NEW s, Good(s), now \in 0 .. MaxTime, s.lastMintTime = now, NEW u \in Accounts
  PROVE  userRewards(s, u)
           = (s.burnScore[u] * (s.rewardsPerTokenBurned - s.userRewardsPerTokenBurned[u]))
               \div REWARD_PRECISION
BY NothingNew DEF userRewards

\* Who has just settled has nothing to claim, whatever the score.
LEMMA NoRewardLeft ==
  ASSUME NEW s, Good(s), now \in 0 .. MaxTime, s.lastMintTime = now, NEW u \in Accounts,
         s.userRewardsPerTokenBurned[u] = s.rewardsPerTokenBurned
  PROVE  userRewards(s, u) = 0 /\ balanceOf(s, u) = s.balances[u]
<1>1. /\ s.burnScore[u] \in Int /\ s.rewardsPerTokenBurned \in Int /\ s.balances[u] \in Int
  BY DEF Good, Storage, Uint
<1>2. s.burnScore[u] * (s.rewardsPerTokenBurned - s.userRewardsPerTokenBurned[u]) = 0
  BY <1>1
<1>3. 0 \div REWARD_PRECISION = 0
  BY ParameterAssumption
<1>4. userRewards(s, u) = 0
  BY <1>2, <1>3, StoredReward
<1> QED BY <1>1, <1>4 DEF balanceOf
-----------------------------------------------------------------------------
(* What a settlement shows. *)

\* Nothing: every visible balance and the visible supply are what they were.
LEMMA SettlementInvisible ==
  ASSUME NEW s, Good(s), now \in 0 .. MaxTime, s.lastMintTime <= now, NEW u \in Accounts
  PROVE  /\ \A v \in Accounts : balanceOf(mintRewards(s, u), v) = balanceOf(s, v)
         /\ totalSupply(mintRewards(s, u)) = totalSupply(s)
<1> DEFINE t == mintRewards(s, u)
           r == userRewards(s, u)
           sim == simulatedRewardsPerTokenBurned(s)
<1>1. /\ Good(t) /\ t.lastMintTime = now
      /\ t.userRewardsPerTokenBurned[u] = t.rewardsPerTokenBurned
      /\ t.balances[u] = balanceOf(s, u)
  BY SettlementGood
<1>2. s \in Storage /\ t \in Storage
  BY <1>1 DEF Good
<1>3. /\ t.balances = [s.balances EXCEPT ![u] = Unchecked(s.balances[u] + r)]
      /\ t.totalSupply = s.totalSupply + r
      /\ t.rewardsPerTokenBurned = sim
      /\ t.userRewardsPerTokenBurned = [s.userRewardsPerTokenBurned EXCEPT ![u] = sim]
      /\ t.pendingMints = (s.pendingMints + totalRewards(s)) - r
      /\ t.burnScore = s.burnScore
  BY <1>2, MintRewardsFields
<1> HIDE DEF t
<1>4. balanceOf(t, u) = balanceOf(s, u)
  BY <1>1, NoRewardLeft
<1>5. ASSUME NEW v \in Accounts, v # u PROVE balanceOf(t, v) = balanceOf(s, v)
  <2>1. /\ t.balances[v] = s.balances[v]
        /\ t.userRewardsPerTokenBurned[v] = s.userRewardsPerTokenBurned[v]
    BY <1>2, <1>3, <1>5 DEF Storage
  <2>2. userRewards(t, v) = userRewards(s, v)
    <3>1. userRewards(t, v) = (s.burnScore[v] * (sim - s.userRewardsPerTokenBurned[v]))
                                 \div REWARD_PRECISION
      <4>1. userRewards(t, v)
              = (t.burnScore[v] * (t.rewardsPerTokenBurned - t.userRewardsPerTokenBurned[v]))
                  \div REWARD_PRECISION
        BY <1>1, StoredReward
      <4> HIDE DEF sim
      <4> QED BY <1>3, <2>1, <4>1
    <3> QED BY <3>1 DEF userRewards
  <2> QED BY <2>1, <2>2 DEF balanceOf
<1>6. totalSupply(t) = totalSupply(s)
  <2>1. totalRewards(t) = 0
    BY <1>1, NothingNew
  <2>2. totalRewards(s) \in Int /\ r \in Int
    BY AddedBound, RewardBound
  <2>3. s.totalSupply \in Int /\ s.pendingMints \in Int
    BY <1>2 DEF Storage, Uint
  <2> HIDE DEF r
  <2> QED BY <1>3, <2>1, <2>2, <2>3 DEF totalSupply
<1> QED BY <1>4, <1>5, <1>6 DEF t

\* Nor does the settlement that begins a transfer, and the sender's balance is
\* then all stored.
LEMMA SettledInvisible ==
  ASSUME NEW s, Good(s), now \in 0 .. MaxTime, s.lastMintTime <= now, NEW u \in Accounts
  PROVE  /\ \A v \in Accounts : balanceOf(Settled(s, u), v) = balanceOf(s, v)
         /\ totalSupply(Settled(s, u)) = totalSupply(s)
         /\ Settled(s, u).balances[u] = balanceOf(s, u)
<1>1. CASE Initialized(s)
  BY <1>1, SettlementInvisible, SettlementGood DEF Settled
<1>2. CASE ~ Initialized(s)
  <2>1. s.burnScore[u] = 0
    BY <1>2 DEF Good, Gated
  <2> QED BY <1>2, <2>1, NoScoreNoReward DEF Settled
<1> QED BY <1>1, <1>2
-----------------------------------------------------------------------------
(* What the burns show. *)

\* The stored effect of the two burns, when sender and pool are not the same.
LEMMA BurntFields ==
  ASSUME NEW s \in Storage, NEW u \in Accounts, NEW x \in Nat,
         s.liquidityPool \in Accounts, s.liquidityPool # u, CanBurnOnTransfer(s, u, x)
  PROVE  LET y == burnedFromTx(x)
             z == burnedFromLP(s, x)
             t == burnOnTransfer(s, u, x)
         IN  /\ \A v \in Accounts :
                  t.balances[v] = IF v = u THEN s.balances[v] - y
                                  ELSE IF v = s.liquidityPool THEN s.balances[v] - z
                                  ELSE s.balances[v]
             /\ t.totalSupply = Unchecked(Unchecked(s.totalSupply - y) - z)
             /\ t.allowances = s.allowances
             /\ t.owner = s.owner /\ t.liquidityPool = s.liquidityPool
             /\ t.exemptedAddresses = s.exemptedAddresses
             /\ t.rewardsPerTokenBurned = s.rewardsPerTokenBurned
             /\ t.userRewardsPerTokenBurned = s.userRewardsPerTokenBurned
             /\ t.lastMintTime = s.lastMintTime /\ t.pendingMints = s.pendingMints
             /\ t.totalBurned = s.totalBurned + y
             /\ t.burnScore = [s.burnScore EXCEPT ![u] = s.burnScore[u] + y]
<1> DEFINE y == burnedFromTx(x)
           z == burnedFromLP(s, x)
           l == s.liquidityPool
           a == Burn(s, u, y)
           b == Burn(a, l, z)
           t == burnOnTransfer(s, u, x)
<1>1. t = [b EXCEPT !.totalBurned = @ + y, !.burnScore[u] = @ + y]
  BY DEF burnOnTransfer
<1>2. a \in Storage /\ b \in Storage
  <2>1. y \in Nat /\ z \in Nat
    BY BurnedAmounts, BurnedFromLPType DEF CanBurnOnTransfer
  <2>2. CanBurn(s, u, y) /\ CanBurn(a, l, z)
    BY DEF CanBurnOnTransfer
  <2> HIDE DEF y, z, l, a
  <2>3. a \in Storage
    BY <2>1, <2>2, BurnType DEF a
  <2> QED BY <2>1, <2>2, <2>3, BurnType DEF l
<1> HIDE DEF y, z
<1>3. /\ a.balances = [s.balances EXCEPT ![u] = s.balances[u] - y]
      /\ a.totalSupply = Unchecked(s.totalSupply - y)
      /\ a.allowances = s.allowances
      /\ a.owner = s.owner /\ a.liquidityPool = s.liquidityPool
      /\ a.exemptedAddresses = s.exemptedAddresses
      /\ a.rewardsPerTokenBurned = s.rewardsPerTokenBurned
      /\ a.userRewardsPerTokenBurned = s.userRewardsPerTokenBurned
      /\ a.lastMintTime = s.lastMintTime /\ a.pendingMints = s.pendingMints
      /\ a.totalBurned = s.totalBurned /\ a.burnScore = s.burnScore
  BY DEF Burn, Storage
<1> HIDE DEF a
<1>4. /\ b.balances = [a.balances EXCEPT ![l] = a.balances[l] - z]
      /\ b.totalSupply = Unchecked(a.totalSupply - z)
      /\ b.allowances = a.allowances
      /\ b.owner = a.owner /\ b.liquidityPool = a.liquidityPool
      /\ b.exemptedAddresses = a.exemptedAddresses
      /\ b.rewardsPerTokenBurned = a.rewardsPerTokenBurned
      /\ b.userRewardsPerTokenBurned = a.userRewardsPerTokenBurned
      /\ b.lastMintTime = a.lastMintTime /\ b.pendingMints = a.pendingMints
      /\ b.totalBurned = a.totalBurned /\ b.burnScore = a.burnScore
  BY <1>2 DEF Burn, Storage
<1> HIDE DEF b
<1>5. /\ t.balances = b.balances /\ t.totalSupply = b.totalSupply
      /\ t.allowances = b.allowances
      /\ t.owner = b.owner /\ t.liquidityPool = b.liquidityPool
      /\ t.exemptedAddresses = b.exemptedAddresses
      /\ t.rewardsPerTokenBurned = b.rewardsPerTokenBurned
      /\ t.userRewardsPerTokenBurned = b.userRewardsPerTokenBurned
      /\ t.lastMintTime = b.lastMintTime /\ t.pendingMints = b.pendingMints
      /\ t.totalBurned = b.totalBurned + y
      /\ t.burnScore = [b.burnScore EXCEPT ![u] = b.burnScore[u] + y]
  BY <1>1, <1>2 DEF Storage
<1> HIDE DEF t
<1>6. ASSUME NEW v \in Accounts
      PROVE  t.balances[v] = IF v = u THEN s.balances[v] - y
                             ELSE IF v = s.liquidityPool THEN s.balances[v] - z
                             ELSE s.balances[v]
  <2>1. /\ a.balances \in [Accounts -> Uint] /\ s.balances \in [Accounts -> Uint]
        /\ l \in Accounts /\ l # u /\ l = s.liquidityPool
    BY <1>2 DEF Storage
  <2> HIDE DEF l
  <2>2. t.balances[v] = IF v = l THEN a.balances[v] - z ELSE a.balances[v]
    BY <1>4, <1>5, <2>1
  <2>3. a.balances[v] = IF v = u THEN s.balances[v] - y ELSE s.balances[v]
    BY <1>3, <2>1
  <2> QED BY <2>1, <2>2, <2>3
<1>7. t.totalSupply = Unchecked(Unchecked(s.totalSupply - y) - z)
  BY <1>3, <1>4, <1>5
<1> QED BY <1>3, <1>4, <1>5, <1>6, <1>7 DEF t, y, z

\* What may be burned from the pool leaves it its buffer, or all that it has.
LEMMA PoolKeepsBuffer ==
  ASSUME NEW s, Good(s), now \in 0 .. MaxTime, s.lastMintTime <= now, NEW x \in Nat,
         Initialized(s)
  PROVE  LET l == s.liquidityPool
             z == burnedFromLP(s, x)
             share == (x * BURN_FROM_LP) \div BURN_PRECISION
             spare == balanceOf(s, l) - RESERVE_BUFFER
         IN  /\ balanceOf(s, l) = s.balances[l]
             /\ z = IF spare > share THEN share ELSE IF spare > 0 THEN spare ELSE 0
             /\ z \in 0 .. s.balances[l]
             /\ z = 0 \/ s.balances[l] - z >= RESERVE_BUFFER
<1> DEFINE l == s.liquidityPool
           z == burnedFromLP(s, x)
           share == (x * BURN_FROM_LP) \div BURN_PRECISION
           spare == balanceOf(s, l) - RESERVE_BUFFER
<1>1. l \in Accounts /\ s.balances[l] \in Nat
  BY DEF Good, Initialized, Storage, Addresses, Uint
<1>2. s.burnScore[l] = 0
  BY DEF Good, Gated
<1>3. balanceOf(s, l) = s.balances[l]
  BY <1>1, <1>2, NoScoreNoReward
<1>4. share \in Nat
  <2>1. x * BURN_FROM_LP \in Nat
    BY ParameterAssumption
  <2> QED BY <2>1, ParameterAssumption, DivBound
<1>5. canBurnFromLP(s) = IF spare > 0 THEN spare ELSE 0
  BY <1>1, <1>3, ParameterAssumption DEF canBurnFromLP
<1>6. z = IF canBurnFromLP(s) > share THEN share ELSE canBurnFromLP(s)
  BY DEF burnedFromLP
<1> HIDE DEF z, share
<1>7. /\ z = IF spare > share THEN share ELSE IF spare > 0 THEN spare ELSE 0
      /\ z \in 0 .. s.balances[l]
      /\ z = 0 \/ s.balances[l] - z >= RESERVE_BUFFER
  BY <1>1, <1>3, <1>4, <1>5, <1>6, ParameterAssumption
<1> QED BY <1>3, <1>7 DEF z, share

\* The visible effect of the two burns is the stored one.
LEMMA BurntVisible ==
  ASSUME NEW s, Good(s), now \in 0 .. MaxTime, s.lastMintTime = now,
         NEW u \in Accounts, NEW x \in Nat,
         Initialized(s), u \notin s.exemptedAddresses,
         s.userRewardsPerTokenBurned[u] = s.rewardsPerTokenBurned,
         CanBurnOnTransfer(s, u, x)
  PROVE  LET y == burnedFromTx(x)
             z == burnedFromLP(s, x)
             t == burnOnTransfer(s, u, x)
         IN  /\ \A v \in Accounts :
                  balanceOf(t, v) = IF v = u THEN balanceOf(s, v) - y
                                    ELSE IF v = s.liquidityPool THEN balanceOf(s, v) - z
                                    ELSE balanceOf(s, v)
             /\ totalSupply(t) = totalSupply(s) - y - z
<1> DEFINE y == burnedFromTx(x)
           z == burnedFromLP(s, x)
           l == s.liquidityPool
           t == burnOnTransfer(s, u, x)
<1>1. /\ s \in Storage /\ l \in Accounts /\ l # u
      /\ y \in Nat /\ z \in Nat
  <2>1. s \in Storage /\ l \in Accounts /\ l # u
    BY DEF Good, Gated, Initialized, Storage, Addresses
  <2> QED BY <2>1, BurnedAmounts, BurnedFromLPType DEF CanBurnOnTransfer
<1>2. Good(t) /\ t.lastMintTime = now
  BY BurnOnTransferGood
<1>3. /\ \A v \in Accounts :
           t.balances[v] = IF v = u THEN s.balances[v] - y
                           ELSE IF v = l THEN s.balances[v] - z
                           ELSE s.balances[v]
      /\ t.totalSupply = Unchecked(Unchecked(s.totalSupply - y) - z)
      /\ t.liquidityPool = s.liquidityPool
      /\ t.exemptedAddresses = s.exemptedAddresses
      /\ t.rewardsPerTokenBurned = s.rewardsPerTokenBurned
      /\ t.userRewardsPerTokenBurned = s.userRewardsPerTokenBurned
      /\ t.pendingMints = s.pendingMints
      /\ t.burnScore = [s.burnScore EXCEPT ![u] = s.burnScore[u] + y]
  BY <1>1, BurntFields
<1>4. t.totalSupply = (s.totalSupply - y) - z
  <2> DEFINE a == Burn(s, u, y)
  <2>1. CanBurn(s, u, y) /\ CanBurn(a, l, z)
    BY DEF CanBurnOnTransfer
  <2> HIDE DEF y, z, l, t
  <2>2. Good(a) /\ a.totalSupply = s.totalSupply - y
    BY <1>1, <2>1, BurnGood
  <2>3. a.totalSupply = Unchecked(s.totalSupply - y)
    BY <1>1 DEF Burn, Storage
  <2> HIDE DEF a
  <2>4. Burn(a, l, z).totalSupply = a.totalSupply - z
    BY <1>1, <2>1, <2>2, BurnGood
  <2>5. Burn(a, l, z).totalSupply = Unchecked(a.totalSupply - z)
    BY <2>2 DEF Burn, Good, Storage
  <2> QED BY <1>3, <2>2, <2>3, <2>4, <2>5
<1> HIDE DEF y, z, l, t
<1>5. balanceOf(t, u) = balanceOf(s, u) - y
  <2>1. t.balances[u] = s.balances[u] - y
    BY <1>3
  <2>2. balanceOf(s, u) = s.balances[u]
    BY NoRewardLeft
  <2>3. balanceOf(t, u) = t.balances[u]
    BY <1>2, <1>3, NoRewardLeft
  <2> QED BY <2>1, <2>2, <2>3
<1>6. ASSUME NEW v \in Accounts, v # u PROVE userRewards(t, v) = userRewards(s, v)
  <2>1. t.burnScore[v] = s.burnScore[v]
    BY <1>1, <1>3, <1>6 DEF Storage
  <2>2. userRewards(t, v)
          = (t.burnScore[v] * (t.rewardsPerTokenBurned - t.userRewardsPerTokenBurned[v]))
              \div REWARD_PRECISION
    BY <1>2, StoredReward
  <2>3. userRewards(s, v)
          = (s.burnScore[v] * (s.rewardsPerTokenBurned - s.userRewardsPerTokenBurned[v]))
              \div REWARD_PRECISION
    BY StoredReward
  <2> QED BY <1>3, <2>1, <2>2, <2>3
<1>7. ASSUME NEW v \in Accounts, v # u
      PROVE  balanceOf(t, v) = IF v = l THEN balanceOf(s, v) - z ELSE balanceOf(s, v)
  <2>1. t.balances[v] = IF v = l THEN s.balances[v] - z ELSE s.balances[v]
    BY <1>3, <1>7
  <2>2. now <= now
    BY ParameterAssumption
  <2>3. userRewards(s, v) \in Nat /\ s.balances[v] \in Nat
    BY <1>1, <2>2, RewardBound DEF Storage, Uint
  <2> QED BY <1>1, <1>6, <1>7, <2>1, <2>3 DEF balanceOf
<1>8. totalSupply(t) = totalSupply(s) - y - z
  <2>1. totalRewards(t) = 0 /\ totalRewards(s) = 0
    BY <1>2, NothingNew
  <2>2. s.totalSupply \in Int /\ s.pendingMints \in Int
    BY <1>1 DEF Storage, Uint
  <2> QED BY <1>1, <1>3, <1>4, <2>1, <2>2 DEF totalSupply
<1>9. \A v \in Accounts :
        balanceOf(t, v) = IF v = u THEN balanceOf(s, v) - y
                          ELSE IF v = l THEN balanceOf(s, v) - z
                          ELSE balanceOf(s, v)
  BY <1>5, <1>7
<1> QED BY <1>8, <1>9 DEF y, z, l, t
-----------------------------------------------------------------------------
(* What a move shows. *)

\* The stored effect of a move; an account that sends to itself keeps what it has.
LEMMA MovedFields ==
  ASSUME NEW s, Good(s), NEW from \in Accounts, NEW to \in Accounts, NEW x \in Nat,
         CanMove(s, from, to, x)
  PROVE  LET t == Move(s, from, to, x)
         IN  /\ \A v \in Accounts :
                  t.balances[v] = IF from = to THEN s.balances[v]
                                  ELSE IF v = from THEN s.balances[v] - x
                                  ELSE IF v = to THEN s.balances[v] + x
                                  ELSE s.balances[v]
             /\ t.totalSupply = s.totalSupply
             /\ t.allowances = s.allowances
             /\ t.owner = s.owner /\ t.liquidityPool = s.liquidityPool
             /\ t.exemptedAddresses = s.exemptedAddresses
             /\ t.rewardsPerTokenBurned = s.rewardsPerTokenBurned
             /\ t.userRewardsPerTokenBurned = s.userRewardsPerTokenBurned
             /\ t.lastMintTime = s.lastMintTime /\ t.pendingMints = s.pendingMints
             /\ t.totalBurned = s.totalBurned /\ t.burnScore = s.burnScore
<1> DEFINE t == Move(s, from, to, x)
           f == [s.balances EXCEPT ![from] = s.balances[from] - x]
<1>1. s \in Storage /\ s.balances \in [Accounts -> Nat] /\ x <= s.balances[from]
  BY DEF Good, Storage, Uint, CanMove
<1>2. /\ t.balances = [f EXCEPT ![to] = Unchecked(f[to] + x)]
      /\ t.totalSupply = s.totalSupply
      /\ t.allowances = s.allowances
      /\ t.owner = s.owner /\ t.liquidityPool = s.liquidityPool
      /\ t.exemptedAddresses = s.exemptedAddresses
      /\ t.rewardsPerTokenBurned = s.rewardsPerTokenBurned
      /\ t.userRewardsPerTokenBurned = s.userRewardsPerTokenBurned
      /\ t.lastMintTime = s.lastMintTime /\ t.pendingMints = s.pendingMints
      /\ t.totalBurned = s.totalBurned /\ t.burnScore = s.burnScore
  BY <1>1 DEF Move, Storage
<1>3. s.totalSupply \in Uint /\ Total(s.balances) = s.totalSupply
  BY DEF Good, Storage, Accounted
<1>4. f \in [Accounts -> Nat] /\ Total(f) = s.totalSupply - x
  BY <1>1, <1>3, DebitKeepsTotal
<1>5. \A v \in Accounts : f[v] = IF v = from THEN s.balances[v] - x ELSE s.balances[v]
  BY <1>1
<1> HIDE DEF t, f
<1>6. Unchecked(f[to] + x) = f[to] + x
  <2>1. Total(f) + x = s.totalSupply
    BY <1>3, <1>4 DEF Uint
  <2>2. Total(f) + x \in Uint
    BY <1>3, <2>1
  <2> QED BY <1>4, <2>2, CreditKeepsTotal
<1>7. ASSUME NEW v \in Accounts
      PROVE  t.balances[v] = IF from = to THEN s.balances[v]
                             ELSE IF v = from THEN s.balances[v] - x
                             ELSE IF v = to THEN s.balances[v] + x
                             ELSE s.balances[v]
  <2>1. t.balances[v] = IF v = to THEN f[v] + x ELSE f[v]
    BY <1>2, <1>4, <1>6
  <2>2. s.balances[v] \in Nat
    BY <1>1
  <2> QED BY <1>5, <2>1, <2>2
<1> QED BY <1>2, <1>7 DEF t

\* The visible effect of a move is the stored one.
LEMMA MovedVisible ==
  ASSUME NEW s, Good(s), now \in 0 .. MaxTime, s.lastMintTime <= now,
         NEW from \in Accounts, NEW to \in Accounts, NEW x \in Nat,
         CanMove(s, from, to, x)
  PROVE  LET t == Move(s, from, to, x)
         IN  /\ \A v \in Accounts :
                  balanceOf(t, v) = IF from = to THEN balanceOf(s, v)
                                    ELSE IF v = from THEN balanceOf(s, v) - x
                                    ELSE IF v = to THEN balanceOf(s, v) + x
                                    ELSE balanceOf(s, v)
             /\ totalSupply(t) = totalSupply(s)
<1> DEFINE t == Move(s, from, to, x)
<1>1. /\ \A v \in Accounts :
           t.balances[v] = IF from = to THEN s.balances[v]
                           ELSE IF v = from THEN s.balances[v] - x
                           ELSE IF v = to THEN s.balances[v] + x
                           ELSE s.balances[v]
      /\ t.totalSupply = s.totalSupply /\ t.pendingMints = s.pendingMints
      /\ t.owner = s.owner /\ t.lastMintTime = s.lastMintTime
      /\ t.rewardsPerTokenBurned = s.rewardsPerTokenBurned
      /\ t.userRewardsPerTokenBurned = s.userRewardsPerTokenBurned
      /\ t.totalBurned = s.totalBurned /\ t.burnScore = s.burnScore
  BY MovedFields
<1> HIDE DEF t
<1>2. ASSUME NEW v \in Accounts
      PROVE  balanceOf(t, v) = IF from = to THEN balanceOf(s, v)
                               ELSE IF v = from THEN balanceOf(s, v) - x
                               ELSE IF v = to THEN balanceOf(s, v) + x
                               ELSE balanceOf(s, v)
  <2>1. userRewards(t, v) = userRewards(s, v)
    BY <1>1, SameReward
  <2>2. userRewards(s, v) \in Nat /\ s.balances[v] \in Nat
    BY RewardBound DEF Good, Storage, Uint
  <2> QED BY <1>1, <2>1, <2>2 DEF balanceOf
<1>3. totalSupply(t) = totalSupply(s)
  <2>1. totalRewards(t) = totalRewards(s)
    BY <1>1 DEF totalRewards
  <2> QED BY <1>1, <2>1 DEF totalSupply
<1> QED BY <1>2, <1>3 DEF t
-----------------------------------------------------------------------------
(* What a whole transfer shows. *)

\* Without tax it is a settlement and a move.
LEMMA FreeSend ==
  ASSUME NEW s, Good(s), now \in 0 .. MaxTime, s.lastMintTime <= now,
         NEW from \in Accounts, NEW to \in Addresses, NEW x \in Uint,
         CanSend(s, from, to, x), ~ Taxed(s, from, to)
  PROVE  LET t == Send(s, from, to, x)
         IN  /\ to \in Accounts
             /\ balanceOf(s, from) \in Int /\ x <= balanceOf(s, from)
             /\ \A v \in Accounts :
                  balanceOf(t, v) = IF from = to THEN balanceOf(s, v)
                                    ELSE IF v = from THEN balanceOf(s, v) - x
                                    ELSE IF v = to THEN balanceOf(s, v) + x
                                    ELSE balanceOf(s, v)
             /\ totalSupply(t) = totalSupply(s)
             /\ t.allowances = s.allowances /\ t.liquidityPool = s.liquidityPool
             /\ t.exemptedAddresses = s.exemptedAddresses
             /\ t.totalBurned = s.totalBurned /\ t.burnScore = s.burnScore
<1> DEFINE p == Settled(s, from)
<1>1. s \in Storage
  BY DEF Good
<1>2. Good(p) /\ p.lastMintTime <= now
  BY SettledGood
<1>3. /\ \A v \in Accounts : balanceOf(p, v) = balanceOf(s, v)
      /\ totalSupply(p) = totalSupply(s)
      /\ p.balances[from] = balanceOf(s, from)
  BY SettledInvisible
<1>4. /\ p.allowances = s.allowances /\ p.liquidityPool = s.liquidityPool
      /\ p.exemptedAddresses = s.exemptedAddresses
      /\ p.totalBurned = s.totalBurned /\ p.burnScore = s.burnScore
  BY <1>1, SettledFields
<1>5. /\ CanMove(p, from, to, x)
      /\ Send(s, from, to, x) = Move(p, from, to, x)
  BY <1>1, TaxedSettled DEF CanSend, Send, Burnt, SentAmount
<1> HIDE DEF p
<1>6. to \in Accounts /\ x \in Nat /\ x <= p.balances[from] /\ p.balances[from] \in Int
  BY <1>2, <1>5 DEF CanMove, Addresses, Good, Storage, Uint
<1> QED BY <1>2, <1>3, <1>4, <1>5, <1>6, MovedFields, MovedVisible

\* With tax the pool is neither sender nor receiver, and the burns come between:
\* what storage s has become when it is t.
Taxing(s, t, from, to, x) ==
  LET l == s.liquidityPool
      y == burnedFromTx(x)
      share == (x * BURN_FROM_LP) \div BURN_PRECISION
      spare == balanceOf(s, l) - RESERVE_BUFFER
      z == IF spare > share THEN share ELSE IF spare > 0 THEN spare ELSE 0
  IN  /\ to \in Accounts /\ l \in Accounts /\ l # from /\ l # to
      /\ balanceOf(s, from) \in Int /\ x <= balanceOf(s, from)
      /\ \A v \in Accounts :
           balanceOf(t, v) = IF from = to /\ v = from THEN balanceOf(s, v) - y
                             ELSE IF v = from THEN balanceOf(s, v) - x
                             ELSE IF v = to THEN balanceOf(s, v) + (x - y)
                             ELSE IF v = l THEN balanceOf(s, v) - z
                             ELSE balanceOf(s, v)
      /\ totalSupply(t) = totalSupply(s) - y - z
      /\ t.allowances = s.allowances /\ t.liquidityPool = s.liquidityPool
      /\ t.exemptedAddresses = s.exemptedAddresses
      /\ t.burnScore = [s.burnScore EXCEPT ![from] = s.burnScore[from] + y]
      /\ t.balances[l] >= RESERVE_BUFFER \/ t.balances[l] >= s.balances[l]

\* A taxed transfer does that.
LEMMA TaxedSend ==
  ASSUME NEW s, Good(s), now \in 0 .. MaxTime, s.lastMintTime <= now,
         NEW from \in Accounts, NEW to \in Addresses, NEW x \in Uint,
         CanSend(s, from, to, x), Taxed(s, from, to)
  PROVE  Taxing(s, Send(s, from, to, x), from, to, x)
<1> DEFINE p == Settled(s, from)
           q == burnOnTransfer(p, from, x)
           t == Send(s, from, to, x)
           l == s.liquidityPool
           y == burnedFromTx(x)
           z == burnedFromLP(p, x)
           share == (x * BURN_FROM_LP) \div BURN_PRECISION
           spare == balanceOf(s, l) - RESERVE_BUFFER
<1>1. /\ s \in Storage /\ x \in Nat /\ Initialized(s) /\ l \in Accounts
      /\ l \in s.exemptedAddresses /\ l # from /\ l # to
      /\ from \notin s.exemptedAddresses
  BY DEF Good, Gated, Taxed, Initialized, Storage, Addresses, Uint
<1>2. /\ Good(p) /\ p.lastMintTime = now /\ now <= now
      /\ p.userRewardsPerTokenBurned[from] = p.rewardsPerTokenBurned
  BY <1>1, SettledGood, ParameterAssumption
<1>3. /\ \A v \in Accounts : balanceOf(p, v) = balanceOf(s, v)
      /\ totalSupply(p) = totalSupply(s)
      /\ p.balances[from] = balanceOf(s, from)
  BY SettledInvisible
<1>4. /\ p.allowances = s.allowances /\ p.liquidityPool = s.liquidityPool
      /\ p.exemptedAddresses = s.exemptedAddresses
      /\ p.totalBurned = s.totalBurned /\ p.burnScore = s.burnScore
  BY <1>1, SettledFields
<1>5. /\ CanBurnOnTransfer(p, from, x)
      /\ CanMove(q, from, to, x - y)
      /\ t = Move(q, from, to, x - y)
  BY <1>1, TaxedSettled DEF CanSend, Send, Burnt, SentAmount
<1>6. y \in Nat /\ y <= x /\ to \in Accounts /\ x - y \in Nat
  BY <1>1, <1>5, BurnedAmounts DEF CanMove, Addresses
<1> HIDE DEF p, t, y
<1>7. Initialized(p) /\ from \notin p.exemptedAddresses /\ p \in Storage
  BY <1>1, <1>2, <1>4 DEF Initialized, Good
<1>8. /\ balanceOf(p, l) = p.balances[l]
      /\ z = IF spare > share THEN share ELSE IF spare > 0 THEN spare ELSE 0
      /\ z \in 0 .. p.balances[l]
      /\ z = 0 \/ p.balances[l] - z >= RESERVE_BUFFER
  BY <1>1, <1>2, <1>3, <1>4, <1>7, PoolKeepsBuffer
<1>9. Good(q) /\ q.lastMintTime <= now
  BY <1>1, <1>2, <1>7, <1>5, BurnOnTransferGood
<1>10. /\ \A v \in Accounts :
            balanceOf(q, v) = IF v = from THEN balanceOf(p, v) - y
                              ELSE IF v = l THEN balanceOf(p, v) - z
                              ELSE balanceOf(p, v)
       /\ totalSupply(q) = totalSupply(p) - y - z
  BY <1>1, <1>2, <1>4, <1>5, <1>7, BurntVisible DEF y
<1>11. /\ q.balances[from] = p.balances[from] - y
       /\ q.balances[l] = p.balances[l] - z
       /\ q.allowances = p.allowances /\ q.liquidityPool = p.liquidityPool
       /\ q.exemptedAddresses = p.exemptedAddresses
       /\ q.burnScore = [p.burnScore EXCEPT ![from] = p.burnScore[from] + y]
  BY <1>1, <1>4, <1>5, <1>7, BurntFields DEF y
<1> HIDE DEF q, z, share, spare
<1>12. /\ \A v \in Accounts :
            balanceOf(t, v) = IF from = to THEN balanceOf(q, v)
                              ELSE IF v = from THEN balanceOf(q, v) - (x - y)
                              ELSE IF v = to THEN balanceOf(q, v) + (x - y)
                              ELSE balanceOf(q, v)
       /\ totalSupply(t) = totalSupply(q)
  BY <1>5, <1>6, <1>9, MovedVisible
<1>13. /\ t.balances[l] = q.balances[l]
       /\ t.allowances = q.allowances /\ t.liquidityPool = q.liquidityPool
       /\ t.exemptedAddresses = q.exemptedAddresses /\ t.burnScore = q.burnScore
  BY <1>1, <1>5, <1>6, <1>9, MovedFields
<1>14. ASSUME NEW v \in Accounts PROVE balanceOf(s, v) \in Nat
  <2>1. userRewards(s, v) \in Nat /\ s.balances[v] \in Nat
    BY <1>1, RewardBound DEF Storage, Uint
  <2> QED BY <2>1 DEF balanceOf
<1>15. x <= balanceOf(s, from)
  BY <1>1, <1>3, <1>5, <1>6, <1>11, <1>14 DEF CanMove
<1>16. ASSUME NEW v \in Accounts
       PROVE  balanceOf(t, v) = IF from = to /\ v = from THEN balanceOf(s, v) - y
                                ELSE IF v = from THEN balanceOf(s, v) - x
                                ELSE IF v = to THEN balanceOf(s, v) + (x - y)
                                ELSE IF v = l THEN balanceOf(s, v) - z
                                ELSE balanceOf(s, v)
  BY <1>1, <1>3, <1>6, <1>10, <1>12, <1>14
<1>17. s.balances[l] = p.balances[l] /\ s.balances[l] \in Nat
  <2>1. s.burnScore[l] = 0
    BY <1>1 DEF Good, Gated
  <2>2. balanceOf(s, l) = s.balances[l]
    BY <1>1, <2>1, NoScoreNoReward
  <2> QED BY <1>1, <1>3, <1>8, <1>14, <2>2
<1>18. t.balances[l] >= RESERVE_BUFFER \/ t.balances[l] >= s.balances[l]
  BY <1>8, <1>11, <1>13, <1>17
<1>19. totalSupply(t) = totalSupply(s) - y - z
  BY <1>3, <1>10, <1>12
<1> QED BY <1>1, <1>4, <1>6, <1>8, <1>11, <1>13, <1>14, <1>15, <1>16, <1>18, <1>19
        DEF Taxing, t, y, spare, share
-----------------------------------------------------------------------------
(* What the other transactions show. *)

\* Within one block the views of the next storage are those of the next state.
LEMMA SameBlock ==
  ASSUME now' = now
  PROVE  /\ \A v \in Accounts : balanceOf(cash, v)' = balanceOf(cash', v)
         /\ totalSupply(cash)' = totalSupply(cash')
BY DEF balanceOf, totalSupply, userRewards, simulatedRewardsPerTokenBurned, totalRewards

\* Approving shows in no balance.
LEMMA ApproveInvisible ==
  ASSUME NEW s \in Storage, NEW o \in Accounts, NEW p \in Accounts, NEW x
  PROVE  LET t == Approve(s, o, p, x)
         IN  /\ \A v \in Accounts : balanceOf(t, v) = balanceOf(s, v)
             /\ totalSupply(t) = totalSupply(s)
             /\ t.balances = s.balances /\ t.totalBurned = s.totalBurned
             /\ t.burnScore = s.burnScore /\ t.liquidityPool = s.liquidityPool
             /\ t.exemptedAddresses = s.exemptedAddresses
             /\ \A v, w \in Accounts :
                  t.allowances[v][w] = IF v = o /\ w = p THEN x ELSE s.allowances[v][w]
<1> DEFINE t == Approve(s, o, p, x)
<1>1. /\ t.balances = s.balances /\ t.totalBurned = s.totalBurned
      /\ t.burnScore = s.burnScore /\ t.liquidityPool = s.liquidityPool
      /\ t.exemptedAddresses = s.exemptedAddresses
      /\ t.allowances = [s.allowances EXCEPT ![o][p] = x]
      /\ t.owner = s.owner /\ t.lastMintTime = s.lastMintTime
      /\ t.totalSupply = s.totalSupply /\ t.pendingMints = s.pendingMints
      /\ t.rewardsPerTokenBurned = s.rewardsPerTokenBurned
      /\ t.userRewardsPerTokenBurned = s.userRewardsPerTokenBurned
  BY DEF Approve, Storage
<1> HIDE DEF t
<1>2. ASSUME NEW v \in Accounts PROVE balanceOf(t, v) = balanceOf(s, v)
  BY <1>1, SameReward DEF balanceOf
<1>3. totalSupply(t) = totalSupply(s)
  BY <1>1 DEF totalSupply, totalRewards
<1>4. \A v, w \in Accounts :
        t.allowances[v][w] = IF v = o /\ w = p THEN x ELSE s.allowances[v][w]
  BY <1>1 DEF Storage
<1> QED BY <1>1, <1>2, <1>3, <1>4 DEF t

\* Nor does initialize: before it nobody has burn score, and inflation starts.
LEMMA InitializeInvisible ==
  ASSUME IInv, IInv', NEW c \in Accounts, NEW p \in Pools, NEW m \in Migrators,
         initialize(c, p, m)
  PROVE  /\ \A v \in Accounts : balanceOf(cash', v) = balanceOf(cash, v)
         /\ totalSupply(cash') = totalSupply(cash)
         /\ ~ Initialized(cash)
<1>1. /\ Good(cash) /\ now \in 0 .. MaxTime /\ cash.lastMintTime <= now
      /\ cash \in Storage /\ now' = now
  BY DEF IInv, Good, initialize
<1>2. Good(cash') /\ cash'.lastMintTime <= now
  BY <1>1 DEF IInv, Good, Storage, Gated, Accounted, Backed, Scheduled, Initialized
<1>3. /\ cash'.balances = cash.balances /\ cash'.totalSupply = cash.totalSupply
      /\ cash'.burnScore = cash.burnScore /\ cash'.pendingMints = cash.pendingMints
      /\ cash'.owner = ZeroAddress /\ cash'.lastMintTime = now
      /\ cash.owner # ZeroAddress
  BY <1>1, AddressAssumption DEF initialize, Storage
<1>4. ~ Initialized(cash) /\ \A v \in Accounts : cash.burnScore[v] = 0
  BY <1>1, <1>3 DEF Good, Gated
<1>5. ASSUME NEW v \in Accounts PROVE balanceOf(cash', v) = balanceOf(cash, v)
  <2>1. balanceOf(cash', v) = cash'.balances[v]
    BY <1>1, <1>2, <1>3, <1>4, NoScoreNoReward
  <2>2. balanceOf(cash, v) = cash.balances[v]
    BY <1>1, <1>4, NoScoreNoReward
  <2> QED BY <1>3, <2>1, <2>2
<1>6. totalSupply(cash') = totalSupply(cash)
  <2>1. totalRewards(cash') = 0
    BY <1>1, <1>2, <1>3, NothingNew
  <2>2. totalRewards(cash) = 0
    BY <1>3 DEF totalRewards
  <2> QED BY <1>3, <2>1, <2>2 DEF totalSupply
<1> QED BY <1>4, <1>5, <1>6

\* Moving burn score shows in no balance: both accounts have just settled.
LEMMA MoveScoreInvisible ==
  ASSUME IInv, NEW from \in Accounts, NEW to \in Addresses, NEW x \in Amounts,
         transferBurnScore(from, to, x)
  PROVE  /\ \A v \in Accounts : balanceOf(cash', v) = balanceOf(cash, v)
         /\ totalSupply(cash') = totalSupply(cash)
         /\ to \in Accounts /\ to \notin cash.exemptedAddresses
         /\ cash.burnScore[from] \in Int /\ x \in 0 .. cash.burnScore[from]
         /\ cash'.burnScore = [[cash.burnScore EXCEPT ![from] = @ - x] EXCEPT ![to] = @ + x]
         /\ cash'.liquidityPool = cash.liquidityPool
         /\ cash'.exemptedAddresses = cash.exemptedAddresses
         /\ cash'.allowances = cash.allowances
         /\ cash'.totalBurned = cash.totalBurned
<1> DEFINE a == mintRewards(cash, from)
           b == mintRewards(a, to)
<1>1. /\ Good(cash) /\ cash \in Storage
      /\ now \in 0 .. MaxTime /\ cash.lastMintTime <= now /\ now <= now
  BY ParameterAssumption DEF IInv, Good
<1>2. /\ to \in Accounts /\ to \notin cash.exemptedAddresses
      /\ cash.burnScore[from] \in Int /\ x \in 0 .. cash.burnScore[from]
      /\ cash' = ScoreMoved(b, from, to, x)
  BY <1>1, ParameterAssumption DEF transferBurnScore, CanMoveScore, Addresses, Storage, Uint
<1>3. /\ Good(a) /\ a.lastMintTime = now
      /\ a.userRewardsPerTokenBurned[from] = a.rewardsPerTokenBurned
      /\ \A v \in Accounts : balanceOf(a, v) = balanceOf(cash, v)
      /\ totalSupply(a) = totalSupply(cash)
  BY <1>1, SettlementGood, SettlementInvisible
<1>4. /\ a.liquidityPool = cash.liquidityPool /\ a.totalBurned = cash.totalBurned
      /\ a.exemptedAddresses = cash.exemptedAddresses /\ a.burnScore = cash.burnScore
      /\ a.allowances = cash.allowances
  BY <1>1 DEF mintRewards, Mint, Storage
<1> HIDE DEF a
<1>5. a \in Storage
  BY <1>3 DEF Good
<1>6. /\ Good(b) /\ b.lastMintTime = now
      /\ b.userRewardsPerTokenBurned[to] = b.rewardsPerTokenBurned
      /\ \A v \in Accounts : balanceOf(b, v) = balanceOf(a, v)
      /\ totalSupply(b) = totalSupply(a)
  BY <1>1, <1>2, <1>3, SettlementGood, SettlementInvisible
<1>7. /\ b.liquidityPool = a.liquidityPool /\ b.totalBurned = a.totalBurned
      /\ b.exemptedAddresses = a.exemptedAddresses /\ b.burnScore = a.burnScore
      /\ b.allowances = a.allowances
      /\ b.rewardsPerTokenBurned = simulatedRewardsPerTokenBurned(a)
      /\ b.userRewardsPerTokenBurned =
           [a.userRewardsPerTokenBurned EXCEPT ![to] = simulatedRewardsPerTokenBurned(a)]
  BY <1>5 DEF mintRewards, Mint, Storage
<1>8. b.userRewardsPerTokenBurned[from] = b.rewardsPerTokenBurned
  <2>1. simulatedRewardsPerTokenBurned(a) = a.rewardsPerTokenBurned
    BY <1>1, <1>3, NothingNew
  <2> QED BY <1>3, <1>5, <1>7, <2>1 DEF Storage
<1> HIDE DEF b
<1>9. b \in Storage
  BY <1>6 DEF Good
<1>10. /\ cash'.balances = b.balances /\ cash'.totalSupply = b.totalSupply
       /\ cash'.owner = b.owner /\ cash'.liquidityPool = b.liquidityPool
       /\ cash'.exemptedAddresses = b.exemptedAddresses
       /\ cash'.allowances = b.allowances
       /\ cash'.rewardsPerTokenBurned = b.rewardsPerTokenBurned
       /\ cash'.userRewardsPerTokenBurned = b.userRewardsPerTokenBurned
       /\ cash'.lastMintTime = b.lastMintTime /\ cash'.pendingMints = b.pendingMints
       /\ cash'.totalBurned = b.totalBurned
       /\ cash'.burnScore = [[b.burnScore EXCEPT ![from] = @ - x] EXCEPT ![to] = @ + x]
  BY <1>2, <1>9 DEF ScoreMoved, Storage
<1>11. ASSUME NEW v \in Accounts PROVE balanceOf(cash', v) = balanceOf(b, v)
  <2>1. CASE v \in {from, to}
    <3>1. userRewards(b, v) = 0 /\ b.balances[v] \in Int
      <4>1. b.userRewardsPerTokenBurned[v] = b.rewardsPerTokenBurned
        BY <1>6, <1>8, <2>1
      <4>2. userRewards(b, v) = 0
        BY <1>1, <1>6, <4>1, NoRewardLeft
      <4>3. b.balances[v] \in Int
        BY <1>9 DEF Storage, Uint
      <4> QED BY <4>2, <4>3
    <3>2. simulatedRewardsPerTokenBurned(cash') - cash'.userRewardsPerTokenBurned[v] = 0
      <4>1. simulatedRewardsPerTokenBurned(cash') = simulatedRewardsPerTokenBurned(b)
        BY <1>10 DEF simulatedRewardsPerTokenBurned, totalRewards
      <4>2. simulatedRewardsPerTokenBurned(b) = b.rewardsPerTokenBurned
        BY <1>1, <1>6, NothingNew
      <4>3. b.rewardsPerTokenBurned \in Int
        BY <1>9 DEF Storage, Uint
      <4> QED BY <1>6, <1>8, <1>10, <2>1, <4>1, <4>2, <4>3
    <3>3. cash'.burnScore[v] \in Int
      <4>1. b.burnScore \in [Accounts -> Int] /\ x \in Int
        BY <1>2, <1>9 DEF Storage, Uint
      <4> QED BY <1>2, <1>10, <4>1
    <3>4. cash'.burnScore[v] * 0 = 0 /\ 0 \div REWARD_PRECISION = 0
      BY <3>3, ParameterAssumption
    <3>5. userRewards(cash', v) = 0
      BY <3>2, <3>4 DEF userRewards
    <3> QED BY <1>10, <3>1, <3>5 DEF balanceOf
  <2>2. CASE v \notin {from, to}
    <3>1. cash'.burnScore[v] = b.burnScore[v]
      BY <1>2, <1>9, <1>10, <2>2 DEF Storage
    <3> QED BY <1>10, <3>1, SameReward DEF balanceOf
  <2> QED BY <2>1, <2>2
<1>12. totalSupply(cash') = totalSupply(b)
  BY <1>10 DEF totalSupply, totalRewards
<1> QED BY <1>2, <1>3, <1>4, <1>6, <1>7, <1>10, <1>11, <1>12
-----------------------------------------------------------------------------
(* The pool and the owners who approve. *)

\* The storage that transferFrom tests and changes, after the allowance is spent.
LEMMA SpentGood ==
  ASSUME NEW s, Good(s), s.lastMintTime <= now, NEW o \in Accounts, NEW p \in Accounts,
         NEW x \in Uint, CanSpendAllowance(s, o, p, x)
  PROVE  LET t == SpendAllowance(s, o, p, x)
         IN  /\ Good(t) /\ t.lastMintTime <= now
             /\ \A v \in Accounts : balanceOf(t, v) = balanceOf(s, v)
             /\ totalSupply(t) = totalSupply(s)
             /\ t.balances = s.balances /\ t.totalBurned = s.totalBurned
             /\ t.burnScore = s.burnScore /\ t.liquidityPool = s.liquidityPool
             /\ t.exemptedAddresses = s.exemptedAddresses
             /\ \A v, w \in Accounts :
                  /\ s.allowances[v][w] - t.allowances[v][w] \in {0, x}
                  /\ <<v, w>> # <<o, p>> => t.allowances[v][w] = s.allowances[v][w]
<1>1. s \in Storage /\ x \in Int
  BY DEF Good, Uint
<1>2. \A v, w \in Accounts : s.allowances[v][w] \in Int
  BY <1>1 DEF Storage, Uint
<1>3. CASE s.allowances[o][p] = MaxUint
  BY <1>2, <1>3 DEF SpendAllowance
<1>4. CASE s.allowances[o][p] # MaxUint
  <2> DEFINE n == s.allowances[o][p] - x
             t == Approve(s, o, p, n)
  <2>1. n \in Uint
    BY <1>1, ParameterAssumption DEF CanSpendAllowance, Storage, Uint
  <2>2. SpendAllowance(s, o, p, x) = t
    BY <1>4 DEF SpendAllowance
  <2>3. t.lastMintTime = s.lastMintTime
    BY <1>1 DEF Approve, Storage
  <2>4. /\ \A v \in Accounts : balanceOf(t, v) = balanceOf(s, v)
        /\ totalSupply(t) = totalSupply(s)
        /\ t.balances = s.balances /\ t.totalBurned = s.totalBurned
        /\ t.burnScore = s.burnScore /\ t.liquidityPool = s.liquidityPool
        /\ t.exemptedAddresses = s.exemptedAddresses
        /\ \A v, w \in Accounts :
             t.allowances[v][w] = IF v = o /\ w = p THEN n ELSE s.allowances[v][w]
    <3> HIDE DEF n
    <3> QED BY <1>1, ApproveInvisible
  <2>5. Good(t)
    <3> HIDE DEF n
    <3> QED BY <2>1, ApproveGood
  <2>6. ASSUME NEW v \in Accounts, NEW w \in Accounts
        PROVE  /\ s.allowances[v][w] - t.allowances[v][w] \in {0, x}
               /\ <<v, w>> # <<o, p>> => t.allowances[v][w] = s.allowances[v][w]
    <3> HIDE DEF t
    <3> QED BY <1>1, <1>2, <2>4
  <2> HIDE DEF t, n
  <2> QED BY <2>2, <2>3, <2>4, <2>5, <2>6
<1> QED BY <1>3, <1>4

\* Both halves of a transfer's effect that the pool and the owner care about.
LEMMA SendBounds ==
  ASSUME NEW s, Good(s), now \in 0 .. MaxTime, s.lastMintTime <= now,
         NEW from \in Accounts, NEW to \in Addresses, NEW x \in Uint,
         CanSend(s, from, to, x)
  PROVE  LET t == Send(s, from, to, x)
         IN  /\ balanceOf(s, from) - balanceOf(t, from) <= x
             /\ t.allowances = s.allowances
             /\ t.totalBurned > s.totalBurned =>
                  \/ t.balances[s.liquidityPool] >= RESERVE_BUFFER
                  \/ t.balances[s.liquidityPool] >= s.balances[s.liquidityPool]
<1> DEFINE t == Send(s, from, to, x)
<1>1. x \in Nat /\ s.totalBurned \in Int
  BY DEF Good, Storage, Uint
<1>2. CASE Taxed(s, from, to)
  <2> DEFINE y == burnedFromTx(x)
  <2>1. y \in Nat /\ y <= x
    BY <1>1, BurnedAmounts
  <2>2. Taxing(s, t, from, to, x)
    BY <1>2, TaxedSend
  <2> HIDE DEF t
  <2>3. /\ balanceOf(s, from) \in Int
        /\ balanceOf(t, from) = IF from = to THEN balanceOf(s, from) - y
                                ELSE balanceOf(s, from) - x
        /\ t.allowances = s.allowances
        /\ \/ t.balances[s.liquidityPool] >= RESERVE_BUFFER
           \/ t.balances[s.liquidityPool] >= s.balances[s.liquidityPool]
    BY <2>2 DEF Taxing
  <2> HIDE DEF y
  <2> QED BY <1>1, <2>1, <2>3 DEF t
<1>3. CASE ~ Taxed(s, from, to)
  <2>1. /\ balanceOf(s, from) \in Int
        /\ balanceOf(t, from) = IF from = to THEN balanceOf(s, from)
                                ELSE balanceOf(s, from) - x
        /\ t.allowances = s.allowances /\ t.totalBurned = s.totalBurned
    BY <1>3, FreeSend
  <2> HIDE DEF t
  <2> QED BY <1>1, <2>1 DEF t
<1> QED BY <1>2, <1>3

\* What PoolReserveKept and AllowanceBoundsLoss say of a step.
PoolStep ==
  cash'.totalBurned > cash.totalBurned =>
    \/ cash'.balances[cash.liquidityPool] >= RESERVE_BUFFER
    \/ cash'.balances[cash.liquidityPool] >= cash.balances[cash.liquidityPool]

AllowanceStep ==
  \A owner, spender \in Accounts :
    LET used == cash.allowances[owner][spender] - cash'.allowances[owner][spender]
    IN  used > 0 => balanceOf(cash, owner) - balanceOf(cash', owner) <= used

\* A step that burns nothing and shows in no balance is one of both.
LEMMA InvisibleStep ==
  ASSUME IInv, IInv', cash'.totalBurned = cash.totalBurned,
         \/ cash'.allowances = cash.allowances
         \/ \A v \in Accounts : balanceOf(cash', v) = balanceOf(cash, v)
  PROVE  PoolStep /\ AllowanceStep
<1>1. cash.totalBurned \in Int /\ \A v, w \in Accounts : cash.allowances[v][w] \in Int
  BY DEF IInv, Good, Storage, Uint
<1>2. PoolStep
  BY <1>1 DEF PoolStep
<1>3. CASE cash'.allowances = cash.allowances
  BY <1>1, <1>2, <1>3 DEF AllowanceStep
<1>4. CASE \A v \in Accounts : balanceOf(cash', v) = balanceOf(cash, v)
  <2>1. ASSUME NEW v \in Accounts PROVE balanceOf(cash, v) \in Int
    <3>1. userRewards(cash, v) \in Int /\ cash.balances[v] \in Int
      BY RewardBound DEF IInv, Good, Storage, Uint
    <3> QED BY <3>1 DEF balanceOf
  <2>2. ASSUME NEW v \in Accounts, NEW w \in Accounts,
               cash.allowances[v][w] - cash'.allowances[v][w] > 0
        PROVE  balanceOf(cash, v) - balanceOf(cash', v)
                 <= cash.allowances[v][w] - cash'.allowances[v][w]
    <3>1. balanceOf(cash, v) - balanceOf(cash', v) = 0
      BY <1>4, <2>1
    <3>2. cash.allowances[v][w] \in Int /\ cash'.allowances[v][w] \in Int
      BY DEF IInv, Good, Storage, Uint
    <3> QED BY <2>2, <3>1, <3>2
  <2> QED BY <1>2, <2>2 DEF AllowanceStep
<1> QED BY <1>3, <1>4

\* A transfer is one of both, of whatever amount.
LEMMA TransferBounds ==
  ASSUME IInv, NEW from \in Accounts, NEW to \in Addresses, NEW x \in Uint,
         transfer(from, to, x)
  PROVE  PoolStep /\ AllowanceStep
<1>1. Good(cash) /\ now \in 0 .. MaxTime /\ cash.lastMintTime <= now /\ cash \in Storage
  BY DEF IInv, Good
<1>2. CanSend(cash, from, to, x) /\ cash' = Send(cash, from, to, x)
  BY DEF transfer
<1>3. /\ cash'.allowances = cash.allowances
      /\ PoolStep
  BY <1>1, <1>2, SendBounds DEF PoolStep
<1>4. \A v, w \in Accounts : cash.allowances[v][w] \in Int
  BY <1>1 DEF Storage, Uint
<1> QED BY <1>3, <1>4 DEF AllowanceStep

\* Every transaction and every second does.
LEMMA NextBounds ==
  ASSUME IInv, IInv', [Next]_vars
  PROVE  PoolStep /\ AllowanceStep
<1>0. Good(cash) /\ now \in 0 .. MaxTime /\ cash.lastMintTime <= now /\ cash \in Storage
  BY DEF IInv, Good
<1>1. ASSUME NEW c \in Accounts, NEW p \in Pools, NEW m \in Migrators, initialize(c, p, m)
      PROVE  PoolStep /\ AllowanceStep
  <2>1. cash'.totalBurned = cash.totalBurned /\ cash'.allowances = cash.allowances
    BY <1>0, <1>1 DEF initialize, Storage
  <2> QED BY <2>1, InvisibleStep
<1>2. ASSUME NEW f \in Accounts, NEW t \in Addresses, NEW x \in Amounts, transfer(f, t, x)
      PROVE  PoolStep /\ AllowanceStep
  <2>1. x \in Uint
    BY ParameterAssumption
  <2> QED BY <1>2, <2>1, TransferBounds
<1>3. ASSUME NEW c \in Accounts, NEW f \in Accounts, NEW t \in Addresses, NEW x \in Amounts,
             transferFrom(c, f, t, x)
      PROVE  PoolStep /\ AllowanceStep
  <2> DEFINE s == SpendAllowance(cash, f, c, x)
  <2>1. /\ x \in Uint /\ CanSpendAllowance(cash, f, c, x)
        /\ CanSend(s, f, t, x) /\ cash' = Send(s, f, t, x)
    BY <1>3, ParameterAssumption DEF transferFrom
  <2>2. /\ Good(s) /\ s.lastMintTime <= now
        /\ \A v \in Accounts : balanceOf(s, v) = balanceOf(cash, v)
        /\ s.balances = cash.balances /\ s.totalBurned = cash.totalBurned
        /\ s.liquidityPool = cash.liquidityPool
        /\ \A v, w \in Accounts :
             /\ cash.allowances[v][w] - s.allowances[v][w] \in {0, x}
             /\ <<v, w>> # <<f, c>> => s.allowances[v][w] = cash.allowances[v][w]
    BY <1>0, <2>1, SpentGood
  <2> HIDE DEF s
  <2>3. /\ balanceOf(s, f) - balanceOf(cash', f) <= x
        /\ cash'.allowances = s.allowances
        /\ cash'.totalBurned > s.totalBurned =>
             \/ cash'.balances[s.liquidityPool] >= RESERVE_BUFFER
             \/ cash'.balances[s.liquidityPool] >= s.balances[s.liquidityPool]
    BY <1>0, <2>1, <2>2, SendBounds
  <2>4. PoolStep
    BY <2>2, <2>3 DEF PoolStep
  <2>5. ASSUME NEW v \in Accounts, NEW w \in Accounts,
               cash.allowances[v][w] - cash'.allowances[v][w] > 0
        PROVE  balanceOf(cash, v) - balanceOf(cash', v)
                 <= cash.allowances[v][w] - cash'.allowances[v][w]
    <3>1. cash.allowances[v][w] \in Int
      BY <1>0 DEF Storage, Uint
    <3>2. <<v, w>> = <<f, c>> /\ cash.allowances[v][w] - cash'.allowances[v][w] = x
      BY <2>2, <2>3, <2>5, <3>1
    <3> QED BY <2>2, <2>3, <3>2
  <2> QED BY <2>4, <2>5 DEF AllowanceStep
<1>4. ASSUME NEW f \in Accounts, NEW t \in Addresses, NEW x \in Amounts,
             transferBurnScore(f, t, x)
      PROVE  PoolStep /\ AllowanceStep
  BY <1>4, MoveScoreInvisible, InvisibleStep
<1>5. ASSUME NEW o \in Accounts, NEW p \in Spenders, NEW x \in Approvals,
             \/ approve(o, p, x)
             \/ increaseAllowance(o, p, x)
             \/ decreaseAllowance(o, p, x)
      PROVE  PoolStep /\ AllowanceStep
  <2>1. p \in Accounts
    BY <1>5, AddressAssumption
       DEF approve, increaseAllowance, decreaseAllowance, Addresses
  <2>2. \E y : cash' = Approve(cash, o, p, y)
    BY <1>5 DEF approve, increaseAllowance, decreaseAllowance
  <2> QED BY <1>0, <2>1, <2>2, ApproveInvisible, InvisibleStep
<1>6. CASE UNCHANGED cash
  BY <1>6, InvisibleStep
<1> QED BY <1>1, <1>2, <1>3, <1>4, <1>5, <1>6 DEF Next, Tick, vars

\* No transaction that burns from the pool leaves an AMM less than
\* RESERVE_BUFFER of CASH, whatever was transferred, unless it had less before.
THEOREM PoolIsNeverDrained == Spec => PoolReserveKept
<1>1. IInv /\ IInv' /\ [Next]_vars => [PoolStep]_vars
  BY NextBounds
<1> QED BY <1>1, Invariance, PTL DEF Spec, PoolReserveKept, PoolStep

\* No use of an allowance costs the owner more than the allowance it uses up:
\* the tax is taken out of the amount, and settling on the way loses nothing.
THEOREM AllowanceIsTheLimit == Spec => AllowanceBoundsLoss
<1>1. IInv /\ IInv' /\ [Next]_vars => [AllowanceStep]_vars
  BY NextBounds
<1> QED BY <1>1, Invariance, PTL DEF Spec, AllowanceBoundsLoss, AllowanceStep
-----------------------------------------------------------------------------
(* The refinement. *)

\* The ledger sums wallets as the contract's properties sum balances.
LEMMA SumsAgree ==
  ASSUME NEW f
  PROVE  Ledger!SumOf(f) = Total(f)
BY Zenon DEF Ledger!SumOf, Total, SumFunctionOnSet, Ledger!SumFunctionOnSet,
             FoldFunctionOnSet, Ledger!FoldFunctionOnSet,
             MapThenFoldSet, Ledger!MapThenFoldSet

\* The constructor opens the ledger.
LEMMA InitImplements == Init => Ledger!Init
<1> SUFFICES ASSUME Init PROVE Ledger!Init
  OBVIOUS
<1>1. /\ IInv /\ now = 0 /\ cash.totalSupply = INITIAL_SUPPLY
      /\ cash.balances = [a \in Accounts |-> IF a = Treasury THEN INITIAL_SUPPLY ELSE 0]
      /\ cash.burnScore = [a \in Accounts |-> 0] /\ cash.liquidityPool = ZeroAddress
      /\ cash.exemptedAddresses = Routers /\ cash.pendingMints = 0
      /\ cash.owner # ZeroAddress
  BY InitInvariant, AddressAssumption DEF Init
<1>2. ASSUME NEW v \in Accounts
      PROVE  balanceOf(cash, v) = IF v = Treasury THEN INITIAL_SUPPLY ELSE 0
  <2>1. balanceOf(cash, v) = cash.balances[v]
    BY <1>1, NoScoreNoReward DEF IInv
  <2> QED BY <1>1, <2>1
<1>3. totalSupply(cash) = INITIAL_SUPPLY
  <2>1. totalRewards(cash) = 0
    BY <1>1 DEF totalRewards
  <2> QED BY <1>1, <2>1, ParameterAssumption DEF totalSupply
<1> QED BY <1>1, <1>2, <1>3 DEF Ledger!Init

\* A transaction that shows nowhere is no step of the ledger.
LEMMA StutterImplements ==
  ASSUME now' = now,
         \A v \in Accounts : balanceOf(cash', v) = balanceOf(cash, v),
         totalSupply(cash') = totalSupply(cash),
         cash'.burnScore = cash.burnScore,
         cash'.liquidityPool = cash.liquidityPool,
         cash'.exemptedAddresses = cash.exemptedAddresses
  PROVE  UNCHANGED Ledger!ledger
<1>1. /\ \A v \in Accounts : balanceOf(cash, v)' = balanceOf(cash, v)
      /\ totalSupply(cash)' = totalSupply(cash)
  BY SameBlock
<1> QED BY <1>1 DEF Ledger!ledger

\* initialize makes the ledger live.
LEMMA InitializeImplements ==
  ASSUME IInv, IInv', NEW c \in Accounts, NEW p \in Pools, NEW m \in Migrators,
         initialize(c, p, m)
  PROVE  Ledger!Next
<1>1. p \in Accounts /\ m \in Accounts /\ cash \in Storage /\ now' = now
  BY AddressAssumption DEF initialize, Addresses, IInv, Good
<1>2. /\ cash'.burnScore = cash.burnScore
      /\ cash'.liquidityPool = p
      /\ cash'.exemptedAddresses = cash.exemptedAddresses \cup {p, m}
  BY <1>1 DEF initialize, Storage
<1>3. /\ \A v \in Accounts : balanceOf(cash, v)' = balanceOf(cash, v)
      /\ totalSupply(cash)' = totalSupply(cash)
      /\ cash.liquidityPool = ZeroAddress
  BY <1>1, InitializeInvisible, SameBlock DEF Initialized
<1>4. Ledger!GoLive(p, m)
  BY <1>1, <1>2, <1>3 DEF Ledger!GoLive, Ledger!Live
<1> QED BY <1>1, <1>4 DEF Ledger!Next

\* A transfer, from the storage s that differs from cash in allowances only.
LEMMA SendImplements ==
  ASSUME IInv, NEW s, Good(s), s.lastMintTime <= now,
         \A v \in Accounts : balanceOf(s, v) = balanceOf(cash, v),
         totalSupply(s) = totalSupply(cash),
         s.burnScore = cash.burnScore, s.liquidityPool = cash.liquidityPool,
         s.exemptedAddresses = cash.exemptedAddresses,
         NEW from \in Accounts, NEW to \in Addresses, NEW x \in Uint,
         CanSend(s, from, to, x), cash' = Send(s, from, to, x), now' = now
  PROVE  Ledger!Next
<1> DEFINE w == [a \in Accounts |-> balanceOf(cash, a)]
<1>1. now \in 0 .. MaxTime /\ x \in Nat
  BY DEF IInv, Uint
<1>2. /\ \A v \in Accounts : balanceOf(cash, v)' = balanceOf(cash', v)
      /\ totalSupply(cash)' = totalSupply(cash')
  BY SameBlock
<1>3. \A v \in Accounts : balanceOf(cash, v) \in Nat
  <2> SUFFICES ASSUME NEW v \in Accounts PROVE balanceOf(cash, v) \in Nat
    OBVIOUS
  <2>1. userRewards(cash, v) \in Nat
    BY RewardBound DEF IInv
  <2>2. cash.balances[v] \in Nat
    BY DEF IInv, Good, Storage, Uint
  <2> QED BY <2>1, <2>2 DEF balanceOf
<1>4. CASE ~ Taxed(s, from, to)
  <2>1. /\ to \in Accounts /\ x <= balanceOf(cash, from)
        /\ \A v \in Accounts :
             balanceOf(cash', v) = IF from = to THEN balanceOf(cash, v)
                                   ELSE IF v = from THEN balanceOf(cash, v) - x
                                   ELSE IF v = to THEN balanceOf(cash, v) + x
                                   ELSE balanceOf(cash, v)
        /\ totalSupply(cash') = totalSupply(cash)
        /\ cash'.liquidityPool = cash.liquidityPool
        /\ cash'.exemptedAddresses = cash.exemptedAddresses
        /\ cash'.burnScore = cash.burnScore
    BY <1>1, <1>4, FreeSend
  <2>2. w' = Ledger!Delivered(from, to, x, x)
    BY <1>1, <1>2, <1>3, <2>1 DEF Ledger!Delivered
  <2>3. Ledger!Live => {from, to} \cap cash.exemptedAddresses # {}
    BY <1>4 DEF Ledger!Live, Taxed, Initialized
  <2>4. Ledger!FreeTransfer(from, to, x)
    BY <1>2, <2>1, <2>2, <2>3 DEF Ledger!FreeTransfer
  <2>5. x \in 0 .. w[from]
    BY <1>1, <1>3, <2>1
  <2> QED BY <2>1, <2>4, <2>5 DEF Ledger!Next
<1>5. CASE Taxed(s, from, to)
  <2> DEFINE l == cash.liquidityPool
             y == burnedFromTx(x)
             z == Ledger!PoolBurn(x)
  <2>1. Taxing(s, cash', from, to, x)
    BY <1>1, <1>5, TaxedSend
  <2>2. y = Ledger!Tax(x) /\ y \in Nat /\ y <= x
    BY <1>1, BurnedAmounts DEF burnedFromTx, Ledger!Tax
  <2>3. l \in Accounts
    BY <2>1 DEF Taxing
  <2>4. z = LET share == (x * BURN_FROM_LP) \div BURN_PRECISION
                spare == balanceOf(s, l) - RESERVE_BUFFER
            IN  IF spare > share THEN share ELSE IF spare > 0 THEN spare ELSE 0
    BY <2>3 DEF Ledger!PoolBurn
  <2> HIDE DEF y, z
  <2>5. /\ to \in Accounts /\ l # from /\ l # to
        /\ x <= balanceOf(cash, from)
        /\ \A v \in Accounts :
             balanceOf(cash', v)
               = IF from = to /\ v = from THEN balanceOf(cash, v) - y
                 ELSE IF v = from THEN balanceOf(cash, v) - x
                 ELSE IF v = to THEN balanceOf(cash, v) + (x - y)
                 ELSE IF v = l THEN balanceOf(cash, v) - z
                 ELSE balanceOf(cash, v)
        /\ totalSupply(cash') = totalSupply(cash) - y - z
        /\ cash'.liquidityPool = cash.liquidityPool
        /\ cash'.exemptedAddresses = cash.exemptedAddresses
        /\ cash'.burnScore = [cash.burnScore EXCEPT ![from] = cash.burnScore[from] + y]
    BY <2>1, <2>3, <2>4 DEF Taxing, y
  <2>6. w' = [Ledger!Delivered(from, to, x, x - y) EXCEPT ![l] = @ - z]
    <3> DEFINE d == [w EXCEPT ![from] = @ - x]
               e == [d EXCEPT ![to] = @ + (x - y)]
               f == [e EXCEPT ![l] = @ - z]
    <3>1. /\ w \in [Accounts -> Nat] /\ \A v \in Accounts : w[v] = balanceOf(cash, v)
          /\ w' = [v \in Accounts |-> balanceOf(cash', v)]
      BY <1>2, <1>3
    <3>2. f = [Ledger!Delivered(from, to, x, x - y) EXCEPT ![l] = @ - z]
      BY DEF Ledger!Delivered
    <3> HIDE DEF w, l
    <3>3. /\ d \in [Accounts -> Int]
          /\ \A v \in Accounts : d[v] = IF v = from THEN w[v] - x ELSE w[v]
      BY <1>1, <3>1
    <3> HIDE DEF d
    <3>4. /\ e \in [Accounts -> Int]
          /\ \A v \in Accounts : e[v] = IF v = to THEN d[v] + (x - y) ELSE d[v]
      BY <1>1, <2>2, <2>5, <3>3
    <3> HIDE DEF e
    <3>5. /\ f = [v \in Accounts |-> f[v]]
          /\ \A v \in Accounts : f[v] = IF v = l THEN e[v] - z ELSE e[v]
      BY <2>3, <3>4
    <3> HIDE DEF f
    <3>6. ASSUME NEW v \in Accounts PROVE f[v] = balanceOf(cash', v)
      BY <1>1, <2>2, <2>5, <3>1, <3>3, <3>4, <3>5
    <3>7. f = w'
      BY <3>1, <3>5, <3>6
    <3> QED BY <3>2, <3>7 DEF w, l
  <2>7. Ledger!Live /\ {from, to} \cap cash.exemptedAddresses = {}
    BY <1>5 DEF Ledger!Live, Taxed, Initialized
  <2>8. Ledger!TaxedTransfer(from, to, x)
    BY <1>2, <2>2, <2>5, <2>6, <2>7 DEF Ledger!TaxedTransfer, z
  <2>9. x \in 0 .. w[from]
    BY <1>1, <1>3, <2>5
  <2> QED BY <2>5, <2>8, <2>9 DEF Ledger!Next
<1> QED BY <1>4, <1>5

\* Moving burn score.
LEMMA MoveScoreImplements ==
  ASSUME IInv, NEW from \in Accounts, NEW to \in Addresses, NEW x \in Amounts,
         transferBurnScore(from, to, x)
  PROVE  Ledger!Next
<1>1. now' = now
  BY DEF transferBurnScore
<1>2. /\ \A v \in Accounts : balanceOf(cash, v)' = balanceOf(cash, v)
      /\ totalSupply(cash)' = totalSupply(cash)
      /\ to \in Accounts /\ to \notin cash.exemptedAddresses
      /\ x \in 0 .. cash.burnScore[from]
      /\ cash'.burnScore = [[cash.burnScore EXCEPT ![from] = @ - x] EXCEPT ![to] = @ + x]
      /\ cash'.liquidityPool = cash.liquidityPool
      /\ cash'.exemptedAddresses = cash.exemptedAddresses
  BY <1>1, MoveScoreInvisible, SameBlock
<1>3. x <= cash.burnScore[from]
  BY <1>2 DEF IInv, Good, Storage, Uint
<1>4. Ledger!MoveScore(from, to, x)
  BY <1>1, <1>2, <1>3 DEF Ledger!MoveScore
<1> QED BY <1>2, <1>4 DEF Ledger!Next

\* Integer division is monotone.
LEMMA DivMonotone ==
  ASSUME NEW a \in Nat, NEW b \in Nat, NEW c \in Nat \ {0}, a <= b
  PROVE  a \div c \in Nat /\ b \div c \in Nat /\ a \div c <= b \div c
OBVIOUS

\* What time adds to the rewards of all.
LEMMA TickIncome ==
  ASSUME IInv, Tick
  PROVE  /\ cash' = cash /\ now' \in Nat /\ now \in Nat /\ now < now' /\ now' - now \in Nat
         /\ Good(cash) /\ cash \in Storage
         /\ cash.lastMintTime \in Nat /\ cash.lastMintTime <= now
         /\ cash.totalSupply \in Nat /\ cash.pendingMints \in Nat
         /\ cash.rewardsPerTokenBurned \in Nat /\ cash.totalBurned \in Nat \ {0}
         /\ Ledger!Live <=> cash.owner = ZeroAddress
         /\ totalRewards(cash) \in Nat /\ totalRewards(cash)' \in Nat
         /\ totalRewards(cash)'
              = totalRewards(cash) + (IF Ledger!Live THEN MINT_PER_SECOND * (now' - now) ELSE 0)
<1> DEFINE last == cash.lastMintTime
           T == cash.totalBurned
           rpt == cash.rewardsPerTokenBurned
           n == now'
<1>1. /\ cash' = cash /\ n \in Nat /\ now \in Nat /\ now < n /\ n - now \in Nat
      /\ Good(cash) /\ cash \in Storage
      /\ last \in Nat /\ last <= now
      /\ cash.totalSupply \in Nat /\ cash.pendingMints \in Nat
      /\ rpt \in Nat /\ T \in Nat \ {0}
  <2>1. T \in Nat \ {0}
    BY TotalBurnedPositive DEF IInv
  <2>2. Good(cash) /\ cash \in Storage /\ last <= now /\ now \in 0 .. MaxTime
    BY DEF IInv, Good
  <2>3. cash' = cash /\ n \in Nat /\ now \in Nat /\ now < n
    BY <2>2, ParameterAssumption DEF Tick
  <2> HIDE DEF n
  <2>4. n - now \in Nat
    BY <2>3
  <2>5. last \in Nat /\ cash.totalSupply \in Nat /\ cash.pendingMints \in Nat /\ rpt \in Nat
    BY <2>2 DEF Storage, Uint
  <2> QED BY <2>1, <2>2, <2>3, <2>4, <2>5
<1>2. Ledger!Live <=> cash.owner = ZeroAddress
  BY <1>1 DEF Ledger!Live, Good, Gated, Initialized
<1>3. /\ totalRewards(cash) \in Nat /\ totalRewards(cash)' \in Nat
      /\ totalRewards(cash)'
           = totalRewards(cash) + (IF Ledger!Live THEN MINT_PER_SECOND * (n - now) ELSE 0)
  <2>1. totalRewards(cash)
          = IF cash.owner = ZeroAddress THEN MINT_PER_SECOND * (now - last) ELSE 0
    BY DEF totalRewards
  <2>2. totalRewards(cash)'
          = IF cash.owner = ZeroAddress THEN MINT_PER_SECOND * (n - last) ELSE 0
    BY <1>1 DEF totalRewards
  <2> HIDE DEF last, n
  <2>3. now - last \in Nat /\ n - now \in Nat /\ n - last = (now - last) + (n - now)
    BY <1>1
  <2>4. /\ MINT_PER_SECOND * (now - last) \in Nat
        /\ MINT_PER_SECOND * (n - now) \in Nat
        /\ MINT_PER_SECOND * ((now - last) + (n - now))
             = MINT_PER_SECOND * (now - last) + MINT_PER_SECOND * (n - now)
    BY <2>3, ParameterAssumption
  <2>5. CASE cash.owner = ZeroAddress
    BY <1>2, <2>1, <2>2, <2>3, <2>4, <2>5
  <2>6. CASE cash.owner # ZeroAddress
    BY <1>2, <2>1, <2>2, <2>6
  <2> QED BY <2>5, <2>6
<1> QED BY <1>1, <1>2, <1>3

\* Time: the supply grows by the schedule, and rewards only grow.
LEMMA TickAccrues ==
  ASSUME IInv, IInv', SupplyCoversBalances', Tick
  PROVE  Ledger!Accrue
<1> DEFINE T == cash.totalBurned
           P == REWARD_PRECISION
           rpt == cash.rewardsPerTokenBurned
           sim == simulatedRewardsPerTokenBurned(cash)
           n == now'
           next == simulatedRewardsPerTokenBurned(cash)'
<1>1. /\ cash' = cash /\ n \in Nat /\ now \in Nat /\ now < n /\ n - now \in Nat
      /\ Good(cash) /\ cash \in Storage
      /\ cash.totalSupply \in Nat /\ cash.pendingMints \in Nat
      /\ rpt \in Nat /\ T \in Nat \ {0}
  BY TickIncome
<1>3. /\ totalRewards(cash) \in Nat /\ totalRewards(cash)' \in Nat
      /\ totalRewards(cash)'
           = totalRewards(cash) + (IF Ledger!Live THEN MINT_PER_SECOND * (n - now) ELSE 0)
  BY TickIncome
<1>4. totalSupply(cash)'
        = totalSupply(cash) + (IF Ledger!Live THEN MINT_PER_SECOND * (n - now) ELSE 0)
  <2>1. totalSupply(cash)' = cash.totalSupply + cash.pendingMints + totalRewards(cash)'
    BY <1>1 DEF totalSupply
  <2> DEFINE i == IF Ledger!Live THEN MINT_PER_SECOND * (n - now) ELSE 0
  <2>2. i \in Int
    BY <1>1, ParameterAssumption
  <2> HIDE DEF i
  <2>3. totalRewards(cash)' = totalRewards(cash) + i
    BY <1>3 DEF i
  <2>4. totalSupply(cash)' = totalSupply(cash) + i
    BY <1>1, <1>3, <2>1, <2>2, <2>3 DEF totalSupply
  <2> QED BY <2>4 DEF i
<1>5. sim \in Nat /\ next \in Nat /\ sim <= next
  <2> DEFINE a == totalRewards(cash) * P
             b == totalRewards(cash)' * P
  <2>1. a \in Nat /\ b \in Nat /\ a <= b
    <3>1. totalRewards(cash) <= totalRewards(cash)'
      <4>1. MINT_PER_SECOND * (n - now) \in Nat
        <5> HIDE DEF n
        <5> QED BY <1>1, ParameterAssumption
      <4> QED BY <1>3, <4>1
    <3> QED BY <1>3, <3>1, ParameterAssumption, TimesMonotone
  <2>2. sim = rpt + a \div T /\ next = rpt + b \div T
    BY <1>1 DEF simulatedRewardsPerTokenBurned
  <2> HIDE DEF a, b, T, rpt, sim, next
  <2>3. a \div T \in Nat /\ b \div T \in Nat /\ a \div T <= b \div T
    BY <1>1, <2>1, DivMonotone
  <2> QED BY <1>1, <2>2, <2>3
<1>6. ASSUME NEW v \in Accounts
      PROVE  /\ balanceOf(cash, v)' >= balanceOf(cash, v)
             /\ cash.burnScore[v] = 0 => balanceOf(cash, v)' = balanceOf(cash, v)
  <2> DEFINE s == cash.burnScore[v]
             t == cash.userRewardsPerTokenBurned[v]
             c == s * (sim - t)
             d == s * (next - t)
  <2>1. /\ s \in Nat /\ t \in Nat /\ t <= rpt /\ cash.balances[v] \in Nat
    BY <1>1 DEF Good, Backed, Storage, Uint
  <2>2. t <= sim
    <3>1. PICK e \in Nat : sim = rpt + e
      BY AddedBound DEF IInv
    <3> QED BY <1>1, <2>1, <3>1
  <2>3. /\ balanceOf(cash, v) = cash.balances[v] + c \div P
        /\ balanceOf(cash, v)' = cash.balances[v] + d \div P
    BY <1>1 DEF balanceOf, userRewards
  <2> HIDE DEF s, t, sim, next
  <2>4. sim - t \in Nat /\ next - t \in Nat /\ sim - t <= next - t
    BY <1>5, <2>1, <2>2
  <2>5. c \in Nat /\ d \in Nat /\ c <= d
    BY <2>1, <2>4, TimesMonotone
  <2>6. s = 0 => c = d
    BY <2>4
  <2> HIDE DEF c, d
  <2>7. c \div P \in Nat /\ d \div P \in Nat /\ c \div P <= d \div P
    BY <2>5, ParameterAssumption, DivMonotone
  <2>8. balanceOf(cash, v)' >= balanceOf(cash, v)
    BY <2>1, <2>3, <2>7
  <2>9. s = 0 => balanceOf(cash, v)' = balanceOf(cash, v)
    BY <2>3, <2>6
  <2> QED BY <2>8, <2>9 DEF s
<1>7. Ledger!SumOf([a \in Accounts |-> balanceOf(cash, a)]') <= totalSupply(cash)'
  BY SumsAgree DEF SupplyCoversBalances
<1> QED BY <1>1, <1>4, <1>6, <1>7 DEF Ledger!Accrue

\* Every step of the contract is a step of the ledger, or shows nowhere.
LEMMA StepImplements ==
  ASSUME IInv, IInv', SupplyCoversBalances', [Next]_vars
  PROVE  Ledger!Next \/ UNCHANGED Ledger!ledger
<1>0. Good(cash) /\ now \in 0 .. MaxTime /\ cash.lastMintTime <= now /\ cash \in Storage
  BY DEF IInv, Good
<1>1. ASSUME NEW f \in Accounts, NEW t \in Addresses, NEW x \in Amounts, transfer(f, t, x)
      PROVE  Ledger!Next
  BY <1>0, <1>1, ParameterAssumption, SendImplements DEF transfer
<1>2. ASSUME NEW c \in Accounts, NEW f \in Accounts, NEW t \in Addresses, NEW x \in Amounts,
             transferFrom(c, f, t, x)
      PROVE  Ledger!Next
  <2> DEFINE s == SpendAllowance(cash, f, c, x)
  <2>1. /\ x \in Uint /\ CanSpendAllowance(cash, f, c, x)
        /\ CanSend(s, f, t, x) /\ cash' = Send(s, f, t, x) /\ now' = now
    BY <1>2, ParameterAssumption DEF transferFrom
  <2>2. /\ Good(s) /\ s.lastMintTime <= now
        /\ \A v \in Accounts : balanceOf(s, v) = balanceOf(cash, v)
        /\ totalSupply(s) = totalSupply(cash)
        /\ s.burnScore = cash.burnScore /\ s.liquidityPool = cash.liquidityPool
        /\ s.exemptedAddresses = cash.exemptedAddresses
    BY <1>0, <2>1, SpentGood
  <2> HIDE DEF s
  <2> QED BY <2>1, <2>2, SendImplements
<1>3. ASSUME NEW o \in Accounts, NEW p \in Spenders, NEW x \in Approvals,
             \/ approve(o, p, x)
             \/ increaseAllowance(o, p, x)
             \/ decreaseAllowance(o, p, x)
      PROVE  UNCHANGED Ledger!ledger
  <2>1. p \in Accounts /\ now' = now
    BY <1>3, AddressAssumption
       DEF approve, increaseAllowance, decreaseAllowance, Addresses
  <2>2. \E y : cash' = Approve(cash, o, p, y)
    BY <1>3 DEF approve, increaseAllowance, decreaseAllowance
  <2>3. /\ \A v \in Accounts : balanceOf(cash', v) = balanceOf(cash, v)
        /\ totalSupply(cash') = totalSupply(cash)
        /\ cash'.burnScore = cash.burnScore
        /\ cash'.liquidityPool = cash.liquidityPool
        /\ cash'.exemptedAddresses = cash.exemptedAddresses
    BY <1>0, <2>1, <2>2, ApproveInvisible
  <2> QED BY <2>1, <2>3, StutterImplements
<1>4. CASE UNCHANGED vars
  BY <1>4, StutterImplements DEF vars
<1> QED BY <1>1, <1>2, <1>3, <1>4, InitializeImplements, MoveScoreImplements,
           TickAccrues DEF Next, Ledger!Next

\* Whatever the accounts do, what balanceOf and totalSupply report behaves like
\* a ledger that pays inflation at once: the lazy accounting is not observable.
THEOREM LedgerIsImplemented == Spec => ImplementsLedger
<1>1. IInv /\ IInv' /\ SupplyCoversBalances' /\ [Next]_vars => [Ledger!Next]_(Ledger!ledger)
  BY StepImplements
<1> QED BY <1>1, InitImplements, Invariance, BalancesAreCovered, PTL
        DEF Spec, ImplementsLedger, Ledger!Spec
-----------------------------------------------------------------------------
(* Shares. *)

LEMMA TimesOrder ==
  ASSUME NEW a \in Int, NEW b \in Int, NEW c \in Nat \ {0}, a < b
  PROVE  c * a < c * b
OBVIOUS

\* Rounding two terms down leaves their difference off by less than one.
LEMMA DifferenceOfQuotients ==
  ASSUME NEW a \in Nat, NEW b \in Nat, NEW n \in Nat \ {0}
  PROVE  LET d == (b \div n) - (a \div n)
         IN  d \in Int /\ -n < d * n - (b - a) /\ d * n - (b - a) < n
<1> DEFINE p == a \div n
           q == b \div n
<1>1. /\ p \in Nat /\ p * n <= a /\ a < (p + 1) * n
      /\ q \in Nat /\ q * n <= b /\ b < (q + 1) * n
  OBVIOUS
<1> HIDE DEF p, q
<1>2. /\ (p + 1) * n = p * n + n /\ (q + 1) * n = q * n + n
      /\ (q - p) * n = q * n - p * n
      /\ p * n \in Int /\ q * n \in Int
  BY <1>1
<1> DEFINE x == p * n
           y == q * n
<1> HIDE DEF x, y
<1>3. /\ x \in Int /\ y \in Int /\ x <= a /\ a < x + n /\ y <= b /\ b < y + n
      /\ (q - p) * n = y - x
  BY <1>1, <1>2 DEF x, y
<1>4. -n < (y - x) - (b - a) /\ (y - x) - (b - a) < n
  BY <1>3
<1> QED BY <1>1, <1>3, <1>4 DEF p, q

\* The two roundings of a share: of the accumulator, which a score multiplies,
\* and of the reward.
LEMMA ErrorsAdd ==
  ASSUME NEW T \in Nat \ {0}, NEW P \in Nat \ {0}, NEW s \in Nat,
         NEW g \in Int, NEW d \in Int, NEW i \in Int,
         -T < d * T - i * P, d * T - i * P < T,
         -P < g * P - s * d, g * P - s * d < P
  PROVE  LET error == g * T * P - s * i * P
             bound == T * (P + s)
         IN  -bound < error /\ error < bound
<1> DEFINE e == d * T - i * P
           f == g * P - s * d
<1>1. e \in Int /\ f \in Int /\ -T < e /\ e < T /\ -P < f /\ f < P
  OBVIOUS
<1>2. g * T * P - s * i * P = T * f + s * e
  OBVIOUS
<1>3. T * (P + s) = T * P + s * T
  OBVIOUS
<1> HIDE DEF e, f
<1>4. /\ T * f < T * P /\ T * (-P) < T * f
      /\ T * f \in Int /\ T * P \in Int /\ T * (-P) = -(T * P)
  BY <1>1, TimesOrder
<1>5. /\ s * e <= s * T /\ -(s * T) <= s * e
      /\ s * e \in Int /\ s * T \in Int
  <2>1. CASE s = 0
    BY <1>1, <2>1
  <2>2. CASE s # 0
    <3>1. s * e < s * T /\ s * (-T) < s * e /\ s * (-T) = -(s * T)
      BY <1>1, <2>2, TimesOrder
    <3>2. s * e \in Int /\ s * T \in Int
      BY <1>1
    <3> QED BY <3>1, <3>2
  <2> QED BY <2>1, <2>2
<1>6. -(T * P + s * T) < T * f + s * e /\ T * f + s * e < T * P + s * T
  BY <1>4, <1>5
<1> QED BY <1>2, <1>3, <1>6

\* Only Tick lets time pass.
LEMMA OnlyTickTakesTime ==
  ASSUME IInv, [Next]_vars, now' > now
  PROVE  Tick
<1>1. now' # now
  BY ParameterAssumption DEF IInv
<1> QED BY <1>1 DEF Next, vars, initialize, transfer, transferFrom, transferBurnScore,
                    approve, increaseAllowance, decreaseAllowance

\* While time passes a balance grows by its share, but for the roundings.
LEMMA TickShares ==
  ASSUME IInv, Tick, NEW u \in Accounts
  PROVE  LET error == Grown(u) * cash.totalBurned * REWARD_PRECISION
                        - cash.burnScore[u] * Inflation * REWARD_PRECISION
             bound == cash.totalBurned * (REWARD_PRECISION + cash.burnScore[u])
         IN  -bound < error /\ error < bound
<1> DEFINE T == cash.totalBurned
           P == REWARD_PRECISION
           s == cash.burnScore[u]
           t == cash.userRewardsPerTokenBurned[u]
           rpt == cash.rewardsPerTokenBurned
           sim == simulatedRewardsPerTokenBurned(cash)
           next == simulatedRewardsPerTokenBurned(cash)'
           r == totalRewards(cash)
           rr == totalRewards(cash)'
           i == Inflation
           g == Grown(u)
           d == next - sim
<1>1. /\ cash' = cash /\ cash \in Storage /\ Good(cash)
      /\ T \in Nat \ {0} /\ rpt \in Nat /\ r \in Nat /\ rr \in Nat
  BY TickIncome
<1>2. P \in Nat \ {0}
  BY ParameterAssumption
<1>3. s \in Nat /\ t \in Nat /\ t <= rpt /\ cash.balances[u] \in Nat
  BY <1>1 DEF Good, Backed, Storage, Uint
<1>4. i \in Int /\ rr = r + i
  <2>1. i = IF Ledger!Live THEN MINT_PER_SECOND * (now' - now) ELSE 0
    <3>1. Initialized(cash) <=> Ledger!Live
      BY <1>1, TickIncome DEF Good, Gated, Initialized
    <3> QED BY <3>1 DEF Inflation
  <2>2. rr = r + i
    BY <2>1, TickIncome
  <2>3. now' - now \in Nat
    BY TickIncome
  <2>4. MINT_PER_SECOND * (now' - now) \in Int
    BY <2>3, ParameterAssumption
  <2> HIDE DEF i
  <2> QED BY <2>1, <2>2, <2>4
<1>5. sim = rpt + (r * P) \div T /\ next = rpt + (rr * P) \div T
  BY <1>1 DEF simulatedRewardsPerTokenBurned
<1>6. g = (s * (next - t)) \div P - (s * (sim - t)) \div P
  <2> DEFINE c == (s * (sim - t)) \div P
             e == (s * (next - t)) \div P
  <2>1. /\ balanceOf(cash, u) = cash.balances[u] + c
        /\ balanceOf(cash, u)' = cash.balances[u] + e
    BY <1>1 DEF balanceOf, userRewards
  <2>2. c \in Int /\ e \in Int
    <3>1. sim \in Int /\ next \in Int
      <4> HIDE DEF sim, next, rpt, r, rr, T, P
      <4>1. r * P \in Int /\ rr * P \in Int
        BY <1>1, <1>2
      <4> QED BY <1>1, <1>5, <4>1
    <3> HIDE DEF sim, next, s, t, P
    <3>2. sim - t \in Int /\ next - t \in Int
      BY <1>3, <3>1
    <3>3. s * (sim - t) \in Int /\ s * (next - t) \in Int
      BY <1>3, <3>2
    <3> QED BY <1>2, <3>3
  <2> HIDE DEF c, e
  <2>3. g = (cash.balances[u] + e) - (cash.balances[u] + c)
    BY <2>1 DEF Grown
  <2>4. g = e - c
    <3> HIDE DEF g
    <3> QED BY <1>3, <2>2, <2>3
  <2> QED BY <2>4 DEF c, e
<1> HIDE DEF T, P, s, t, rpt, sim, next, r, rr, i, g
<1>7. d \in Int /\ -T < d * T - i * P /\ d * T - i * P < T
  <2> DEFINE a == r * P
             b == rr * P
  <2>1. a \in Nat /\ b \in Nat /\ b - a = i * P
    <3>1. a \in Nat /\ b \in Nat
      BY <1>1, <1>2, TimesMonotone
    <3>2. (r + i) * P - r * P = i * P
      BY <1>1, <1>2, <1>4
    <3> QED BY <1>4, <3>1, <3>2
  <2>2. d = (b \div T) - (a \div T)
    <3>1. a \div T \in Int /\ b \div T \in Int
      <4> HIDE DEF a, b
      <4> QED BY <1>1, <2>1
    <3>2. sim = rpt + a \div T /\ next = rpt + b \div T
      BY <1>5
    <3> HIDE DEF a, b
    <3> QED BY <1>1, <3>1, <3>2
  <2> HIDE DEF a, b, d
  <2> QED BY <1>1, <2>1, <2>2, DifferenceOfQuotients
<1>8. g \in Int /\ -P < g * P - s * d /\ g * P - s * d < P
  <2> DEFINE a == s * (sim - t)
             b == s * (next - t)
  <2>1. sim - t \in Nat /\ next - t \in Nat
    <3>1. (r * P) \div T \in Nat /\ (rr * P) \div T \in Nat
      <4>1. r * P \in Nat /\ rr * P \in Nat
        BY <1>1, <1>2, TimesMonotone
      <4> QED BY <1>1, <4>1, DivBound
    <3> QED BY <1>1, <1>3, <1>5, <3>1
  <2>2. a \in Nat /\ b \in Nat /\ b - a = s * d
    <3> DEFINE x == sim - t
               y == next - t
    <3>1. y - x = d
      <4>1. sim \in Int /\ next \in Int
        <5>1. (r * P) \div T \in Int /\ (rr * P) \div T \in Int
          <6>1. r * P \in Nat /\ rr * P \in Nat
            BY <1>1, <1>2, TimesMonotone
          <6> QED BY <1>1, <6>1, DivBound
        <5> QED BY <1>1, <1>5, <5>1
      <4> QED BY <1>3, <4>1
    <3>2. x \in Nat /\ y \in Nat
      BY <2>1
    <3> HIDE DEF x, y
    <3>3. s * x \in Nat /\ s * y \in Nat
      BY <1>3, <3>2, TimesMonotone
    <3>4. s * y - s * x = s * (y - x)
      BY <1>3, <3>2
    <3> QED BY <3>1, <3>3, <3>4 DEF x, y
  <2>3. g = (b \div P) - (a \div P)
    BY <1>6
  <2> HIDE DEF a, b, d
  <2> QED BY <1>2, <2>2, <2>3, DifferenceOfQuotients
<1> HIDE DEF d
<1>9. LET error == g * T * P - s * i * P
          bound == T * (P + s)
      IN  -bound < error /\ error < bound
  BY <1>1, <1>2, <1>3, <1>4, <1>7, <1>8, ErrorsAdd
<1> QED BY <1>9 DEF g, T, P, s, i

\* What ProportionalShare says of a step.
ShareStep ==
  now' > now =>
    \A u \in Accounts :
      LET error == Grown(u) * cash.totalBurned * REWARD_PRECISION
                     - cash.burnScore[u] * Inflation * REWARD_PRECISION
          bound == cash.totalBurned * (REWARD_PRECISION + cash.burnScore[u])
      IN  -bound < error /\ error < bound

LEMMA NextShares ==
  ASSUME IInv, [Next]_vars
  PROVE  ShareStep
BY OnlyTickTakesTime, TickShares DEF ShareStep

\* However long a user leaves rewards unclaimed, and whatever others do in the
\* meantime, each second's inflation reaches the user by burn score.
THEOREM ShareIsProportional == Spec => ProportionalShare
<1>1. IInv /\ [Next]_vars => [ShareStep]_vars
  BY NextShares
<1> QED BY <1>1, Invariance, PTL DEF Spec, ProportionalShare, ShareStep
=============================================================================
