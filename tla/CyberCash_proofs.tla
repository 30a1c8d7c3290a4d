-------------------------- MODULE CyberCash_proofs --------------------------
(***************************************************************************)
(* Proofs about CyberCash for any set of accounts and any parameters that  *)
(* satisfy its assumptions.                                                *)
(*                                                                         *)
(* TypeOK is inductive by itself.  The other theorems follow from IInv:    *)
(*   Gated      the two flags of initialize (owner, liquidityPool) agree,  *)
(*              no score exists before it and exempt addresses have none;  *)
(*   Accounted  supply and totalBurned are the sums of what users hold;    *)
(*   Backed     the scaled claims are within the scaled pendingMints;      *)
(*   Scheduled  pendingMints, the accumulator and the supply are within    *)
(*              the inflation up to lastMintTime.                          *)
(* Backed makes the subtraction of mintRewards safe and Scheduled its      *)
(* additions; without Accounted the divisor of the accumulator would not   *)
(* bound what users can claim, and without Gated a score could exist while *)
(* its inflation is not paid.  Each storage operator keeps Good, the part  *)
(* of IInv about one storage, so that the actions, which compose them, do. *)
(***************************************************************************)
EXTENDS CyberCash, SumTheorems, TLAPS

-----------------------------------------------------------------------------
(* Arithmetic. *)

\* Integer division by a positive number.
LEMMA DivBound ==
  ASSUME NEW a \in Nat, NEW b \in Nat \ {0}
  PROVE  /\ a \div b \in Nat
         /\ b * (a \div b) <= a
         /\ a \div b <= a
OBVIOUS

\* Products of natural numbers are, and are monotone.
LEMMA TimesMonotone ==
  ASSUME NEW a \in Nat, NEW b \in Nat, NEW c \in Nat, a <= b
  PROVE  a * c \in Nat /\ a * c <= b * c /\ c * a <= c * b
OBVIOUS

\* An unchecked block stores a uint256, the exact one if nothing overflows.
LEMMA UncheckedUint ==
  ASSUME NEW x \in Int
  PROVE  /\ Unchecked(x) \in Uint
         /\ x \in Uint => Unchecked(x) = x
BY ParameterAssumption DEF Unchecked, Uint
-----------------------------------------------------------------------------
(* Types of the storage operators. *)

\* A reward that does not overflow is a natural number.
LEMMA UserRewardsType ==
  ASSUME NEW s \in Storage, NEW u \in Accounts, CanUserRewards(s, u)
  PROVE  userRewards(s, u) \in Nat
<1>1. s.burnScore[u]
        * (simulatedRewardsPerTokenBurned(s) - s.userRewardsPerTokenBurned[u]) \in Nat
  BY ParameterAssumption DEF CanUserRewards, Uint
<1> QED BY <1>1, ParameterAssumption, DivBound DEF userRewards

\* Settling an account keeps every variable within its Solidity type.
LEMMA MintRewardsType ==
  ASSUME NEW s \in Storage, NEW u \in Accounts, CanMintRewards(s, u), now \in Uint
  PROVE  mintRewards(s, u) \in Storage
<1>1. /\ s.totalSupply + userRewards(s, u) \in Uint
      /\ (s.pendingMints + totalRewards(s)) - userRewards(s, u) \in Uint
      /\ simulatedRewardsPerTokenBurned(s) \in Uint
  BY DEF CanMintRewards, CanMint, CanUserRewards
<1>2. userRewards(s, u) \in Nat /\ s.balances[u] \in Uint
  BY UserRewardsType DEF CanMintRewards, Storage
<1>3. Unchecked(s.balances[u] + userRewards(s, u)) \in Uint
  BY <1>2, UncheckedUint DEF Uint
<1> QED BY <1>1, <1>3 DEF mintRewards, Mint, Storage

\* Burns and moves of natural amounts keep balances and supply in uint256.
LEMMA BurnType ==
  ASSUME NEW s \in Storage, NEW u \in Accounts, NEW x \in Nat, CanBurn(s, u, x)
  PROVE  Burn(s, u, x) \in Storage
<1>1. s.balances[u] - x \in Uint
  BY ParameterAssumption DEF CanBurn, Storage, Uint
<1>2. Unchecked(s.totalSupply - x) \in Uint
  BY UncheckedUint DEF Storage, Uint
<1> QED BY <1>1, <1>2 DEF Burn, Storage

\* So does a transfer, whose debit is checked and whose credit wraps.
LEMMA MoveType ==
  ASSUME NEW s \in Storage, NEW from \in Accounts, NEW to \in Accounts, NEW x \in Nat,
         CanMove(s, from, to, x)
  PROVE  Move(s, from, to, x) \in Storage
<1> DEFINE d == [s EXCEPT !.balances[from] = @ - x]
<1>1. s.balances[from] - x \in Uint
  BY ParameterAssumption DEF CanMove, Storage, Uint
<1>2. d \in Storage
  BY <1>1 DEF Storage
<1> HIDE DEF d
<1>3. Unchecked(d.balances[to] + x) \in Uint
  BY <1>2, UncheckedUint DEF Storage, Uint
<1>4. [d EXCEPT !.balances[to] = Unchecked(@ + x)] \in Storage
  BY <1>2, <1>3 DEF Storage
<1> QED BY <1>4 DEF Move, d

\* The amounts burnOnTransfer burns.
LEMMA BurnedAmounts ==
  ASSUME NEW x \in Nat
  PROVE  burnedFromTx(x) \in Nat /\ burnedFromTx(x) <= x
<1>1. x * BURN_ON_TRANSFER \in Nat /\ x * BURN_ON_TRANSFER <= x * BURN_PRECISION
  BY ParameterAssumption, TimesMonotone
<1>2. /\ burnedFromTx(x) \in Nat
      /\ BURN_PRECISION * burnedFromTx(x) <= x * BURN_PRECISION
  BY <1>1, ParameterAssumption, DivBound DEF burnedFromTx
<1>3. burnedFromTx(x) <= x
  BY <1>2, ParameterAssumption
<1> QED BY <1>2, <1>3

\* The burn from the pool is a natural number, whatever the pool holds.
LEMMA BurnedFromLPType ==
  ASSUME NEW s \in Storage, NEW x \in Nat, s.liquidityPool \in Accounts,
         CanUserRewards(s, s.liquidityPool)
  PROVE  burnedFromLP(s, x) \in Nat
<1>1. balanceOf(s, s.liquidityPool) \in Nat
  BY UserRewardsType DEF balanceOf, Storage, Uint
<1>2. canBurnFromLP(s) \in Nat
  BY <1>1, ParameterAssumption DEF canBurnFromLP
<1>3. x * BURN_FROM_LP \in Nat
  BY ParameterAssumption
<1>4. (x * BURN_FROM_LP) \div BURN_PRECISION \in Nat
  BY <1>3, ParameterAssumption, DivBound
<1> QED BY <1>2, <1>4 DEF burnedFromLP

\* Taxing a transfer keeps every variable within its type.
LEMMA BurnOnTransferType ==
  ASSUME NEW s \in Storage, NEW u \in Accounts, NEW x \in Nat,
         s.liquidityPool \in Accounts, CanBurnOnTransfer(s, u, x)
  PROVE  burnOnTransfer(s, u, x) \in Storage
<1> DEFINE a == Burn(s, u, burnedFromTx(x))
           b == Burn(a, s.liquidityPool, burnedFromLP(s, x))
<1>1. burnedFromTx(x) \in Nat
  BY BurnedAmounts
<1>2. burnedFromLP(s, x) \in Nat
  BY BurnedFromLPType DEF CanBurnOnTransfer
<1>3. a \in Storage
  BY <1>1, BurnType DEF CanBurnOnTransfer
<1>4. b \in Storage
  BY <1>2, <1>3, BurnType DEF CanBurnOnTransfer
<1>5. b.totalBurned = s.totalBurned /\ b.burnScore = s.burnScore
  BY DEF Burn, Storage
<1> HIDE DEF b
<1>6. b.totalBurned + burnedFromTx(x) \in Uint /\ b.burnScore[u] + burnedFromTx(x) \in Uint
  BY <1>5 DEF CanBurnOnTransfer
<1>7. [b EXCEPT !.totalBurned = @ + burnedFromTx(x),
                !.burnScore[u] = @ + burnedFromTx(x)] \in Storage
  BY <1>4, <1>6 DEF Storage
<1> QED BY <1>7 DEF burnOnTransfer, b

\* The three stages of a transfer.
LEMMA SettledType ==
  ASSUME NEW s \in Storage, NEW from \in Accounts, now \in Uint,
         Initialized(s) => CanMintRewards(s, from)
  PROVE  Settled(s, from) \in Storage
BY MintRewardsType DEF Settled

\* Settling changes neither the pool, nor who is exempt, nor any score or allowance.
LEMMA SettledFields ==
  ASSUME NEW s \in Storage, NEW from \in Accounts
  PROVE  /\ Settled(s, from).liquidityPool = s.liquidityPool
         /\ Settled(s, from).exemptedAddresses = s.exemptedAddresses
         /\ Settled(s, from).owner = s.owner
         /\ Settled(s, from).burnScore = s.burnScore
         /\ Settled(s, from).totalBurned = s.totalBurned
         /\ Settled(s, from).allowances = s.allowances
BY DEF Settled, mintRewards, Mint, Storage

\* Hence a transfer is taxed before the settlement iff it is after it.
LEMMA TaxedSettled ==
  ASSUME NEW s \in Storage, NEW from \in Accounts, NEW to
  PROVE  Taxed(Settled(s, from), from, to) <=> Taxed(s, from, to)
BY SettledFields DEF Taxed, Initialized

\* The body of transfer and transferFrom keeps every variable within its type.
LEMMA SendType ==
  ASSUME NEW s \in Storage, NEW from \in Accounts, NEW to \in Addresses,
         NEW x \in Uint, now \in Uint, CanSend(s, from, to, x)
  PROVE  Send(s, from, to, x) \in Storage
<1> DEFINE p == Settled(s, from)
           q == Burnt(p, from, to, x)
           y == SentAmount(s, from, to, x)
<1>1. p \in Storage
  BY SettledType DEF CanSend
<1>2. q \in Storage
  <2>1. CASE Taxed(s, from, to)
    <3>1. p.liquidityPool \in Accounts
      BY <1>1, <2>1, SettledFields DEF Taxed, Initialized, Storage, Addresses
    <3>2. CanBurnOnTransfer(p, from, x)
      BY <2>1 DEF CanSend
    <3>3. burnOnTransfer(p, from, x) \in Storage
      BY <1>1, <3>1, <3>2, BurnOnTransferType DEF Uint
    <3> QED BY <2>1, <3>3, TaxedSettled DEF Burnt
  <2>2. CASE ~ Taxed(s, from, to)
    BY <1>1, <2>2, TaxedSettled DEF Burnt
  <2> QED BY <2>1, <2>2
<1>3. y \in Nat
  BY BurnedAmounts DEF SentAmount, Uint
<1>4. to \in Accounts /\ CanMove(q, from, to, y)
  BY DEF CanSend, CanMove, Addresses
<1> HIDE DEF p, q, y
<1>5. Move(q, from, to, y) \in Storage
  BY <1>2, <1>3, <1>4, MoveType
<1> QED BY <1>5 DEF Send, p, q, y

\* Allowances.
LEMMA ApproveType ==
  ASSUME NEW s \in Storage, NEW o \in Accounts, NEW p \in Accounts, NEW x \in Uint
  PROVE  Approve(s, o, p, x) \in Storage
BY DEF Approve, Storage

\* So does spending an allowance, infinite or not.
LEMMA SpendAllowanceType ==
  ASSUME NEW s \in Storage, NEW o \in Accounts, NEW p \in Accounts, NEW x \in Uint,
         CanSpendAllowance(s, o, p, x)
  PROVE  SpendAllowance(s, o, p, x) \in Storage
<1>1. s.allowances[o][p] - x \in Uint
  BY ParameterAssumption DEF CanSpendAllowance, Storage, Uint
<1> QED BY <1>1, ApproveType DEF SpendAllowance

\* So does moving burn score, also when an account gives it to itself.
LEMMA ScoreMovedType ==
  ASSUME NEW s \in Storage, NEW from \in Accounts, NEW to \in Accounts, NEW x \in Uint,
         x <= s.burnScore[from], ScoreMoved(s, from, to, x).burnScore[to] \in Uint
  PROVE  ScoreMoved(s, from, to, x) \in Storage
<1> DEFINE d == [s EXCEPT !.burnScore[from] = @ - x]
<1>1. s.burnScore[from] - x \in Uint
  BY ParameterAssumption DEF Storage, Uint
<1>2. d \in Storage
  BY <1>1 DEF Storage
<1> HIDE DEF d
<1>3. ScoreMoved(s, from, to, x) = [d EXCEPT !.burnScore[to] = @ + x]
  BY DEF ScoreMoved, d
<1>4. d.burnScore[to] + x \in Uint
  BY <1>2, <1>3 DEF Storage
<1>5. [d EXCEPT !.burnScore[to] = @ + x] \in Storage
  BY <1>2, <1>4 DEF Storage
<1> QED BY <1>3, <1>5
-----------------------------------------------------------------------------
(* Type correctness. *)

\* The constructor leaves well-typed storage.
LEMMA InitType == Init => TypeOK
<1> SUFFICES ASSUME Init PROVE cash \in Storage /\ now \in 0 .. MaxTime
  BY DEF TypeOK
<1>1. INITIAL_SUPPLY \in Uint /\ 1 \in Uint /\ 0 \in Uint
  <2>1. MINT_PER_SECOND * MaxTime \in Nat
    BY ParameterAssumption
  <2> QED BY <2>1, ParameterAssumption, HeadroomAssumption DEF MaxSupply, Uint
<1>2. now \in 0 .. MaxTime
  BY ParameterAssumption DEF Init
<1>3. cash \in Storage
  BY <1>1, AddressAssumption DEF Init, Storage, Addresses
<1> QED BY <1>2, <1>3

\* Every transaction and every second leaves well-typed storage.
LEMMA NextType == TypeOK /\ [Next]_vars => TypeOK'
<1> SUFFICES ASSUME cash \in Storage, now \in 0 .. MaxTime, [Next]_vars
             PROVE  cash' \in Storage /\ now' \in 0 .. MaxTime
  BY DEF TypeOK
<1>0. now \in Uint
  BY ParameterAssumption, HeadroomAssumption DEF Uint
<1>1. ASSUME NEW c \in Accounts, NEW p \in Pools, NEW m \in Migrators, initialize(c, p, m)
      PROVE  cash' \in Storage /\ now' \in 0 .. MaxTime
  <2>1. p \in Accounts /\ m \in Accounts
    BY <1>1, AddressAssumption DEF initialize, Addresses
  <2> QED BY <1>0, <1>1, <2>1 DEF initialize, Storage, Addresses
<1>2. ASSUME NEW f \in Accounts, NEW t \in Addresses, NEW x \in Amounts, transfer(f, t, x)
      PROVE  cash' \in Storage /\ now' \in 0 .. MaxTime
  BY <1>0, <1>2, ParameterAssumption, SendType DEF transfer
<1>3. ASSUME NEW c \in Accounts, NEW f \in Accounts, NEW t \in Addresses, NEW x \in Amounts,
             transferFrom(c, f, t, x)
      PROVE  cash' \in Storage /\ now' \in 0 .. MaxTime
  <2>1. SpendAllowance(cash, f, c, x) \in Storage
    BY <1>3, ParameterAssumption, SpendAllowanceType DEF transferFrom
  <2> QED BY <1>0, <1>3, <2>1, ParameterAssumption, SendType DEF transferFrom
<1>4. ASSUME NEW f \in Accounts, NEW t \in Addresses, NEW x \in Amounts,
             transferBurnScore(f, t, x)
      PROVE  cash' \in Storage /\ now' \in 0 .. MaxTime
  <2> DEFINE a == mintRewards(cash, f)
             b == mintRewards(a, t)
  <2>1. t \in Accounts /\ x <= cash.burnScore[f] /\ x \in Uint
    BY <1>4, ParameterAssumption DEF transferBurnScore, CanMoveScore, Addresses
  <2>2. a \in Storage /\ a.burnScore = cash.burnScore
    <3>1. a \in Storage
      BY <1>0, <1>4, MintRewardsType DEF transferBurnScore
    <3>2. a.burnScore = cash.burnScore
      BY DEF mintRewards, Mint, Storage
    <3> QED BY <3>1, <3>2
  <2>3. b \in Storage
    BY <1>0, <1>4, <2>1, <2>2, MintRewardsType DEF transferBurnScore
  <2>4. b.burnScore = a.burnScore
    BY <2>2 DEF mintRewards, Mint, Storage
  <2>5. cash' = ScoreMoved(b, f, t, x) /\ cash'.burnScore[t] \in Uint
    BY <1>4 DEF transferBurnScore
  <2> HIDE DEF b
  <2>6. cash' \in Storage
    BY <2>1, <2>2, <2>3, <2>4, <2>5, ScoreMovedType
  <2> QED BY <1>4, <2>6 DEF transferBurnScore
<1>5. ASSUME NEW o \in Accounts, NEW p \in Spenders, NEW x \in Approvals, approve(o, p, x)
      PROVE  cash' \in Storage /\ now' \in 0 .. MaxTime
  <2>1. p \in Accounts /\ x \in Uint
    BY <1>5, AddressAssumption, ParameterAssumption DEF approve, Addresses
  <2> QED BY <1>5, <2>1, ApproveType DEF approve
<1>6. ASSUME NEW o \in Accounts, NEW p \in Spenders, NEW x \in Approvals,
             increaseAllowance(o, p, x)
      PROVE  cash' \in Storage /\ now' \in 0 .. MaxTime
  <2>1. p \in Accounts
    BY <1>6, AddressAssumption DEF increaseAllowance, Addresses
  <2> QED BY <1>6, <2>1, ApproveType DEF increaseAllowance
<1>7. ASSUME NEW o \in Accounts, NEW p \in Spenders, NEW x \in Approvals,
             decreaseAllowance(o, p, x)
      PROVE  cash' \in Storage /\ now' \in 0 .. MaxTime
  <2>1. p \in Accounts /\ x \in Uint
    BY <1>7, AddressAssumption, ParameterAssumption DEF decreaseAllowance, Addresses
  <2>2. cash.allowances[o][p] - x \in Uint
    BY <1>7, <2>1, ParameterAssumption DEF decreaseAllowance, Storage, Uint
  <2> QED BY <1>7, <2>1, <2>2, ApproveType DEF decreaseAllowance
<1>8. CASE Tick
  <2>1. now' \in 0 .. MaxTime
    BY <1>8, ParameterAssumption DEF Tick
  <2> QED BY <1>8, <2>1 DEF Tick
<1>9. CASE UNCHANGED vars
  BY <1>9 DEF vars
<1> QED BY <1>1, <1>2, <1>3, <1>4, <1>5, <1>6, <1>7, <1>8, <1>9 DEF Next

\* Every storage variable of the contract always holds a value of its Solidity
\* type: no transaction stores a difference below zero or a wrapped balance.
THEOREM TypeCorrect == Spec => []TypeOK
<1> QED BY InitType, NextType, PTL DEF Spec
-----------------------------------------------------------------------------
(* The inductive invariant. *)

\* What one state of the contract's storage satisfies, whatever the time is.
Gated(s) ==
  /\ s.owner = ZeroAddress <=> Initialized(s)
  /\ Initialized(s) => s.liquidityPool \in s.exemptedAddresses
  /\ ~ Initialized(s) => \A u \in Accounts : s.burnScore[u] = 0
  /\ \A x \in s.exemptedAddresses : s.burnScore[x] = 0

Accounted(s) ==
  /\ Total(s.balances) = s.totalSupply
  /\ s.totalBurned = Total(s.burnScore) + 1

Backed(s) ==
  /\ \A u \in Accounts : s.userRewardsPerTokenBurned[u] <= s.rewardsPerTokenBurned
  /\ Total(claims(s)) <= REWARD_PRECISION * s.pendingMints

\* Nothing was minted that inflation up to lastMintTime does not pay for.
Scheduled(s) ==
  LET inflation == MINT_PER_SECOND * s.lastMintTime
  IN  /\ s.pendingMints <= inflation
      /\ s.rewardsPerTokenBurned <= inflation * REWARD_PRECISION
      /\ s.totalSupply + s.pendingMints + s.totalBurned - 1 <= INITIAL_SUPPLY + inflation

Good(s) == s \in Storage /\ Gated(s) /\ Accounted(s) /\ Backed(s) /\ Scheduled(s)

IInv == Good(cash) /\ now \in 0 .. MaxTime /\ cash.lastMintTime <= now
-----------------------------------------------------------------------------
(* Settlement. *)

\* What everybody could claim if the accumulator were brought up to date.
claimsNow(s) ==
  [u \in Accounts |->
     s.burnScore[u]
       * (simulatedRewardsPerTokenBurned(s) - s.userRewardsPerTokenBurned[u])]

\* A sum of natural numbers is one, and no term exceeds it.
LEMMA SumBounds ==
  ASSUME NEW f \in [Accounts -> Nat]
  PROVE  Total(f) \in Nat /\ \A u \in Accounts : f[u] \in 0 .. Total(f)
<1>1. f \in [Accounts -> Int] /\ \A u \in Accounts : f[u] >= 0
  OBVIOUS
<1>2. SumFunctionOnSet(f, Accounts) \in Int
  BY <1>1, AddressAssumption, SumType
<1>3. /\ SumFunctionOnSet(f, Accounts) >= 0
      /\ \A u \in Accounts : f[u] <= SumFunctionOnSet(f, Accounts)
  BY <1>1, AddressAssumption, SumNonNeg
<1> QED BY <1>1, <1>2, <1>3 DEF Total

\* The divisor of the rewards is positive and exceeds every score.
LEMMA TotalBurnedPositive ==
  ASSUME NEW s, Good(s)
  PROVE  /\ s.totalBurned \in Nat \ {0}
         /\ \A u \in Accounts : s.burnScore[u] \in 0 .. s.totalBurned - 1
<1>1. s.burnScore \in [Accounts -> Nat]
  BY DEF Good, Storage, Uint
<1>2. Total(s.burnScore) \in Nat /\ \A u \in Accounts : s.burnScore[u] \in 0 .. Total(s.burnScore)
  BY <1>1, SumBounds
<1> QED BY <1>2 DEF Good, Accounted

\* The accumulator's increase, multiplied back, is at most the inflation.
LEMMA AddedBound ==
  ASSUME NEW s, Good(s), now \in 0 .. MaxTime, s.lastMintTime <= now
  PROVE  /\ totalRewards(s) \in 0 .. MINT_PER_SECOND * (now - s.lastMintTime)
         /\ totalRewards(s) * REWARD_PRECISION \in Nat
         /\ \E d \in Nat :
              /\ simulatedRewardsPerTokenBurned(s) = s.rewardsPerTokenBurned + d
              /\ s.totalBurned * d <= totalRewards(s) * REWARD_PRECISION
              /\ d <= totalRewards(s) * REWARD_PRECISION
<1> DEFINE a == totalRewards(s)
           d == (a * REWARD_PRECISION) \div s.totalBurned
<1>1. now - s.lastMintTime \in Nat
  BY ParameterAssumption DEF Good, Storage, Uint
<1>2. MINT_PER_SECOND * (now - s.lastMintTime) \in Nat
  BY <1>1, ParameterAssumption
<1>3. a \in 0 .. MINT_PER_SECOND * (now - s.lastMintTime)
  BY <1>2 DEF totalRewards
<1> HIDE DEF a
<1>4. a * REWARD_PRECISION \in Nat
  BY <1>3, ParameterAssumption
<1>5. d \in Nat /\ s.totalBurned * d <= a * REWARD_PRECISION /\ d <= a * REWARD_PRECISION
  BY <1>4, TotalBurnedPositive, DivBound
<1>6. simulatedRewardsPerTokenBurned(s) = s.rewardsPerTokenBurned + d
  BY DEF simulatedRewardsPerTokenBurned, a
<1> HIDE DEF d
<1> QED BY <1>3, <1>4, <1>5, <1>6 DEF a

\* Solvency up to date: with the inflation since the last mint, pendingMints
\* covers all that could be claimed now.
LEMMA ClaimsNow ==
  ASSUME NEW s, Good(s), now \in 0 .. MaxTime, s.lastMintTime <= now
  PROVE  /\ claimsNow(s) \in [Accounts -> Nat]
         /\ Total(claimsNow(s)) \in Nat
         /\ Total(claimsNow(s)) <= REWARD_PRECISION * (s.pendingMints + totalRewards(s))
<1> DEFINE a == totalRewards(s)
           T == s.totalBurned
           c == claims(s)
           h == claimsNow(s)
           b == s.burnScore
<1>1. PICK d \in Nat : /\ simulatedRewardsPerTokenBurned(s) = s.rewardsPerTokenBurned + d
                       /\ T * d <= a * REWARD_PRECISION
  BY AddedBound
<1>2. a \in Nat /\ a * REWARD_PRECISION \in Nat /\ s.pendingMints \in Nat /\ T \in Nat \ {0}
  <2>1. a \in Int /\ a >= 0 /\ a * REWARD_PRECISION \in Nat
    BY AddedBound
  <2> QED BY <2>1, TotalBurnedPositive DEF Good, Storage, Uint
<1>3. ASSUME NEW u \in Accounts
      PROVE  c[u] \in Nat /\ h[u] \in Nat /\ h[u] = c[u] + d * b[u]
  <2> DEFINE e == s.rewardsPerTokenBurned - s.userRewardsPerTokenBurned[u]
  <2>1. b[u] \in Nat /\ e \in Nat
    BY DEF Good, Backed, Storage, Uint
  <2>2. c[u] = b[u] * e
    BY DEF claims
  <2>3. h[u] = b[u] * (e + d)
    <3>1. simulatedRewardsPerTokenBurned(s) - s.userRewardsPerTokenBurned[u] = e + d
      BY <1>1 DEF Good, Storage, Uint
    <3> QED BY <3>1 DEF claimsNow
  <2> HIDE DEF e, c, h, b
  <2>4. b[u] * (e + d) = b[u] * e + d * b[u]
    BY <2>1
  <2>5. b[u] * e \in Nat /\ d * b[u] \in Nat
    BY <2>1
  <2> QED BY <2>2, <2>3, <2>4, <2>5
<1>4. c \in [Accounts -> Int] /\ h \in [Accounts -> Nat] /\ h \in [Accounts -> Int]
  <2>1. DOMAIN c = Accounts /\ DOMAIN h = Accounts
    BY DEF claims, claimsNow
  <2>2. c = [u \in Accounts |-> c[u]] /\ h = [u \in Accounts |-> h[u]]
    BY DEF claims, claimsNow
  <2> HIDE DEF c, h
  <2> QED BY <2>1, <2>2, <1>3
<1>5. b \in [Accounts -> Int]
  BY DEF Good, Storage, Uint
<1> HIDE DEF c, h, b, a, T
<1>6. Total(h) = Total(c) + d * Total(b)
  BY <1>3, <1>4, <1>5, AddressAssumption, SumLinear DEF Total
<1>7. Total(b) = T - 1 /\ Total(c) <= REWARD_PRECISION * s.pendingMints
  <2>1. Total(b) \in Int
    BY <1>5, AddressAssumption, SumType DEF Total
  <2> QED BY <2>1, <1>2 DEF Good, Accounted, Backed, b, c, T
<1>8. Total(h) \in Nat /\ Total(c) \in Int
  BY <1>4, SumBounds, AddressAssumption, SumType DEF Total
<1>9. d * (T - 1) <= a * REWARD_PRECISION
  <2>1. d * (T - 1) <= T * d
    BY <1>2
  <2> QED BY <2>1, <1>1, <1>2
<1>10. REWARD_PRECISION * (s.pendingMints + a)
         = REWARD_PRECISION * s.pendingMints + a * REWARD_PRECISION
  BY <1>2, ParameterAssumption
<1>11. REWARD_PRECISION * s.pendingMints \in Nat /\ d * (T - 1) \in Nat
  BY <1>2, ParameterAssumption
<1>12. Total(h) <= REWARD_PRECISION * (s.pendingMints + a)
  BY <1>2, <1>6, <1>7, <1>8, <1>9, <1>10, <1>11
<1> QED BY <1>4, <1>8, <1>12 DEF h, a

\* A user's reward is covered by what is pending.
LEMMA RewardBound ==
  ASSUME NEW s, Good(s), now \in 0 .. MaxTime, s.lastMintTime <= now, NEW u \in Accounts
  PROVE  /\ userRewards(s, u) \in Nat
         /\ REWARD_PRECISION * userRewards(s, u) <= claimsNow(s)[u]
         /\ userRewards(s, u) <= s.pendingMints + totalRewards(s)
<1> DEFINE h == claimsNow(s)[u]
           r == userRewards(s, u)
           m == s.pendingMints + totalRewards(s)
<1>1. h \in Nat /\ h <= REWARD_PRECISION * m
  <2>1. h \in 0 .. Total(claimsNow(s))
    BY ClaimsNow, SumBounds
  <2>2. Total(claimsNow(s)) \in Nat /\ Total(claimsNow(s)) <= REWARD_PRECISION * m
    BY ClaimsNow
  <2>3. m \in Nat
    BY AddedBound DEF Good, Storage, Uint
  <2>4. REWARD_PRECISION * m \in Nat
    BY <2>3, ParameterAssumption
  <2> HIDE DEF h, m
  <2> QED BY <2>1, <2>2, <2>4
<1>2. m \in Nat
  BY AddedBound DEF Good, Storage, Uint
<1>3. r = h \div REWARD_PRECISION
  BY DEF userRewards, claimsNow
<1> HIDE DEF h, r, m
<1>4. r \in Nat /\ REWARD_PRECISION * r <= h
  BY <1>1, <1>3, ParameterAssumption, DivBound
<1>5. r <= m
  <2>1. SUFFICES ASSUME r >= m + 1 PROVE FALSE
    BY <1>2, <1>4
  <2>2. REWARD_PRECISION * (m + 1) <= REWARD_PRECISION * r
    BY <1>2, <1>4, <2>1, ParameterAssumption, TimesMonotone
  <2>3. REWARD_PRECISION * (m + 1) = REWARD_PRECISION * m + REWARD_PRECISION
    BY <1>2, ParameterAssumption
  <2>4. REWARD_PRECISION * m \in Nat /\ REWARD_PRECISION * r \in Nat
    BY <1>2, <1>4, ParameterAssumption
  <2> QED BY <1>1, <1>4, <2>2, <2>3, <2>4, ParameterAssumption
<1> QED BY <1>4, <1>5 DEF h, r, m

\* The inflation of the past and of the time since adds up.
LEMMA InflationSplit ==
  ASSUME NEW l \in Nat, NEW n \in 0 .. MaxTime, l <= n
  PROVE  /\ MINT_PER_SECOND * l \in Nat
         /\ MINT_PER_SECOND * n \in Nat
         /\ MINT_PER_SECOND * n = MINT_PER_SECOND * l + MINT_PER_SECOND * (n - l)
         /\ MINT_PER_SECOND * n <= MINT_PER_SECOND * MaxTime
         /\ MINT_PER_SECOND * MaxTime \in Nat
<1>1. n \in Nat /\ n - l \in Nat /\ n <= MaxTime /\ MaxTime \in Nat
  BY ParameterAssumption
<1>2. MINT_PER_SECOND * n = MINT_PER_SECOND * l + MINT_PER_SECOND * (n - l)
  BY <1>1, ParameterAssumption
<1>3. MINT_PER_SECOND * n <= MINT_PER_SECOND * MaxTime
  BY <1>1, ParameterAssumption, TimesMonotone
<1> QED BY <1>1, <1>2, <1>3, ParameterAssumption

\* The bounds of Scheduled, with the inflation up to now.
LEMMA ScheduledNow ==
  ASSUME NEW s, Good(s), now \in 0 .. MaxTime, s.lastMintTime <= now
  PROVE  LET m == s.pendingMints + totalRewards(s)
         IN  /\ m \in Nat
             /\ m <= MINT_PER_SECOND * now
             /\ simulatedRewardsPerTokenBurned(s) \in Nat
             /\ simulatedRewardsPerTokenBurned(s) <= MINT_PER_SECOND * now * REWARD_PRECISION
             /\ s.totalSupply + m + s.totalBurned - 1 <= INITIAL_SUPPLY + MINT_PER_SECOND * now
<1> DEFINE a == totalRewards(s)
           i == MINT_PER_SECOND * s.lastMintTime
           j == MINT_PER_SECOND * (now - s.lastMintTime)
           k == MINT_PER_SECOND * now
           rpt == s.rewardsPerTokenBurned
           sim == simulatedRewardsPerTokenBurned(s)
<1>1. s.lastMintTime \in Nat
  BY DEF Good, Storage, Uint
<1>2. i \in Nat /\ k \in Nat /\ k = i + j /\ j \in Int
  BY <1>1, InflationSplit, ParameterAssumption
<1>3. a \in Nat /\ a <= j
  BY AddedBound, <1>2
<1>4. /\ s.pendingMints \in Nat /\ s.pendingMints <= i
      /\ rpt \in Nat /\ rpt <= i * REWARD_PRECISION
      /\ s.totalSupply \in Nat
      /\ s.totalSupply + s.pendingMints + s.totalBurned - 1 <= INITIAL_SUPPLY + i
  BY DEF Good, Storage, Uint, Scheduled
<1>5. PICK d \in Nat : sim = rpt + d /\ d <= a * REWARD_PRECISION
  BY AddedBound
<1>6. s.totalBurned \in Nat
  BY TotalBurnedPositive
<1> HIDE DEF a, i, j, k, rpt, sim
<1>7. k * REWARD_PRECISION = i * REWARD_PRECISION + j * REWARD_PRECISION
  BY <1>2, ParameterAssumption
<1>8. a * REWARD_PRECISION <= j * REWARD_PRECISION
  BY <1>2, <1>3, ParameterAssumption, TimesMonotone
<1>9. /\ i * REWARD_PRECISION \in Nat
      /\ a * REWARD_PRECISION \in Nat
      /\ j * REWARD_PRECISION \in Int
      /\ k * REWARD_PRECISION \in Nat
  BY <1>2, <1>3, ParameterAssumption
<1>10. sim \in Nat /\ sim <= k * REWARD_PRECISION
  BY <1>4, <1>5, <1>7, <1>8, <1>9
<1>11. /\ s.pendingMints + a \in Nat
       /\ s.pendingMints + a <= k
       /\ s.totalSupply + (s.pendingMints + a) + s.totalBurned - 1 <= INITIAL_SUPPLY + k
  BY <1>2, <1>3, <1>4, <1>6, ParameterAssumption
<1> QED BY <1>10, <1>11 DEF a, k, sim

\* Settling any account succeeds.
LEMMA SettlementSucceeds ==
  ASSUME NEW s, Good(s), now \in 0 .. MaxTime, s.lastMintTime <= now, NEW u \in Accounts
  PROVE  CanMintRewards(s, u)
<1> DEFINE a == totalRewards(s)
           m == s.pendingMints + a
           r == userRewards(s, u)
           k == MINT_PER_SECOND * now
           K == MINT_PER_SECOND * MaxTime
           h == claimsNow(s)[u]
<1>1. now - s.lastMintTime \in Uint
  BY ParameterAssumption, HeadroomAssumption DEF Good, Storage, Uint
<1>2. k \in Nat /\ K \in Nat /\ k <= K
  BY InflationSplit, ParameterAssumption
<1>3. k * REWARD_PRECISION \in Nat /\ k * REWARD_PRECISION <= K * REWARD_PRECISION
  BY <1>2, ParameterAssumption, TimesMonotone
<1>4. K * REWARD_PRECISION <= MaxUint /\ INITIAL_SUPPLY + K + 1 <= MaxUint /\ MaxUint \in Nat
  BY <1>2, HeadroomAssumption, ParameterAssumption DEF MaxSupply, Uint
<1>5. /\ m \in Nat /\ m <= k
      /\ simulatedRewardsPerTokenBurned(s) \in Nat
      /\ simulatedRewardsPerTokenBurned(s) <= k * REWARD_PRECISION
      /\ s.totalSupply + m + s.totalBurned - 1 <= INITIAL_SUPPLY + k
  BY ScheduledNow
<1>6. s.totalBurned \in Nat \ {0} /\ s.totalSupply \in Nat /\ s.pendingMints \in Nat
  BY TotalBurnedPositive DEF Good, Storage, Uint
<1>7. r \in Nat /\ r <= m
  BY RewardBound
<1>8. h \in Nat /\ h <= k * REWARD_PRECISION
  <2>1. h \in 0 .. Total(claimsNow(s))
    BY ClaimsNow, SumBounds
  <2>2. Total(claimsNow(s)) \in Nat /\ Total(claimsNow(s)) <= REWARD_PRECISION * m
    BY ClaimsNow
  <2>3. REWARD_PRECISION * m <= k * REWARD_PRECISION /\ REWARD_PRECISION * m \in Nat
    <3> HIDE DEF m, k
    <3>1. m * REWARD_PRECISION <= k * REWARD_PRECISION
      BY <1>2, <1>5, ParameterAssumption, TimesMonotone
    <3>2. REWARD_PRECISION * m = m * REWARD_PRECISION /\ m * REWARD_PRECISION \in Nat
      BY <1>5, ParameterAssumption
    <3> QED BY <3>1, <3>2
  <2> HIDE DEF h, m, k
  <2> QED BY <1>3, <2>1, <2>2, <2>3
<1>9. a * REWARD_PRECISION \in Nat /\ a * REWARD_PRECISION <= k * REWARD_PRECISION
  <2>1. a \in Nat
    BY AddedBound
  <2>2. a <= m
    BY <1>6, <2>1
  <2> HIDE DEF a, m, k
  <2> QED BY <2>1, <2>2, <1>2, <1>5, ParameterAssumption, TimesMonotone
<1>10. CanUserRewards(s, u)
  <2> DEFINE top == k * REWARD_PRECISION
  <2>0. top \in Nat /\ top <= MaxUint
    <3> HIDE DEF k, K
    <3>1. K * REWARD_PRECISION \in Nat
      BY <1>2, ParameterAssumption
    <3> QED BY <1>3, <1>4, <3>1
  <2>1. totalRewards(s) * REWARD_PRECISION \in Uint
    <3>1. a * REWARD_PRECISION <= top /\ a * REWARD_PRECISION \in Nat
      BY <1>9
    <3> DEFINE x == a * REWARD_PRECISION
    <3> HIDE DEF top, x
    <3>2. x \in Uint
      BY <2>0, <3>1, <1>4 DEF Uint, x
    <3> QED BY <3>2 DEF x
  <2>2. simulatedRewardsPerTokenBurned(s) \in Uint
    <3>1. simulatedRewardsPerTokenBurned(s) <= top
      BY <1>5
    <3> HIDE DEF top
    <3> QED BY <2>0, <3>1, <1>4, <1>5 DEF Uint
  <2>3. simulatedRewardsPerTokenBurned(s) - s.userRewardsPerTokenBurned[u] \in Uint
    <3>1. PICK d \in Nat : simulatedRewardsPerTokenBurned(s) = s.rewardsPerTokenBurned + d
      BY AddedBound
    <3>2. /\ s.rewardsPerTokenBurned \in Nat
          /\ s.userRewardsPerTokenBurned[u] \in Nat
          /\ s.userRewardsPerTokenBurned[u] <= s.rewardsPerTokenBurned
      BY DEF Good, Backed, Storage, Uint
    <3> QED BY <2>2, <3>1, <3>2, ParameterAssumption DEF Uint
  <2>4. h \in Uint
    <3>1. h <= top
      BY <1>8
    <3> HIDE DEF top, h
    <3> QED BY <2>0, <3>1, <1>4, <1>8 DEF Uint
  <2>5. s.burnScore[u]
          * (simulatedRewardsPerTokenBurned(s) - s.userRewardsPerTokenBurned[u]) \in Uint
    BY <2>4 DEF claimsNow
  <2> QED BY <1>1, <1>6, <2>1, <2>2, <2>3, <2>5 DEF CanUserRewards
<1>11. CanMint(s, u, r)
  <2>1. u # ZeroAddress
    BY AddressAssumption
  <2>2. s.totalSupply + r \in Uint
    <3> HIDE DEF r, m, k, K
    <3> QED BY <1>2, <1>4, <1>5, <1>6, <1>7, ParameterAssumption DEF Uint
  <2> QED BY <2>1, <2>2 DEF CanMint
<1>12. m \in Uint /\ m - r \in Uint
  <2> HIDE DEF r, m, k, K
  <2> QED BY <1>2, <1>4, <1>5, <1>7, ParameterAssumption DEF Uint
<1>13. /\ s.pendingMints + totalRewards(s) \in Uint
       /\ (s.pendingMints + totalRewards(s)) - userRewards(s, u) \in Uint
  BY <1>12
<1> HIDE DEF a, m, r, k, K, h
<1>14. CanMint(s, u, userRewards(s, u))
  BY <1>11 DEF r
<1> QED BY <1>10, <1>13, <1>14 DEF CanMintRewards

\* What mintRewards changes.
LEMMA MintRewardsFields ==
  ASSUME NEW s \in Storage, NEW u \in Accounts
  PROVE  LET r == userRewards(s, u)
             t == mintRewards(s, u)
         IN  /\ t.balances = [s.balances EXCEPT ![u] = Unchecked(s.balances[u] + r)]
             /\ t.totalSupply = s.totalSupply + r
             /\ t.owner = s.owner
             /\ t.liquidityPool = s.liquidityPool
             /\ t.exemptedAddresses = s.exemptedAddresses
             /\ t.rewardsPerTokenBurned = simulatedRewardsPerTokenBurned(s)
             /\ t.userRewardsPerTokenBurned =
                  [s.userRewardsPerTokenBurned EXCEPT ![u] = simulatedRewardsPerTokenBurned(s)]
             /\ t.lastMintTime = now
             /\ t.pendingMints = (s.pendingMints + totalRewards(s)) - r
             /\ t.totalBurned = s.totalBurned
             /\ t.burnScore = s.burnScore
BY DEF mintRewards, Mint, Storage

\* Totals of functions that differ at one account.
LEMMA TotalUpdate ==
  ASSUME NEW f \in [Accounts -> Int], NEW g \in [Accounts -> Int], NEW u \in Accounts,
         \A w \in Accounts : w # u => g[w] = f[w]
  PROVE  Total(g) = (Total(f) - f[u]) + g[u]
<1>1. IsFiniteSet(Accounts)
  BY AddressAssumption
<1> QED BY <1>1, SumUpdate DEF Total

\* Adding to one balance what is added to the supply keeps them in step, and
\* the unchecked addition does not wrap.
LEMMA CreditKeepsTotal ==
  ASSUME NEW f \in [Accounts -> Nat], NEW u \in Accounts, NEW x \in Nat,
         Total(f) + x \in Uint
  PROVE  /\ Unchecked(f[u] + x) = f[u] + x
         /\ Total([f EXCEPT ![u] = f[u] + x]) = Total(f) + x
<1> DEFINE g == [f EXCEPT ![u] = f[u] + x]
<1>1. Total(f) \in Nat /\ f[u] \in 0 .. Total(f)
  BY SumBounds
<1>2. f[u] + x \in Uint
  BY <1>1, ParameterAssumption DEF Uint
<1>3. /\ f \in [Accounts -> Int] /\ g \in [Accounts -> Int]
      /\ g[u] = f[u] + x
      /\ \A w \in Accounts : w # u => g[w] = f[w]
  OBVIOUS
<1> HIDE DEF g
<1>4. Total(g) = (Total(f) - f[u]) + g[u]
  BY <1>3, TotalUpdate
<1>5. Total(g) = Total(f) + x
  BY <1>1, <1>3, <1>4
<1> QED BY <1>2, <1>1, <1>5, UncheckedUint DEF g

\* Taking from one balance what it has keeps the total in step.
LEMMA DebitKeepsTotal ==
  ASSUME NEW f \in [Accounts -> Nat], NEW u \in Accounts, NEW x \in Nat, x <= f[u]
  PROVE  /\ [f EXCEPT ![u] = f[u] - x] \in [Accounts -> Nat]
         /\ Total([f EXCEPT ![u] = f[u] - x]) = Total(f) - x
         /\ x <= Total(f)
<1> DEFINE g == [f EXCEPT ![u] = f[u] - x]
<1>1. Total(f) \in Nat /\ f[u] \in 0 .. Total(f)
  BY SumBounds
<1>2. f[u] - x \in Nat
  OBVIOUS
<1>3. /\ f \in [Accounts -> Int] /\ g \in [Accounts -> Int] /\ g \in [Accounts -> Nat]
      /\ g[u] = f[u] - x
      /\ \A w \in Accounts : w # u => g[w] = f[w]
  BY <1>2
<1> HIDE DEF g
<1>4. Total(g) = (Total(f) - f[u]) + g[u]
  BY <1>3, TotalUpdate
<1>5. Total(g) = Total(f) - x
  BY <1>1, <1>3, <1>4
<1> QED BY <1>1, <1>3, <1>5 DEF g

\* Settling an account keeps the invariant and leaves it nothing to claim.
LEMMA SettlementGood ==
  ASSUME NEW s, Good(s), now \in 0 .. MaxTime, s.lastMintTime <= now, NEW u \in Accounts
  PROVE  /\ Good(mintRewards(s, u))
         /\ mintRewards(s, u).lastMintTime = now
         /\ mintRewards(s, u).userRewardsPerTokenBurned[u]
              = mintRewards(s, u).rewardsPerTokenBurned
         /\ mintRewards(s, u).balances[u] = balanceOf(s, u)
<1> DEFINE t == mintRewards(s, u)
           r == userRewards(s, u)
           a == totalRewards(s)
           sim == simulatedRewardsPerTokenBurned(s)
<1>0. s \in Storage /\ now \in Uint
  BY ParameterAssumption, HeadroomAssumption DEF Good, Uint
<1>1. /\ t.balances = [s.balances EXCEPT ![u] = Unchecked(s.balances[u] + r)]
      /\ t.totalSupply = s.totalSupply + r
      /\ t.owner = s.owner
      /\ t.liquidityPool = s.liquidityPool
      /\ t.exemptedAddresses = s.exemptedAddresses
      /\ t.rewardsPerTokenBurned = sim
      /\ t.userRewardsPerTokenBurned = [s.userRewardsPerTokenBurned EXCEPT ![u] = sim]
      /\ t.lastMintTime = now
      /\ t.pendingMints = (s.pendingMints + a) - r
      /\ t.totalBurned = s.totalBurned
      /\ t.burnScore = s.burnScore
  BY <1>0, MintRewardsFields
<1>2. CanMintRewards(s, u)
  BY SettlementSucceeds
<1>3. t \in Storage
  BY <1>0, <1>2, MintRewardsType
<1>4. r \in Nat /\ REWARD_PRECISION * r <= claimsNow(s)[u] /\ s.totalSupply + r \in Uint
  BY <1>2, RewardBound DEF CanMintRewards, CanMint
<1>5. s.balances \in [Accounts -> Nat] /\ s.userRewardsPerTokenBurned \in [Accounts -> Nat]
  BY <1>0 DEF Storage, Uint
<1> HIDE DEF t, r, a, sim
<1>6. Gated(t)
  BY <1>1 DEF Good, Gated, Initialized
<1>7. Accounted(t) /\ t.balances[u] = s.balances[u] + r
  <2>1. /\ Unchecked(s.balances[u] + r) = s.balances[u] + r
        /\ Total([s.balances EXCEPT ![u] = s.balances[u] + r]) = s.totalSupply + r
    BY <1>4, <1>5, CreditKeepsTotal DEF Good, Accounted
  <2>2. Total(t.balances) = t.totalSupply
    BY <1>1, <2>1
  <2>3. t.balances[u] = s.balances[u] + r
    BY <1>1, <1>5, <2>1
  <2> QED BY <1>1, <2>2, <2>3 DEF Good, Accounted
<1>8. Backed(t)
  <2> DEFINE h == claimsNow(s)
             m == s.pendingMints + a
  <2>1. h \in [Accounts -> Nat] /\ Total(h) \in Nat /\ Total(h) <= REWARD_PRECISION * m
    BY ClaimsNow DEF a
  <2>2. ASSUME NEW v \in Accounts
        PROVE  t.userRewardsPerTokenBurned[v] <= t.rewardsPerTokenBurned
    <3>1. PICK d \in Nat : sim = s.rewardsPerTokenBurned + d
      BY AddedBound DEF sim
    <3>2. s.rewardsPerTokenBurned \in Nat /\ s.userRewardsPerTokenBurned[v] \in Nat
          /\ s.userRewardsPerTokenBurned[v] <= s.rewardsPerTokenBurned
      BY DEF Good, Backed, Storage, Uint
    <3> QED BY <1>1, <1>5, <3>1, <3>2
  <2>3. claims(t) = [h EXCEPT ![u] = 0]
    <3>1. ASSUME NEW v \in Accounts, v # u
          PROVE  s.burnScore[v] * (sim - t.userRewardsPerTokenBurned[v]) = h[v]
      <4>1. t.userRewardsPerTokenBurned[v] = s.userRewardsPerTokenBurned[v]
        BY <1>1, <1>5, <3>1
      <4> QED BY <4>1 DEF claimsNow, sim
    <3>2. s.burnScore[u] * (sim - t.userRewardsPerTokenBurned[u]) = 0
      <4>1. t.userRewardsPerTokenBurned[u] = sim
        BY <1>1, <1>5
      <4>2. sim \in Int /\ s.burnScore[u] \in Int
        BY <1>1, <1>3 DEF Good, Storage, Uint
      <4>3. sim - sim = 0
        BY <4>2
      <4> QED BY <4>1, <4>2, <4>3
    <3>3. claims(t) = [v \in Accounts |-> s.burnScore[v] * (sim - t.userRewardsPerTokenBurned[v])]
      BY <1>1 DEF claims
    <3>4. h = [v \in Accounts |-> h[v]]
      BY DEF claimsNow
    <3> HIDE DEF h
    <3> QED BY <3>1, <3>2, <3>3, <3>4
  <2>4. Total(claims(t)) = Total(h) - h[u]
    <3> DEFINE c == claims(t)
    <3>1. /\ h \in [Accounts -> Int] /\ c \in [Accounts -> Int]
          /\ c[u] = 0
          /\ \A w \in Accounts : w # u => c[w] = h[w]
      <4> HIDE DEF h
      <4> QED BY <2>1, <2>3
    <3> HIDE DEF h, c
    <3>2. Total(c) = (Total(h) - h[u]) + c[u]
      BY <3>1, TotalUpdate
    <3>3. Total(h) \in Int /\ h[u] \in Int
      BY <2>1
    <3> QED BY <3>1, <3>2, <3>3 DEF c
  <2>5. Total(claims(t)) <= REWARD_PRECISION * (m - r)
    <3>1. m \in Nat
      BY AddedBound DEF Good, Storage, Uint, a
    <3>2. h[u] \in Nat /\ REWARD_PRECISION * r <= h[u]
      BY <2>1, <1>4 
    <3> HIDE DEF h, m
    <3>3. REWARD_PRECISION * (m - r) = REWARD_PRECISION * m - REWARD_PRECISION * r
      BY <3>1, <1>4, ParameterAssumption
    <3>4. REWARD_PRECISION * m \in Nat /\ REWARD_PRECISION * r \in Nat
      BY <3>1, <1>4, ParameterAssumption
    <3> QED BY <2>1, <2>4, <3>2, <3>3, <3>4
  <2>6. t.pendingMints = m - r
    BY <1>1
  <2> HIDE DEF m
  <2> QED BY <2>2, <2>5, <2>6 DEF Backed
<1>9. Scheduled(t)
  <2> DEFINE m == s.pendingMints + a
             k == MINT_PER_SECOND * now
  <2>1. /\ m \in Nat /\ m <= k
        /\ sim <= k * REWARD_PRECISION
        /\ s.totalSupply + m + s.totalBurned - 1 <= INITIAL_SUPPLY + k
    BY ScheduledNow DEF a, sim
  <2>2. t.pendingMints = m - r /\ MINT_PER_SECOND * t.lastMintTime = k
    BY <1>1
  <2>3. s.totalSupply \in Nat /\ s.totalBurned \in Nat /\ k \in Nat
    BY <1>0, ParameterAssumption DEF Storage, Uint
  <2> HIDE DEF m, k
  <2>4. m - r <= k
    BY <1>4, <2>1, <2>3
  <2>5. (s.totalSupply + r) + (m - r) + s.totalBurned - 1 <= INITIAL_SUPPLY + k
    BY <1>4, <2>1, <2>3, ParameterAssumption
  <2> QED BY <1>1, <2>1, <2>2, <2>4, <2>5 DEF Scheduled
<1>10. t.userRewardsPerTokenBurned[u] = t.rewardsPerTokenBurned
  BY <1>1, <1>5
<1>11. t.balances[u] = balanceOf(s, u)
  BY <1>7 DEF balanceOf, r
<1> QED BY <1>1, <1>3, <1>6, <1>7, <1>8, <1>9, <1>10, <1>11 DEF Good, t
-----------------------------------------------------------------------------
(* Burning and moving tokens. *)

\* Operations on balances alone keep the invariant if they keep balances and
\* supply in step and do not raise the supply.
LEMMA BalancesOnly ==
  ASSUME NEW s, Good(s), NEW t \in Storage,
         t.owner = s.owner, t.liquidityPool = s.liquidityPool,
         t.exemptedAddresses = s.exemptedAddresses,
         t.rewardsPerTokenBurned = s.rewardsPerTokenBurned,
         t.userRewardsPerTokenBurned = s.userRewardsPerTokenBurned,
         t.lastMintTime = s.lastMintTime, t.pendingMints = s.pendingMints,
         t.totalBurned = s.totalBurned, t.burnScore = s.burnScore,
         Total(t.balances) = t.totalSupply, t.totalSupply <= s.totalSupply
  PROVE  Good(t)
<1>1. Gated(t) /\ Accounted(t)
  BY DEF Good, Gated, Initialized, Accounted
<1>2. claims(t) = claims(s)
  BY DEF claims
<1>3. Backed(t)
  BY <1>2 DEF Good, Backed
<1>4. Scheduled(t)
  <2> DEFINE i == MINT_PER_SECOND * s.lastMintTime
  <2>1. i \in Nat
    BY ParameterAssumption DEF Good, Storage, Uint
  <2>2. s.totalSupply + s.pendingMints + s.totalBurned - 1 <= INITIAL_SUPPLY + i
    BY DEF Good, Scheduled
  <2>3. /\ s.totalSupply \in Nat /\ t.totalSupply \in Nat
        /\ s.pendingMints \in Nat /\ s.totalBurned \in Nat
    BY DEF Good, Storage, Uint
  <2>4. t.totalSupply + s.pendingMints + s.totalBurned - 1 <= INITIAL_SUPPLY + i
    <3> HIDE DEF i
    <3> QED BY <2>1, <2>2, <2>3, ParameterAssumption
  <2> QED BY <2>4 DEF Good, Scheduled
<1> QED BY <1>1, <1>3, <1>4 DEF Good

\* A burn is exact: the unchecked subtraction from the supply does not wrap.
LEMMA BurnGood ==
  ASSUME NEW s, Good(s), NEW u \in Accounts, NEW x \in Nat, CanBurn(s, u, x)
  PROVE  /\ Good(Burn(s, u, x))
         /\ Burn(s, u, x).totalSupply = s.totalSupply - x
<1> DEFINE t == Burn(s, u, x)
<1>1. s \in Storage /\ s.balances \in [Accounts -> Nat] /\ x <= s.balances[u]
  BY DEF Good, Storage, Uint, CanBurn
<1>2. t \in Storage
  BY <1>1, BurnType
<1>3. /\ t.balances = [s.balances EXCEPT ![u] = s.balances[u] - x]
      /\ t.totalSupply = Unchecked(s.totalSupply - x)
      /\ t.owner = s.owner /\ t.liquidityPool = s.liquidityPool
      /\ t.exemptedAddresses = s.exemptedAddresses
      /\ t.rewardsPerTokenBurned = s.rewardsPerTokenBurned
      /\ t.userRewardsPerTokenBurned = s.userRewardsPerTokenBurned
      /\ t.lastMintTime = s.lastMintTime /\ t.pendingMints = s.pendingMints
      /\ t.totalBurned = s.totalBurned /\ t.burnScore = s.burnScore
  BY <1>1 DEF Burn, Storage
<1> HIDE DEF t
<1>4. Total(t.balances) = s.totalSupply - x /\ x <= s.totalSupply
  BY <1>1, <1>3, DebitKeepsTotal DEF Good, Accounted
<1>5. s.totalSupply \in Uint
  BY <1>1 DEF Storage
<1>6. t.totalSupply = s.totalSupply - x
  <2>1. s.totalSupply - x \in Uint
    BY <1>4, <1>5, ParameterAssumption DEF Uint
  <2> QED BY <1>3, <2>1, UncheckedUint DEF Uint
<1>7. t.totalSupply <= s.totalSupply
  BY <1>5, <1>6 DEF Uint
<1>8. Good(t)
  BY <1>2, <1>3, <1>4, <1>6, <1>7, BalancesOnly
<1> QED BY <1>6, <1>8 DEF t

\* A transfer of tokens neither creates nor destroys any, also to oneself.
LEMMA MoveGood ==
  ASSUME NEW s, Good(s), NEW from \in Accounts, NEW to \in Accounts, NEW x \in Nat,
         CanMove(s, from, to, x)
  PROVE  Good(Move(s, from, to, x))
<1> DEFINE t == Move(s, from, to, x)
           f == [s.balances EXCEPT ![from] = s.balances[from] - x]
<1>1. s \in Storage /\ s.balances \in [Accounts -> Nat] /\ x <= s.balances[from]
  BY DEF Good, Storage, Uint, CanMove
<1>2. t \in Storage
  BY <1>1, MoveType
<1>3. /\ t.balances = [f EXCEPT ![to] = Unchecked(f[to] + x)]
      /\ t.totalSupply = s.totalSupply
      /\ t.owner = s.owner /\ t.liquidityPool = s.liquidityPool
      /\ t.exemptedAddresses = s.exemptedAddresses
      /\ t.rewardsPerTokenBurned = s.rewardsPerTokenBurned
      /\ t.userRewardsPerTokenBurned = s.userRewardsPerTokenBurned
      /\ t.lastMintTime = s.lastMintTime /\ t.pendingMints = s.pendingMints
      /\ t.totalBurned = s.totalBurned /\ t.burnScore = s.burnScore
  BY <1>1 DEF Move, Storage
<1>4. s.totalSupply \in Uint /\ Total(s.balances) = s.totalSupply
  BY DEF Good, Storage, Accounted
<1>5. f \in [Accounts -> Nat] /\ Total(f) = s.totalSupply - x
  BY <1>1, <1>4, DebitKeepsTotal
<1> HIDE DEF t, f
<1>6. Total(f) + x = s.totalSupply
  BY <1>4, <1>5 DEF Uint
<1>7. Total(t.balances) = t.totalSupply
  <2>1. Total(f) + x \in Uint
    BY <1>4, <1>6
  <2>2. /\ Unchecked(f[to] + x) = f[to] + x
        /\ Total([f EXCEPT ![to] = f[to] + x]) = Total(f) + x
    BY <1>5, <2>1, CreditKeepsTotal
  <2>3. t.balances = [f EXCEPT ![to] = f[to] + x]
    BY <1>3, <2>2
  <2> QED BY <1>3, <1>6, <2>2, <2>3
<1>8. t.totalSupply <= s.totalSupply
  BY <1>3, <1>4 DEF Uint
<1>9. Good(t)
  BY <1>2, <1>3, <1>7, <1>8, BalancesOnly
<1> QED BY <1>9 DEF t

\* Allowances are no part of the invariant.
LEMMA ApproveGood ==
  ASSUME NEW s, Good(s), NEW o \in Accounts, NEW p \in Accounts, NEW x \in Uint
  PROVE  Good(Approve(s, o, p, x))
<1> DEFINE t == Approve(s, o, p, x)
<1>1. s \in Storage /\ s.totalSupply \in Nat
  BY DEF Good, Storage, Uint
<1>2. t \in Storage
  BY <1>1, ApproveType
<1>3. /\ t.balances = s.balances /\ t.totalSupply = s.totalSupply
      /\ t.owner = s.owner /\ t.liquidityPool = s.liquidityPool
      /\ t.exemptedAddresses = s.exemptedAddresses
      /\ t.rewardsPerTokenBurned = s.rewardsPerTokenBurned
      /\ t.userRewardsPerTokenBurned = s.userRewardsPerTokenBurned
      /\ t.lastMintTime = s.lastMintTime /\ t.pendingMints = s.pendingMints
      /\ t.totalBurned = s.totalBurned /\ t.burnScore = s.burnScore
  BY <1>1 DEF Approve, Storage
<1> HIDE DEF t
<1>4. Total(t.balances) = t.totalSupply /\ t.totalSupply <= s.totalSupply
  BY <1>1, <1>3 DEF Good, Accounted
<1>5. Good(t)
  BY <1>2, <1>3, <1>4, BalancesOnly
<1> QED BY <1>5 DEF t

\* Burning from a sender who has just settled: the score it earns starts to
\* count from now, so that the claims of all users are unchanged.
LEMMA BurnOnTransferGood ==
  ASSUME NEW s, Good(s), NEW u \in Accounts, NEW x \in Nat,
         Initialized(s), u \notin s.exemptedAddresses,
         s.userRewardsPerTokenBurned[u] = s.rewardsPerTokenBurned,
         CanBurnOnTransfer(s, u, x)
  PROVE  /\ Good(burnOnTransfer(s, u, x))
         /\ burnOnTransfer(s, u, x).lastMintTime = s.lastMintTime
<1> DEFINE y == burnedFromTx(x)
           z == burnedFromLP(s, x)
           a == Burn(s, u, y)
           b == Burn(a, s.liquidityPool, z)
           t == burnOnTransfer(s, u, x)
<1>1. s \in Storage /\ s.liquidityPool \in Accounts
  BY DEF Good, Initialized, Storage, Addresses
<1>2. y \in Nat /\ z \in Nat
  BY <1>1, BurnedAmounts, BurnedFromLPType DEF CanBurnOnTransfer
<1>3. CanBurn(s, u, y) /\ CanBurn(a, s.liquidityPool, z)
  BY DEF CanBurnOnTransfer
<1>4. t \in Storage
  BY <1>1, BurnOnTransferType
<1> HIDE DEF y, z
<1>5. Good(a) /\ a.totalSupply = s.totalSupply - y
  BY <1>2, <1>3, BurnGood
<1>6. a.burnScore = s.burnScore /\ a.totalBurned = s.totalBurned
      /\ a.userRewardsPerTokenBurned = s.userRewardsPerTokenBurned
      /\ a.rewardsPerTokenBurned = s.rewardsPerTokenBurned
      /\ a.exemptedAddresses = s.exemptedAddresses
      /\ a.liquidityPool = s.liquidityPool /\ a.lastMintTime = s.lastMintTime
      /\ a.pendingMints = s.pendingMints
  BY <1>1 DEF Burn, Storage
<1> HIDE DEF a
<1>7. Good(b) /\ b.totalSupply = a.totalSupply - z
  BY <1>1, <1>2, <1>3, <1>5, BurnGood
<1>8. a \in Storage
  BY <1>5 DEF Good
<1>9. b.burnScore = s.burnScore /\ b.totalBurned = s.totalBurned
      /\ b.userRewardsPerTokenBurned = s.userRewardsPerTokenBurned
      /\ b.rewardsPerTokenBurned = s.rewardsPerTokenBurned
      /\ b.exemptedAddresses = s.exemptedAddresses
      /\ b.liquidityPool = s.liquidityPool /\ b.lastMintTime = s.lastMintTime
      /\ b.pendingMints = s.pendingMints
  BY <1>6, <1>8 DEF Burn, Storage
<1>10. b \in Storage
  BY <1>7 DEF Good
<1> HIDE DEF b
<1>11. t = [b EXCEPT !.totalBurned = @ + y, !.burnScore[u] = @ + y]
  BY DEF burnOnTransfer, a, b, y, z
<1>12. /\ t.balances = b.balances /\ t.totalSupply = b.totalSupply
       /\ t.owner = b.owner /\ t.liquidityPool = b.liquidityPool
       /\ t.exemptedAddresses = b.exemptedAddresses
       /\ t.rewardsPerTokenBurned = b.rewardsPerTokenBurned
       /\ t.userRewardsPerTokenBurned = b.userRewardsPerTokenBurned
       /\ t.lastMintTime = b.lastMintTime /\ t.pendingMints = b.pendingMints
       /\ t.totalBurned = b.totalBurned + y
       /\ t.burnScore = [b.burnScore EXCEPT ![u] = b.burnScore[u] + y]
  BY <1>10, <1>11 DEF Storage
<1> HIDE DEF t
<1>13. Gated(t)
  <2>1. \A v \in t.exemptedAddresses : t.burnScore[v] = b.burnScore[v]
    BY <1>9, <1>10, <1>12 DEF Storage
  <2>2. Initialized(t) /\ Initialized(b)
    BY <1>9, <1>12 DEF Initialized
  <2> QED BY <1>7, <1>12, <2>1, <2>2 DEF Good, Gated
<1>14. Accounted(t)
  <2> DEFINE f == b.burnScore
             g == t.burnScore
  <2>1. /\ f \in [Accounts -> Int] /\ g \in [Accounts -> Int]
        /\ \A w \in Accounts : w # u => g[w] = f[w]
        /\ g[u] = f[u] + y
    BY <1>2, <1>10, <1>12 DEF Storage, Uint
  <2> HIDE DEF f, g
  <2>2. Total(g) = (Total(f) - f[u]) + g[u]
    BY <2>1, TotalUpdate
  <2>3. Total(f) \in Int
    BY <2>1, AddressAssumption, SumType DEF Total
  <2>4. Total(g) = Total(f) + y
    BY <2>1, <2>2, <2>3, <1>2
  <2>5. b.totalBurned = Total(f) + 1 /\ Total(b.balances) = b.totalSupply
    BY <1>7 DEF Good, Accounted, f
  <2>6. t.totalBurned = Total(g) + 1
    BY <1>2, <1>12, <2>3, <2>4, <2>5
  <2> QED BY <1>12, <2>5, <2>6 DEF Accounted, g
<1>15. Backed(t)
  <2>1. ASSUME NEW v \in Accounts
        PROVE  t.burnScore[v] * (t.rewardsPerTokenBurned - t.userRewardsPerTokenBurned[v])
               = b.burnScore[v] * (b.rewardsPerTokenBurned - b.userRewardsPerTokenBurned[v])
    <3>1. CASE v = u
      <4>1. t.rewardsPerTokenBurned - t.userRewardsPerTokenBurned[u] = 0
        BY <1>4, <1>9, <1>12 DEF Storage, Uint
      <4>2. t.burnScore[u] \in Int /\ b.burnScore[u] \in Int
        BY <1>4, <1>10 DEF Storage, Uint
      <4> QED BY <3>1, <4>1, <4>2, <1>12
    <3>2. CASE v # u
      BY <3>2, <1>10, <1>12 DEF Storage
    <3> QED BY <3>1, <3>2
  <2>2. claims(t) = claims(b)
    BY <2>1 DEF claims
  <2> QED BY <1>7, <1>12, <2>2 DEF Good, Backed
<1>16. Scheduled(t)
  <2> DEFINE i == MINT_PER_SECOND * s.lastMintTime
  <2>1. i \in Nat
    BY <1>1, ParameterAssumption DEF Storage, Uint
  <2>2. s.totalSupply + s.pendingMints + s.totalBurned - 1 <= INITIAL_SUPPLY + i
    BY DEF Good, Scheduled
  <2>3. s.totalSupply \in Nat /\ s.pendingMints \in Nat /\ s.totalBurned \in Nat
    BY <1>1 DEF Storage, Uint
  <2>4. t.totalSupply = (s.totalSupply - y) - z /\ t.totalBurned = s.totalBurned + y
    BY <1>5, <1>7, <1>9, <1>12
  <2>5. t.totalSupply + s.pendingMints + t.totalBurned - 1 <= INITIAL_SUPPLY + i
    <3> HIDE DEF i
    <3> QED BY <1>2, <2>1, <2>2, <2>3, <2>4, ParameterAssumption
  <2>6. /\ t.pendingMints = s.pendingMints /\ t.lastMintTime = s.lastMintTime
        /\ t.rewardsPerTokenBurned = s.rewardsPerTokenBurned
    BY <1>9, <1>12
  <2> QED BY <2>5, <2>6 DEF Good, Scheduled
<1> QED BY <1>4, <1>9, <1>12, <1>13, <1>14, <1>15, <1>16 DEF Good, t

\* The settlement that begins a transfer.
LEMMA SettledGood ==
  ASSUME NEW s, Good(s), now \in 0 .. MaxTime, s.lastMintTime <= now, NEW u \in Accounts
  PROVE  /\ Good(Settled(s, u))
         /\ Settled(s, u).lastMintTime <= now
         /\ Initialized(s) =>
              /\ Settled(s, u).userRewardsPerTokenBurned[u] = Settled(s, u).rewardsPerTokenBurned
              /\ Settled(s, u).lastMintTime = now
<1>1. now <= now
  BY ParameterAssumption
<1> QED BY <1>1, SettlementGood DEF Settled

\* A transfer, taxed or not, keeps the invariant.
LEMMA SendGood ==
  ASSUME NEW s, Good(s), now \in 0 .. MaxTime, s.lastMintTime <= now,
         NEW from \in Accounts, NEW to \in Addresses, NEW x \in Uint, CanSend(s, from, to, x)
  PROVE  /\ Good(Send(s, from, to, x))
         /\ Send(s, from, to, x).lastMintTime <= now
<1> DEFINE p == Settled(s, from)
           q == Burnt(p, from, to, x)
           y == SentAmount(s, from, to, x)
<1>1. Good(p) /\ p.lastMintTime <= now
  BY SettledGood
<1>2. s \in Storage
  BY DEF Good
<1>3. Good(q) /\ q.lastMintTime <= now
  <2>1. CASE Taxed(s, from, to)
    <3>1. /\ Initialized(p) /\ from \notin p.exemptedAddresses
          /\ p.userRewardsPerTokenBurned[from] = p.rewardsPerTokenBurned
      BY <1>2, <2>1, SettledFields, SettledGood DEF Taxed, Initialized
    <3>2. CanBurnOnTransfer(p, from, x)
      BY <2>1 DEF CanSend
    <3>3. x \in Nat
      BY DEF Uint
    <3> HIDE DEF p
    <3>4. Good(burnOnTransfer(p, from, x)) /\ burnOnTransfer(p, from, x).lastMintTime <= now
      BY <1>1, <3>1, <3>2, <3>3, BurnOnTransferGood
    <3> QED BY <1>2, <2>1, <3>4, TaxedSettled DEF Burnt, p
  <2>2. CASE ~ Taxed(s, from, to)
    BY <1>1, <1>2, <2>2, TaxedSettled DEF Burnt
  <2> QED BY <2>1, <2>2
<1>4. y \in Nat
  BY BurnedAmounts DEF SentAmount, Uint
<1>5. to \in Accounts /\ CanMove(q, from, to, y)
  BY DEF CanSend, CanMove, Addresses
<1> HIDE DEF p, q, y
<1>6. Good(Move(q, from, to, y))
  BY <1>3, <1>4, <1>5, MoveGood
<1>7. Move(q, from, to, y).lastMintTime = q.lastMintTime
  <2>1. q \in Storage
    BY <1>3 DEF Good
  <2> QED BY <2>1 DEF Move, Storage
<1> QED BY <1>3, <1>6, <1>7 DEF Send, p, q, y
-----------------------------------------------------------------------------
(* Moving burn score. *)

\* Between two accounts that have both settled, score moves without moving
\* any claim, also from an account to itself.
LEMMA ScoreMovedGood ==
  ASSUME NEW s, Good(s), NEW from \in Accounts, NEW to \in Accounts, NEW x \in Uint,
         Initialized(s), to \notin s.exemptedAddresses, x <= s.burnScore[from],
         s.userRewardsPerTokenBurned[from] = s.rewardsPerTokenBurned,
         s.userRewardsPerTokenBurned[to] = s.rewardsPerTokenBurned,
         ScoreMoved(s, from, to, x).burnScore[to] \in Uint
  PROVE  /\ Good(ScoreMoved(s, from, to, x))
         /\ ScoreMoved(s, from, to, x).lastMintTime = s.lastMintTime
<1> DEFINE t == ScoreMoved(s, from, to, x)
           f == [s.burnScore EXCEPT ![from] = s.burnScore[from] - x]
           g == t.burnScore
<1>1. s \in Storage /\ s.burnScore \in [Accounts -> Nat] /\ x \in Nat
  BY DEF Good, Storage, Uint
<1>2. t \in Storage
  BY <1>1, ScoreMovedType
<1>3. /\ t.balances = s.balances /\ t.totalSupply = s.totalSupply
      /\ t.owner = s.owner /\ t.liquidityPool = s.liquidityPool
      /\ t.exemptedAddresses = s.exemptedAddresses
      /\ t.rewardsPerTokenBurned = s.rewardsPerTokenBurned
      /\ t.userRewardsPerTokenBurned = s.userRewardsPerTokenBurned
      /\ t.lastMintTime = s.lastMintTime /\ t.pendingMints = s.pendingMints
      /\ t.totalBurned = s.totalBurned
      /\ t.burnScore = [f EXCEPT ![to] = f[to] + x]
  BY <1>1 DEF ScoreMoved, Storage
<1>4. f \in [Accounts -> Nat] /\ Total(f) = Total(s.burnScore) - x
  BY <1>1, DebitKeepsTotal
<1>5. \A w \in Accounts \ {from} : f[w] = s.burnScore[w]
  BY <1>1
<1> HIDE DEF t, f
<1>6. /\ f \in [Accounts -> Int] /\ g \in [Accounts -> Int]
      /\ g[to] = f[to] + x
      /\ \A w \in Accounts : w # to => g[w] = f[w]
  BY <1>1, <1>3, <1>4
<1>7. Total(s.burnScore) \in Nat /\ Total(f) \in Nat
  BY <1>1, <1>4, SumBounds
<1>8. Total(g) = Total(s.burnScore)
  <2> HIDE DEF g
  <2>1. Total(g) = (Total(f) - f[to]) + g[to]
    BY <1>6, TotalUpdate
  <2> QED BY <2>1, <1>1, <1>4, <1>6, <1>7
<1>9. Accounted(t)
  BY <1>3, <1>8 DEF Good, Accounted
<1>10. Gated(t)
  <2>1. Initialized(t)
    BY <1>3 DEF Initialized
  <2>2. ASSUME NEW v \in t.exemptedAddresses PROVE t.burnScore[v] = 0
    <3>1. v \in Accounts /\ s.burnScore[v] = 0 /\ v # to
      BY <1>1, <1>3, <2>2 DEF Good, Gated, Storage
    <3>2. f[v] = 0
      <4>1. CASE v = from
        <5>1. x = 0
          BY <1>1, <3>1, <4>1
        <5> QED BY <1>1, <3>1, <4>1, <5>1 DEF f
      <4>2. CASE v # from
        BY <1>5, <3>1, <4>2
      <4> QED BY <4>1, <4>2
    <3> QED BY <1>6, <3>1, <3>2
  <2> QED BY <1>3, <2>1, <2>2 DEF Good, Gated, Initialized
<1>11. Backed(t)
  <2>1. ASSUME NEW v \in Accounts
        PROVE  t.burnScore[v] * (s.rewardsPerTokenBurned - s.userRewardsPerTokenBurned[v])
               = s.burnScore[v] * (s.rewardsPerTokenBurned - s.userRewardsPerTokenBurned[v])
    <3>1. CASE v = from \/ v = to
      <4>1. s.rewardsPerTokenBurned - s.userRewardsPerTokenBurned[v] = 0
        BY <1>1, <3>1 DEF Storage, Uint
      <4>2. t.burnScore[v] \in Int /\ s.burnScore[v] \in Int
        BY <1>1, <1>2 DEF Storage, Uint
      <4> QED BY <4>1, <4>2
    <3>2. CASE v # from /\ v # to
      BY <3>2, <1>5, <1>6
    <3> QED BY <3>1, <3>2
  <2>2. claims(t) = claims(s)
    BY <1>3, <2>1 DEF claims
  <2> QED BY <1>3, <2>2 DEF Good, Backed
<1>12. Scheduled(t)
  BY <1>3 DEF Good, Scheduled
<1> QED BY <1>2, <1>3, <1>9, <1>10, <1>11, <1>12 DEF Good, t
-----------------------------------------------------------------------------
(* The invariant of the contract. *)

\* The constructor establishes the invariant: one phantom token burned, the
\* whole supply with the treasury, and no inflation before initialize.
LEMMA InitInvariant == Init => IInv
<1> SUFFICES ASSUME Init PROVE IInv
  OBVIOUS
<1> DEFINE zero == [a \in Accounts |-> 0]
<1>1. cash \in Storage /\ now \in 0 .. MaxTime
  BY InitType DEF TypeOK
<1>2. /\ cash.balances = [a \in Accounts |-> IF a = Treasury THEN INITIAL_SUPPLY ELSE 0]
      /\ cash.totalSupply = INITIAL_SUPPLY
      /\ cash.owner = Treasury /\ cash.liquidityPool = ZeroAddress
      /\ cash.rewardsPerTokenBurned = 0 /\ cash.userRewardsPerTokenBurned = zero
      /\ cash.lastMintTime = 0 /\ cash.pendingMints = 0
      /\ cash.totalBurned = 1 /\ cash.burnScore = zero /\ now = 0
  BY DEF Init
<1>3. zero \in [Accounts -> Int] /\ Total(zero) = 0
  <2>1. zero \in [Accounts -> Int] /\ \A a \in Accounts : zero[a] = 0
    OBVIOUS
  <2> HIDE DEF zero
  <2> QED BY <2>1, AddressAssumption, SumZero DEF Total
<1>4. Gated(cash)
  BY <1>1, <1>2, AddressAssumption DEF Gated, Initialized, Storage
<1>5. Accounted(cash)
  <2> DEFINE g == cash.balances
  <2>1. /\ g \in [Accounts -> Int] /\ g[Treasury] = INITIAL_SUPPLY
        /\ \A w \in Accounts : w # Treasury => g[w] = zero[w]
    BY <1>2, AddressAssumption, ParameterAssumption
  <2>2. zero[Treasury] = 0
    BY AddressAssumption
  <2> HIDE DEF g, zero
  <2>3. Total(g) = (Total(zero) - zero[Treasury]) + g[Treasury]
    BY <1>3, <2>1, AddressAssumption, TotalUpdate
  <2>4. Total(g) = INITIAL_SUPPLY
    BY <1>3, <2>1, <2>2, <2>3, ParameterAssumption
  <2> QED BY <1>2, <1>3, <2>4 DEF Accounted, g
<1>6. Backed(cash)
  <2>1. claims(cash) = zero
    BY <1>2 DEF claims
  <2>2. REWARD_PRECISION * 0 = 0
    BY ParameterAssumption
  <2>3. Total(claims(cash)) <= REWARD_PRECISION * cash.pendingMints
    <3> HIDE DEF zero
    <3> QED BY <1>2, <1>3, <2>1, <2>2
  <2> QED BY <1>2, <2>3 DEF Backed
<1>7. Scheduled(cash)
  BY <1>2, ParameterAssumption DEF Scheduled
<1> QED BY <1>1, <1>2, <1>4, <1>5, <1>6, <1>7 DEF IInv, Good

\* initialize: before it nothing was burned and nothing accrued.
LEMMA InitializeGood ==
  ASSUME IInv, NEW c \in Accounts, NEW p \in Pools, NEW m \in Migrators, initialize(c, p, m)
  PROVE  IInv'
<1> DEFINE t == cash'
<1>1. cash \in Storage /\ p \in Accounts /\ m \in Accounts
  BY AddressAssumption DEF initialize, Addresses, IInv, Good
<1>2. now' = now /\ now \in Uint /\ now \in 0 .. MaxTime /\ cash.lastMintTime <= now
  BY ParameterAssumption, HeadroomAssumption DEF IInv, initialize, Uint
<1>3. /\ t.balances = cash.balances /\ t.totalSupply = cash.totalSupply
      /\ t.owner = ZeroAddress /\ t.liquidityPool = p
      /\ t.exemptedAddresses = cash.exemptedAddresses \cup {p, m}
      /\ t.rewardsPerTokenBurned = cash.rewardsPerTokenBurned
      /\ t.userRewardsPerTokenBurned = cash.userRewardsPerTokenBurned
      /\ t.lastMintTime = now /\ t.pendingMints = cash.pendingMints
      /\ t.totalBurned = cash.totalBurned /\ t.burnScore = cash.burnScore
  BY <1>1 DEF initialize, Storage
<1>4. t \in Storage
  BY <1>1, <1>2 DEF initialize, Storage, Addresses
<1>5. \A u \in Accounts : cash.burnScore[u] = 0
  <2>1. cash.owner # ZeroAddress
    BY AddressAssumption DEF initialize
  <2> QED BY <2>1 DEF IInv, Good, Gated
<1> HIDE DEF t
<1>6. Gated(t)
  BY <1>1, <1>3, <1>4, <1>5, AddressAssumption DEF Gated, Initialized, Storage
<1>7. Accounted(t) /\ Backed(t)
  <2>1. claims(t) = claims(cash)
    BY <1>3 DEF claims
  <2> QED BY <1>3, <2>1 DEF IInv, Good, Accounted, Backed
<1>8. Scheduled(t)
  <2> DEFINE l == cash.lastMintTime
             i == MINT_PER_SECOND * l
             k == MINT_PER_SECOND * now
  <2>1. l \in Nat /\ now \in Nat
    BY <1>1, <1>2 DEF Storage, Uint
  <2>2. i \in Nat /\ k \in Nat /\ i <= k
    BY <2>1, <1>2, ParameterAssumption, TimesMonotone
  <2>3. i * REWARD_PRECISION <= k * REWARD_PRECISION /\ i * REWARD_PRECISION \in Nat
        /\ k * REWARD_PRECISION \in Nat
    <3> HIDE DEF i, k
    <3> QED BY <2>2, ParameterAssumption, TimesMonotone
  <2>4. /\ cash.pendingMints <= i
        /\ cash.rewardsPerTokenBurned <= i * REWARD_PRECISION
        /\ cash.totalSupply + cash.pendingMints + cash.totalBurned - 1 <= INITIAL_SUPPLY + i
    BY DEF IInv, Good, Scheduled
  <2>5. /\ cash.pendingMints \in Nat /\ cash.rewardsPerTokenBurned \in Nat
        /\ cash.totalSupply \in Nat /\ cash.totalBurned \in Nat
    BY <1>1 DEF Storage, Uint
  <2>6. /\ cash.pendingMints <= k
        /\ cash.totalSupply + cash.pendingMints + cash.totalBurned - 1 <= INITIAL_SUPPLY + k
    <3> HIDE DEF i, k
    <3> QED BY <2>2, <2>4, <2>5, ParameterAssumption
  <2>7. cash.rewardsPerTokenBurned <= k * REWARD_PRECISION
    <3> DEFINE ip == i * REWARD_PRECISION
               kp == k * REWARD_PRECISION
    <3>1. cash.rewardsPerTokenBurned <= ip /\ ip <= kp /\ ip \in Nat /\ kp \in Nat
      BY <2>3, <2>4
    <3> HIDE DEF ip, kp
    <3>2. cash.rewardsPerTokenBurned <= kp
      BY <3>1, <2>5
    <3> QED BY <3>2 DEF kp
  <2> QED BY <1>3, <2>6, <2>7 DEF Scheduled
<1>9. Good(t) /\ t.lastMintTime <= now
  BY <1>2, <1>3, <1>4, <1>6, <1>7, <1>8 DEF Good, Uint
<1> QED BY <1>2, <1>9 DEF IInv, t

\* transferBurnScore settles both sides before it moves score.  The second
\* settlement happens in the same second, so the first one is still up to date.
LEMMA TransferBurnScoreGood ==
  ASSUME IInv, NEW from \in Accounts, NEW to \in Addresses, NEW x \in Amounts,
         transferBurnScore(from, to, x)
  PROVE  IInv'
<1> DEFINE a == mintRewards(cash, from)
           b == mintRewards(a, to)
<1>1. /\ Good(cash) /\ cash \in Storage
      /\ now \in 0 .. MaxTime /\ cash.lastMintTime <= now /\ now' = now
      /\ now <= now
  BY ParameterAssumption DEF IInv, Good, transferBurnScore
<1>2. /\ to \in Accounts /\ to \notin cash.exemptedAddresses
      /\ x \in Uint /\ x # 0 /\ x <= cash.burnScore[from]
      /\ cash' = ScoreMoved(b, from, to, x)
      /\ cash'.burnScore[to] \in Uint
  BY ParameterAssumption DEF transferBurnScore, CanMoveScore, Addresses
<1>3. /\ Good(a) /\ a.lastMintTime = now
      /\ a.userRewardsPerTokenBurned[from] = a.rewardsPerTokenBurned
  BY <1>1, SettlementGood
<1>4. /\ a.owner = cash.owner /\ a.liquidityPool = cash.liquidityPool
      /\ a.exemptedAddresses = cash.exemptedAddresses /\ a.burnScore = cash.burnScore
  BY <1>1, MintRewardsFields
<1> HIDE DEF a
<1>5. a \in Storage
  BY <1>3 DEF Good
<1>6. /\ Good(b) /\ b.lastMintTime = now
      /\ b.userRewardsPerTokenBurned[to] = b.rewardsPerTokenBurned
  BY <1>1, <1>2, <1>3, SettlementGood
<1>7. /\ b.owner = a.owner /\ b.liquidityPool = a.liquidityPool
      /\ b.exemptedAddresses = a.exemptedAddresses /\ b.burnScore = a.burnScore
      /\ b.rewardsPerTokenBurned = simulatedRewardsPerTokenBurned(a)
      /\ b.userRewardsPerTokenBurned =
           [a.userRewardsPerTokenBurned EXCEPT ![to] = simulatedRewardsPerTokenBurned(a)]
  BY <1>2, <1>5, MintRewardsFields
\* Nothing accrues between the two settlements of one transaction.
<1>8. b.userRewardsPerTokenBurned[from] = b.rewardsPerTokenBurned
  <2>1. totalRewards(a) = 0
    <3>1. now - a.lastMintTime = 0
      BY <1>1, <1>3, ParameterAssumption
    <3> QED BY <3>1, ParameterAssumption DEF totalRewards
  <2>2. simulatedRewardsPerTokenBurned(a) = a.rewardsPerTokenBurned
    <3>1. PICK d \in Nat : /\ simulatedRewardsPerTokenBurned(a) = a.rewardsPerTokenBurned + d
                           /\ d <= totalRewards(a) * REWARD_PRECISION
      BY <1>1, <1>3, AddedBound
    <3>2. totalRewards(a) * REWARD_PRECISION = 0
      BY <2>1, ParameterAssumption
    <3>3. a.rewardsPerTokenBurned \in Nat
      BY <1>5 DEF Storage, Uint
    <3> QED BY <3>1, <3>2, <3>3
  <2> QED BY <1>3, <1>5, <1>7, <2>2 DEF Storage
<1> HIDE DEF b
<1>9. Initialized(b)
  <2>1. cash.burnScore[from] # 0
    BY <1>1, <1>2 DEF Storage, Uint
  <2> QED BY <1>1, <1>4, <1>7, <2>1 DEF Good, Gated, Initialized
<1>10. Good(cash') /\ cash'.lastMintTime = b.lastMintTime
  <2> DEFINE c == ScoreMoved(b, from, to, x)
  <2>1. to \notin b.exemptedAddresses /\ x <= b.burnScore[from]
    BY <1>2, <1>4, <1>7
  <2>2. c.burnScore[to] \in Uint
    BY <1>2
  <2>3. Good(c) /\ c.lastMintTime = b.lastMintTime
    BY <1>2, <1>6, <1>8, <1>9, <2>1, <2>2, ScoreMovedGood
  <2> QED BY <1>2, <2>3
<1> QED BY <1>1, <1>6, <1>10 DEF IInv

\* Every transaction and every second keeps the invariant.
LEMMA NextInvariant == IInv /\ [Next]_vars => IInv'
<1> SUFFICES ASSUME IInv, [Next]_vars PROVE IInv'
  OBVIOUS
<1>0. Good(cash) /\ now \in 0 .. MaxTime /\ cash.lastMintTime <= now /\ cash \in Storage
  BY DEF IInv, Good
<1>1. ASSUME NEW c \in Accounts, NEW p \in Pools, NEW m \in Migrators, initialize(c, p, m)
      PROVE  IInv'
  BY <1>1, InitializeGood
<1>2. ASSUME NEW f \in Accounts, NEW t \in Addresses, NEW x \in Amounts, transfer(f, t, x)
      PROVE  IInv'
  <2>1. x \in Uint /\ CanSend(cash, f, t, x) /\ cash' = Send(cash, f, t, x) /\ now' = now
    BY <1>2, ParameterAssumption DEF transfer
  <2>2. Good(cash') /\ cash'.lastMintTime <= now
    BY <1>0, <2>1, SendGood
  <2> QED BY <1>0, <2>1, <2>2 DEF IInv
<1>3. ASSUME NEW c \in Accounts, NEW f \in Accounts, NEW t \in Addresses, NEW x \in Amounts,
             transferFrom(c, f, t, x)
      PROVE  IInv'
  <2> DEFINE s == SpendAllowance(cash, f, c, x)
  <2>1. /\ x \in Uint /\ CanSpendAllowance(cash, f, c, x)
        /\ CanSend(s, f, t, x) /\ cash' = Send(s, f, t, x) /\ now' = now
    BY <1>3, ParameterAssumption DEF transferFrom
  <2>2. Good(s)
    <3>1. cash.allowances[f][c] - x \in Uint
      BY <1>0, <2>1, ParameterAssumption DEF CanSpendAllowance, Storage, Uint
    <3> QED BY <1>0, <3>1, ApproveGood DEF SpendAllowance
  <2>3. s.lastMintTime <= now
    BY <1>0 DEF SpendAllowance, Approve, Storage
  <2> HIDE DEF s
  <2>4. Good(cash') /\ cash'.lastMintTime <= now
    BY <1>0, <2>1, <2>2, <2>3, SendGood
  <2> QED BY <1>0, <2>1, <2>4 DEF IInv
<1>4. ASSUME NEW f \in Accounts, NEW t \in Addresses, NEW x \in Amounts,
             transferBurnScore(f, t, x)
      PROVE  IInv'
  BY <1>4, TransferBurnScoreGood
<1>5. ASSUME NEW o \in Accounts, NEW p \in Accounts, NEW x \in Uint,
             cash' = Approve(cash, o, p, x), now' = now
      PROVE  IInv'
  <2>1. Good(cash')
    BY <1>0, <1>5, ApproveGood
  <2>2. cash'.lastMintTime = cash.lastMintTime
    BY <1>0, <1>5 DEF Approve, Storage
  <2> QED BY <1>0, <1>5, <2>1, <2>2 DEF IInv
<1>6. ASSUME NEW o \in Accounts, NEW p \in Spenders, NEW x \in Approvals,
             \/ approve(o, p, x)
             \/ increaseAllowance(o, p, x)
             \/ decreaseAllowance(o, p, x)
      PROVE  IInv'
  <2>1. p \in Accounts /\ x \in Uint /\ now' = now
    BY <1>6, AddressAssumption, ParameterAssumption
       DEF approve, increaseAllowance, decreaseAllowance, Addresses
  <2>2. \E y \in Uint : cash' = Approve(cash, o, p, y)
    <3>1. CASE approve(o, p, x)
      BY <3>1, <2>1 DEF approve
    <3>2. CASE increaseAllowance(o, p, x)
      BY <3>2 DEF increaseAllowance
    <3>3. CASE decreaseAllowance(o, p, x)
      <4>1. cash.allowances[o][p] - x \in Uint
        BY <1>0, <2>1, <3>3, ParameterAssumption DEF decreaseAllowance, Storage, Uint
      <4> QED BY <3>3, <4>1 DEF decreaseAllowance
    <3> QED BY <1>6, <3>1, <3>2, <3>3
  <2> QED BY <2>1, <2>2, <1>5
<1>7. CASE Tick
  <2>1. now' \in 0 .. MaxTime /\ cash.lastMintTime <= now'
    BY <1>0, <1>7, ParameterAssumption DEF Tick, Storage, Uint
  <2> QED BY <1>0, <1>7, <2>1 DEF Tick, IInv
<1>8. CASE UNCHANGED vars
  BY <1>0, <1>8 DEF vars, IInv
<1> QED BY <1>1, <1>2, <1>3, <1>4, <1>6, <1>7, <1>8 DEF Next

\* The inductive invariant holds in every reachable state.
LEMMA Invariance == Spec => []IInv
<1> QED BY InitInvariant, NextInvariant, PTL DEF Spec
-----------------------------------------------------------------------------
(* The theorems: what the inductive invariant says of every reachable state. *)

\* Physical balances add up to the physical supply, for any set of accounts.
THEOREM PhysicalSupplyHolds == Spec => []PhysicalSupply
<1>1. IInv => PhysicalSupply
  BY DEF IInv, Good, Accounted, PhysicalSupply
<1> QED BY <1>1, Invariance, PTL

\* The divisor of the rewards is one more than the sum of the burn scores.
THEOREM BurnScoreIsAccounted == Spec => []BurnScoreAccounted
<1>1. IInv => BurnScoreAccounted
  BY DEF IInv, Good, Accounted, BurnScoreAccounted
<1> QED BY <1>1, Invariance, PTL

\* The reward pool is solvent before rounding: the scaled claims of all users
\* never exceed the scaled pendingMints.
THEOREM RewardsAreBacked == Spec => []RewardsBacked
<1>1. IInv => RewardsBacked
  BY DEF IInv, Good, Backed, RewardsBacked
<1> QED BY <1>1, Invariance, PTL

\* No settlement panics: mintRewards(u) succeeds for every user at any time,
\* so no history of transfers can lock an account.
THEOREM SettlementIsSafe == Spec => []SettlementNeverReverts
<1>1. IInv => SettlementNeverReverts
  BY SettlementSucceeds DEF IInv, SettlementNeverReverts
<1> QED BY <1>1, Invariance, PTL

\* No inflation is attributed to a router, the pool or the migrator.
THEOREM ExemptHoldNoScore == Spec => []ExemptHaveNoScore
<1>1. IInv => ExemptHaveNoScore
  BY DEF IInv, Good, Gated, ExemptHaveNoScore
<1> QED BY <1>1, Invariance, PTL

\* The schedule's account in the invariant, as an account of the visible supply.
LEMMA Capped == ASSUME IInv PROVE InflationCap
<1> DEFINE m == cash.pendingMints + totalRewards(cash)
<1>1. /\ Good(cash) /\ now \in 0 .. MaxTime /\ cash.lastMintTime <= now
      /\ cash.totalSupply \in Nat /\ cash.totalBurned \in Nat
      /\ cash.pendingMints \in Nat
  BY DEF IInv, Good, Storage, Uint
<1>2. /\ m \in Nat
      /\ cash.totalSupply + m + cash.totalBurned - 1 <= INITIAL_SUPPLY + MINT_PER_SECOND * now
  BY <1>1, ScheduledNow
<1>3. totalRewards(cash) \in Int
  BY <1>1, AddedBound
<1>4. totalSupply(cash) = cash.totalSupply + m
  BY <1>1, <1>3 DEF totalSupply
<1>5. INITIAL_SUPPLY + MINT_PER_SECOND * now \in Int
  BY <1>1, ParameterAssumption, TimesMonotone
<1> DEFINE cap == INITIAL_SUPPLY + MINT_PER_SECOND * now
<1>6. totalSupply(cash) + (cash.totalBurned - 1) <= cap
  <2> HIDE DEF cap, m
  <2> QED BY <1>1, <1>2, <1>4, <1>5 DEF cap
<1> QED BY <1>6 DEF InflationCap

\* What exists, is pending or was burned by users is at most what the schedule
\* has issued since the deployment.
THEOREM InflationIsCapped == Spec => []InflationCap
<1>1. IInv => InflationCap
  BY Capped
<1> QED BY <1>1, Invariance, PTL

\* The sum of everything balanceOf reports is within the reported supply: each
\* reward, rounded down, is within its scaled claim, and these are backed.
LEMMA BalancesCovered ==
  ASSUME IInv
  PROVE  Total([u \in Accounts |-> balanceOf(cash, u)]) <= totalSupply(cash)
<1> DEFINE P == REWARD_PRECISION
           h == claimsNow(cash)
           r == [u \in Accounts |-> userRewards(cash, u)]
           b == cash.balances
           v == [u \in Accounts |-> balanceOf(cash, u)]
           m == cash.pendingMints + totalRewards(cash)
<1>1. /\ Good(cash) /\ now \in 0 .. MaxTime /\ cash.lastMintTime <= now
      /\ cash.totalSupply \in Nat /\ cash.pendingMints \in Nat
      /\ b \in [Accounts -> Nat]
  BY DEF IInv, Good, Storage, Uint
<1>2. /\ h \in [Accounts -> Nat]
      /\ Total(h) \in Nat
      /\ Total(h) <= P * m
  BY <1>1, ClaimsNow
<1>3. r \in [Accounts -> Nat] /\ \A u \in Accounts : P * r[u] <= h[u]
  BY <1>1, RewardBound
<1>4. totalRewards(cash) \in Nat /\ m \in Nat
  BY <1>1, AddedBound, ScheduledNow
<1>5. totalSupply(cash) = cash.totalSupply + m
  BY <1>1, <1>4 DEF totalSupply
<1>6. v \in [Accounts -> Nat] /\ \A u \in Accounts : v[u] = b[u] + r[u]
  BY <1>1, <1>3 DEF balanceOf
<1>7. Total(b) = cash.totalSupply
  BY <1>1 DEF Good, Accounted
<1> HIDE DEF r, h, v, m, b
<1>8. Total(r) <= m
  <2> DEFINE z == [u \in Accounts |-> 0]
             e == [u \in Accounts |-> P * r[u]]
  <2>1. P \in Nat \ {0}
    BY ParameterAssumption
  <2>2. z \in [Accounts -> Int] /\ \A u \in Accounts : z[u] = 0
    OBVIOUS
  <2>3. e \in [Accounts -> Int] /\ \A u \in Accounts : e[u] = P * r[u]
    BY <1>3, <2>1
  <2>4. r \in [Accounts -> Int] /\ h \in [Accounts -> Int]
    BY <1>2, <1>3
  <2> HIDE DEF z, e, P
  <2>5. \A u \in Accounts : e[u] = z[u] + P * r[u] /\ e[u] <= h[u]
    <3> TAKE u \in Accounts
    <3>1. r[u] \in Int /\ P * r[u] \in Int
      BY <2>1, <2>4
    <3> QED BY <3>1, <1>3, <2>2, <2>3
  <2>6. Total(e) = Total(z) + P * Total(r)
    BY <2>1, <2>2, <2>3, <2>4, <2>5, AddressAssumption, SumLinear DEF Total
  <2>7. Total(z) = 0 /\ Total(r) \in Int
    BY <2>2, <2>4, AddressAssumption, SumZero, SumType DEF Total
  <2>8. Total(e) <= Total(h)
    BY <2>3, <2>4, <2>5, AddressAssumption, SumMonotone DEF Total
  <2>9. P * Total(r) <= P * m
    <3> DEFINE k == P * Total(r)
               l == P * m
    <3>1. k \in Int /\ l \in Int /\ Total(h) <= l /\ Total(e) = Total(z) + k
      BY <1>2, <1>4, <2>1, <2>6, <2>7
    <3> HIDE DEF k, l
    <3>2. k <= l
      BY <3>1, <1>2, <2>7, <2>8
    <3> QED BY <3>2 DEF k, l
  <2>10. \A x \in Int : P * x <= P * m => x <= m
    BY <1>4, <2>1
  <2> QED BY <2>7, <2>9, <2>10
<1>9. Total(v) = Total(b) + Total(r)
  <2>1. /\ v \in [Accounts -> Int] /\ b \in [Accounts -> Int] /\ r \in [Accounts -> Int]
        /\ \A u \in Accounts : v[u] = b[u] + 1 * r[u]
    BY <1>1, <1>3, <1>6
  <2>2. Total(v) = Total(b) + 1 * Total(r)
    BY <2>1, AddressAssumption, SumLinear DEF Total
  <2>3. Total(r) \in Int
    BY <2>1, AddressAssumption, SumType DEF Total
  <2> QED BY <2>2, <2>3
<1>10. Total(v) <= totalSupply(cash)
  <2>1. Total(r) \in Int
    BY <1>3, AddressAssumption, SumBounds
  <2> QED BY <2>1, <1>1, <1>4, <1>5, <1>7, <1>8, <1>9
<1> QED BY <1>10 DEF v

\* Visible balances are covered by the visible supply at any moment.
THEOREM BalancesAreCovered == Spec => []SupplyCoversBalances
<1>1. IInv => SupplyCoversBalances
  BY BalancesCovered DEF SupplyCoversBalances
<1> QED BY <1>1, Invariance, PTL
-----------------------------------------------------------------------------
(* Every balance can be spent. *)

\* An exempt address, and before initialize everybody, has no rewards.
LEMMA NoScoreNoReward ==
  ASSUME NEW s, Good(s), now \in 0 .. MaxTime, s.lastMintTime <= now, NEW u \in Accounts,
         s.burnScore[u] = 0
  PROVE  userRewards(s, u) = 0 /\ balanceOf(s, u) = s.balances[u]
<1>1. /\ simulatedRewardsPerTokenBurned(s) \in Nat
      /\ s.userRewardsPerTokenBurned[u] \in Nat /\ s.balances[u] \in Nat
  BY ScheduledNow DEF Good, Storage, Uint
<1> DEFINE e == simulatedRewardsPerTokenBurned(s) - s.userRewardsPerTokenBurned[u]
<1>2. e \in Int
  BY <1>1
<1>3. userRewards(s, u) = (0 * e) \div REWARD_PRECISION
  BY DEF userRewards
<1> HIDE DEF e
<1>4. 0 * e = 0 /\ 0 \div REWARD_PRECISION = 0
  BY <1>2, ParameterAssumption
<1> QED BY <1>1, <1>3, <1>4 DEF balanceOf

\* A sender who has settled and holds the amount can pay the tax for it.
LEMMA BurnOnTransferSucceeds ==
  ASSUME NEW s, Good(s), now \in 0 .. MaxTime, s.lastMintTime <= now, NEW u \in Accounts,
         NEW x \in Nat, x <= s.balances[u], Initialized(s), u \notin s.exemptedAddresses
  PROVE  /\ CanBurnOnTransfer(s, u, x)
         /\ burnOnTransfer(s, u, x).balances[u] = s.balances[u] - burnedFromTx(x)
<1> DEFINE y == burnedFromTx(x)
           z == burnedFromLP(s, x)
           l == s.liquidityPool
           a == Burn(s, u, y)
           i == MINT_PER_SECOND * now
           K == MINT_PER_SECOND * MaxTime
           top == MaxSupply
<1>1. /\ s \in Storage /\ l \in Accounts /\ l # u /\ u # ZeroAddress /\ l # ZeroAddress
      /\ s.burnScore[l] = 0 /\ s.balances \in [Accounts -> Nat]
  BY AddressAssumption DEF Good, Gated, Initialized, Storage, Addresses, Uint
<1>2. /\ s.totalSupply \in Nat /\ s.pendingMints \in Nat /\ s.totalBurned \in Nat \ {0}
      /\ s.burnScore[u] \in 0 .. s.totalBurned - 1
      /\ s.balances[u] \in 0 .. s.totalSupply /\ s.balances[l] \in 0 .. s.totalSupply
  <2>1. s.balances[u] \in 0 .. Total(s.balances) /\ s.balances[l] \in 0 .. Total(s.balances)
    BY <1>1, SumBounds
  <2> QED BY <2>1, TotalBurnedPositive DEF Good, Accounted, Storage, Uint
<1>3. top \in Nat /\ top + 1 <= MaxUint /\ s.totalSupply + s.totalBurned - 1 <= top
  <2> DEFINE m == s.pendingMints + totalRewards(s)
  <2>1. i \in Nat /\ K \in Nat /\ i <= K
    BY InflationSplit, ParameterAssumption
  <2>2. m \in Nat /\ s.totalSupply + m + s.totalBurned - 1 <= INITIAL_SUPPLY + i
    BY ScheduledNow
  <2>3. top = INITIAL_SUPPLY + K /\ top + 1 \in Uint
    BY HeadroomAssumption DEF MaxSupply
  <2> HIDE DEF i, K, m, top
  <2> QED BY <1>2, <2>1, <2>2, <2>3, ParameterAssumption DEF Uint
<1>4. x * BURN_ON_TRANSFER \in Uint /\ x * BURN_FROM_LP \in Uint
  <2>1. top * BURN_ON_TRANSFER \in Uint /\ top * BURN_FROM_LP \in Uint
    BY HeadroomAssumption
  <2>2. x <= top /\ BURN_ON_TRANSFER \in Nat /\ BURN_FROM_LP \in Nat
    <3> HIDE DEF top
    <3> QED BY <1>2, <1>3, ParameterAssumption
  <2> HIDE DEF top
  <2>3. /\ x * BURN_ON_TRANSFER \in Nat /\ x * BURN_ON_TRANSFER <= top * BURN_ON_TRANSFER
        /\ x * BURN_FROM_LP \in Nat /\ x * BURN_FROM_LP <= top * BURN_FROM_LP
    BY <1>3, <2>2, TimesMonotone
  <2> DEFINE p == x * BURN_ON_TRANSFER
             q == top * BURN_ON_TRANSFER
             v == x * BURN_FROM_LP
             w == top * BURN_FROM_LP
  <2>4. p \in Nat /\ p <= q /\ q \in Uint /\ v \in Nat /\ v <= w /\ w \in Uint
    BY <2>1, <2>3
  <2> HIDE DEF p, q, v, w
  <2>5. p \in Uint /\ v \in Uint
    BY <2>4, ParameterAssumption DEF Uint
  <2> QED BY <2>5 DEF p, v
<1>5. CanUserRewards(s, l)
  BY <1>1, SettlementSucceeds DEF CanMintRewards
<1>6. balanceOf(s, l) = s.balances[l]
  BY <1>1, NoScoreNoReward
<1>7. balanceOf(s, l) \in Uint
  BY <1>1, <1>6 DEF Storage
<1>8. y \in Nat /\ y <= x
  BY BurnedAmounts
<1>9. z \in Nat /\ z <= s.balances[l]
  <2>1. z \in Nat
    BY <1>1, <1>5, BurnedFromLPType
  <2>2. canBurnFromLP(s) <= s.balances[l]
    BY <1>1, <1>2, <1>6, ParameterAssumption DEF canBurnFromLP
  <2>3. z <= canBurnFromLP(s)
    <3>1. (x * BURN_FROM_LP) \div BURN_PRECISION \in Int
      <4>1. x * BURN_FROM_LP \in Nat
        BY ParameterAssumption
      <4> QED BY <4>1, ParameterAssumption, DivBound
    <3>2. canBurnFromLP(s) \in Int
      BY <1>1, <1>6, ParameterAssumption DEF canBurnFromLP
    <3> QED BY <3>1, <3>2 DEF burnedFromLP
  <2>4. canBurnFromLP(s) \in Int /\ s.balances[l] \in Int
    BY <1>1, <1>6, ParameterAssumption DEF canBurnFromLP
  <2> HIDE DEF z
  <2> QED BY <2>1, <2>2, <2>3, <2>4
<1> HIDE DEF y, z, l
<1>10. CanBurn(s, u, y)
  BY <1>1, <1>2, <1>8 DEF CanBurn
<1>11. a.balances = [s.balances EXCEPT ![u] = s.balances[u] - y]
  BY <1>1 DEF Burn, Storage
<1>12. CanBurn(a, l, z)
  BY <1>1, <1>9, <1>11 DEF CanBurn
<1>13. s.totalBurned + y \in Uint /\ s.burnScore[u] + y \in Uint
  <2> HIDE DEF top
  <2> QED BY <1>2, <1>3, <1>8, ParameterAssumption DEF Uint
<1>14. CanBurnOnTransfer(s, u, x)
  BY <1>4, <1>5, <1>7, <1>10, <1>12, <1>13 DEF CanBurnOnTransfer, y, z, l, a
<1>15. burnOnTransfer(s, u, x).balances = [a.balances EXCEPT ![l] = a.balances[l] - z]
  <2>1. a \in Storage
    BY <1>1, <1>8, <1>10, BurnType
  <2> HIDE DEF a
  <2>2. burnOnTransfer(s, u, x) = [Burn(a, l, z) EXCEPT !.totalBurned = @ + y,
                                                       !.burnScore[u] = @ + y]
    BY DEF burnOnTransfer, a, y, z, l
  <2>3. /\ Burn(a, l, z).balances = [a.balances EXCEPT ![l] = a.balances[l] - z]
        /\ Burn(a, l, z).burnScore = a.burnScore
    BY <2>1 DEF Burn, Storage
  <2> QED BY <2>2, <2>3
<1>16. burnOnTransfer(s, u, x).balances[u] = s.balances[u] - y
  BY <1>1, <1>11, <1>15
<1> QED BY <1>14, <1>16 DEF y

\* An account can send, in one transfer, anything up to its visible balance.
LEMMA SendSucceeds ==
  ASSUME NEW s, Good(s), now \in 0 .. MaxTime, s.lastMintTime <= now,
         NEW from \in Accounts, NEW to \in Accounts, NEW x \in 0 .. balanceOf(s, from)
  PROVE  CanSend(s, from, to, x)
<1> DEFINE p == Settled(s, from)
           q == Burnt(p, from, to, x)
<1>1. s \in Storage /\ s.balances[from] \in Nat /\ from # ZeroAddress /\ to # ZeroAddress
  BY AddressAssumption DEF Good, Storage, Uint
<1>2. balanceOf(s, from) \in Nat /\ x \in Nat /\ x <= balanceOf(s, from)
  <2>1. userRewards(s, from) \in Nat
    BY RewardBound
  <2>2. balanceOf(s, from) \in Nat
    BY <1>1, <2>1 DEF balanceOf
  <2> QED BY <2>2
<1>3. Good(p) /\ p.lastMintTime <= now
  BY SettledGood
<1>4. p.balances[from] = balanceOf(s, from)
  <2>1. CASE Initialized(s)
    BY <2>1, SettlementGood DEF Settled
  <2>2. CASE ~ Initialized(s)
    <3>1. s.burnScore[from] = 0
      BY <2>2 DEF Good, Gated
    <3> QED BY <2>2, <3>1, NoScoreNoReward DEF Settled
  <2> QED BY <2>1, <2>2
<1>5. Initialized(s) => CanMintRewards(s, from)
  BY SettlementSucceeds
<1>6. CASE Taxed(s, from, to)
  <2>1. Initialized(p) /\ from \notin p.exemptedAddresses
    BY <1>1, <1>6, SettledFields DEF Taxed, Initialized
  <2>2. q = burnOnTransfer(p, from, x)
    BY <1>1, <1>6, TaxedSettled DEF Burnt
  <2> HIDE DEF p
  <2>3. /\ CanBurnOnTransfer(p, from, x)
        /\ q.balances[from] = balanceOf(s, from) - burnedFromTx(x)
    BY <1>2, <1>3, <1>4, <2>1, <2>2, BurnOnTransferSucceeds
  <2>4. SentAmount(s, from, to, x) = x - burnedFromTx(x)
    BY <1>6 DEF SentAmount
  <2>5. burnedFromTx(x) \in Nat
    BY <1>2, BurnedAmounts
  <2>6. q.balances[from] >= SentAmount(s, from, to, x)
    BY <1>2, <2>3, <2>4, <2>5
  <2> QED BY <1>1, <1>5, <2>3, <2>6 DEF CanSend, CanMove, p
<1>7. CASE ~ Taxed(s, from, to)
  <2>1. q = p /\ SentAmount(s, from, to, x) = x
    BY <1>1, <1>7, TaxedSettled DEF Burnt, SentAmount
  <2>2. q.balances[from] >= SentAmount(s, from, to, x)
    BY <1>2, <1>4, <2>1
  <2> QED BY <1>1, <1>5, <1>7, <2>2 DEF CanSend, CanMove
<1> QED BY <1>6, <1>7

\* Whatever balanceOf shows can be sent to anybody in one transfer.
THEOREM BalancesAreSpendable == Spec => []BalanceIsSpendable
<1>1. IInv => BalanceIsSpendable
  BY SendSucceeds DEF IInv, BalanceIsSpendable
<1> QED BY <1>1, Invariance, PTL
-----------------------------------------------------------------------------
(* For systems that the token is a part of. *)

\* All that the token promises of a state.
Guarantees ==
  /\ PhysicalSupply /\ BurnScoreAccounted /\ RewardsBacked /\ SettlementNeverReverts
  /\ ExemptHaveNoScore /\ InflationCap /\ SupplyCoversBalances /\ BalanceIsSpendable

\* Whatever keeps the token's invariant keeps its promises.
LEMMA InvariantGuarantees == ASSUME IInv PROVE Guarantees
<1>1. PhysicalSupply /\ BurnScoreAccounted
  BY DEF IInv, Good, Accounted, PhysicalSupply, BurnScoreAccounted
<1>2. RewardsBacked /\ ExemptHaveNoScore
  BY DEF IInv, Good, Backed, Gated, RewardsBacked, ExemptHaveNoScore
<1>3. SettlementNeverReverts
  BY SettlementSucceeds DEF IInv, SettlementNeverReverts
<1>4. InflationCap
  BY Capped
<1>5. SupplyCoversBalances
  BY BalancesCovered DEF SupplyCoversBalances
<1>6. BalanceIsSpendable
  BY SendSucceeds DEF IInv, BalanceIsSpendable
<1> QED BY <1>1, <1>2, <1>3, <1>4, <1>5, <1>6 DEF Guarantees
=============================================================================
