-------------------------- MODULE CashSystem_proofs --------------------------
(***************************************************************************)
(* Proofs about CashSystem for any tokens, any terms the owner lists and   *)
(* any depth of callbacks.                                                 *)
(*                                                                         *)
(* The inductive invariant SystemInv holds, beside that of the token       *)
(* (CyberCash_proofs), what the Migrator relies on: the terms of a listed  *)
(* token are positive and so stay (Listed), every pending call has a fair  *)
(* quote for a listed token (Pending), only the innermost call may be of a *)
(* token that does not call back (Nested), and the quote of such a token   *)
(* can be honoured (Honoured).                                             *)
(*                                                                         *)
(* That the system implements MigrationDesk, so that CASH leaves the       *)
(* Migrator only by fair migrations, rests in addition on what keeps       *)
(* everybody else's hands off the reserve (Untouchable): the Migrator is   *)
(* not the pool, whose tokens others' transfers burn, and has approved     *)
(* nobody.  A desk lists a token once, so one that is not listed must have *)
(* no terms yet (Unlisted).                                                *)
(***************************************************************************)
EXTENDS CashSystem, CyberCashLedger_proofs

-----------------------------------------------------------------------------
(* The quote. *)

\* Products with a positive number keep a strict order, and reveal it.
LEMMA TimesStrict ==
  ASSUME NEW a \in Nat, NEW b \in Nat, NEW c \in Nat \ {0}
  PROVE  a < b <=> a * c < b * c
OBVIOUS

\* Integer division, from both sides.
LEMMA DivTight ==
  ASSUME NEW a \in Nat, NEW b \in Nat \ {0}
  PROVE  /\ a \div b \in Nat
         /\ (a \div b) * b <= a
         /\ a < (a \div b + 1) * b
OBVIOUS

\* Whatever is asked for and whatever is there, the quote is fair: capped or
\* not, both roundings favour the reserve by less than a base unit.
LEMMA QuoteFair ==
  ASSUME NEW amount \in Nat, NEW ratio \in Nat \ {0}, NEW unit \in Nat \ {0},
         NEW balance \in Nat, CanMigrationResult(amount, ratio, unit, balance)
  PROVE  /\ spendAmount(amount, ratio, unit, balance) \in Nat
         /\ receivedAmount(amount, ratio, unit, balance) \in 0 .. balance
         /\ Fair(spendAmount(amount, ratio, unit, balance),
                 receivedAmount(amount, ratio, unit, balance), ratio, unit)
<1> DEFINE q == requestedCash(amount, ratio, unit)
           w == amount * ratio
<1>1. /\ w \in Nat /\ q \in Nat
      /\ q * unit <= w /\ w < (q + 1) * unit
  <2>1. w \in Nat
    BY TimesMonotone
  <2>2. q = w \div unit
    BY DEF requestedCash
  <2> HIDE DEF w, q
  <2> QED BY <2>1, <2>2, DivTight
<1>2. CASE q < balance
  <2>1. /\ spendAmount(amount, ratio, unit, balance) = amount
        /\ receivedAmount(amount, ratio, unit, balance) = q
    BY <1>2 DEF spendAmount, receivedAmount
  <2>2. (amount + 1) * ratio = w + ratio
    OBVIOUS
  <2> HIDE DEF q
  <2>3. q * unit < (amount + 1) * ratio
    <3> HIDE DEF w
    <3>1. (amount + 1) * ratio \in Int /\ q * unit \in Int
      BY <1>1, TimesMonotone
    <3> QED BY <1>1, <2>2, <3>1
  <2> QED BY <1>1, <1>2, <2>1, <2>3 DEF Fair
<1>3. CASE ~ (q < balance)
  <2> DEFINE v == amount * balance
             s == v \div q
  <2>1. q \in Nat \ {0} /\ balance <= q
    BY <1>1, <1>3 DEF CanMigrationResult
  <2>2. /\ spendAmount(amount, ratio, unit, balance) = s
        /\ receivedAmount(amount, ratio, unit, balance) = balance
    BY <1>3 DEF spendAmount, receivedAmount
  <2> HIDE DEF q
  <2>3. v \in Nat /\ s \in Nat /\ s * q <= v /\ v < (s + 1) * q
    <3>1. v \in Nat
      BY TimesMonotone
    <3> HIDE DEF v
    <3> QED BY <2>1, <3>1, DivTight
  <2> HIDE DEF s
  <2>4. balance * unit < (s + 1) * ratio
    <3>1. v * ratio < ((s + 1) * q) * ratio
      <4> HIDE DEF v
      <4>1. (s + 1) * q \in Nat
        BY <2>1, <2>3
      <4> QED BY <2>3, <4>1, TimesStrict
    <3>2. (q * unit) * balance <= w * balance
      <4> HIDE DEF w
      <4>1. q * unit \in Nat
        BY <1>1, TimesMonotone
      <4> QED BY <1>1, <4>1, TimesMonotone
    <3>3. /\ v * ratio = w * balance
          /\ ((s + 1) * q) * ratio = ((s + 1) * ratio) * q
          /\ (q * unit) * balance = (balance * unit) * q
      BY <1>1, <2>1, <2>3
    <3> DEFINE g == balance * unit
               h == (s + 1) * ratio
    <3>4. g \in Nat /\ h \in Nat /\ w * balance \in Nat
      BY <1>1, <2>3, TimesMonotone
    <3>5. g * q \in Nat /\ h * q \in Nat
      <4> HIDE DEF g, h
      <4> QED BY <2>1, <3>4, TimesMonotone
    <3>6. g * q < h * q
      <4>1. g * q <= w * balance /\ w * balance < h * q
        BY <3>1, <3>2, <3>3
      <4> HIDE DEF g, h, w
      <4> QED BY <3>4, <3>5, <4>1
    <3>7. g < h
      <4> HIDE DEF g, h
      <4> QED BY <2>1, <3>4, <3>6, TimesStrict
    <3> QED BY <3>7
  <2>5. s * ratio < (balance + 1) * unit
    <3> DEFINE g == s * ratio
               h == (balance + 1) * unit
               k == balance * unit
    <3>0. g \in Nat /\ h \in Nat /\ k \in Nat /\ h = k + unit
      BY <2>3, TimesMonotone
    <3>1. CASE balance = 0
      <4>1. v = 0
        BY <3>1
      <4>2. s * q <= 0
        BY <2>3, <4>1
      <4>3. s = 0
        BY <2>1, <2>3, <4>2
      <4> QED BY <3>1, <4>3
    <3>2. CASE balance # 0
      <4>1. (s * q) * ratio <= v * ratio
        <5> HIDE DEF v
        <5>1. s * q \in Nat
          BY <2>1, <2>3, TimesMonotone
        <5> QED BY <2>3, <5>1, TimesMonotone
      <4>2. w * balance < ((q + 1) * unit) * balance
        <5> HIDE DEF w
        <5>1. (q + 1) * unit \in Nat
          BY <1>1, TimesMonotone
        <5> QED BY <1>1, <3>2, <5>1, TimesStrict
      <4>3. /\ (s * q) * ratio = g * q
            /\ v * ratio = w * balance
            /\ ((q + 1) * unit) * balance = k * q + balance * unit
            /\ h * q = k * q + unit * q
        BY <1>1, <2>1, <2>3
      <4>4. balance * unit <= q * unit /\ q * unit = unit * q
        BY <2>1, TimesMonotone
      <4>5. g * q < h * q
        <5>1. /\ g * q \in Nat /\ h * q \in Nat /\ k * q \in Nat /\ w * balance \in Nat
              /\ balance * unit \in Nat /\ unit * q \in Nat /\ q * unit \in Nat
          <6> HIDE DEF g, h, k, w
          <6> QED BY <1>1, <2>1, <3>0, TimesMonotone
        <5>2. g * q <= w * balance /\ w * balance < k * q + balance * unit
          BY <4>1, <4>2, <4>3
        <5> HIDE DEF g, h, w
        <5> QED BY <4>3, <4>4, <5>1, <5>2
      <4> HIDE DEF g, h
      <4> QED BY <2>1, <3>0, <4>5, TimesStrict DEF g, h
    <3> QED BY <3>1, <3>2
  <2> QED BY <2>2, <2>3, <2>4, <2>5 DEF Fair
<1> QED BY <1>2, <1>3
-----------------------------------------------------------------------------
(* The inductive invariant. *)

Listed ==
  /\ migrator \in MigratorStorage
  /\ \A t \in Tokens : migrator.allowedTokens[t] => migrator.cashPerWholeTokens[t] # 0

\* A quote is at terms that are settled.
Pending(call) ==
  /\ call.received \in Uint
  /\ migrator.allowedTokens[call.token]
  /\ Fair(call.spend, call.received, ratioOf(call.token), unitOf(call.token))

Nested == \A i \in 1 .. Len(calls) - 1 : calls[i].token \in HookTokens

Honoured ==
  calls # <<>> /\ calls[Len(calls)].token \notin HookTokens =>
    /\ calls[Len(calls)].spend <= tokens[calls[Len(calls)].token][calls[Len(calls)].user]
    /\ calls[Len(calls)].received <= reserve

SystemInv ==
  /\ IInv
  /\ Listed
  /\ tokens \in [Tokens -> [Accounts -> Nat]]
  /\ calls \in Seq(Call)
  /\ \A i \in 1 .. Len(calls) : Pending(calls[i])
  /\ Nested
  /\ Honoured

\* What one transaction of the token does, of any amount, within the system.
LEMMA TransferInvariant ==
  ASSUME IInv, NEW from \in Accounts, NEW to \in Addresses, NEW x \in Uint,
         transfer(from, to, x)
  PROVE  IInv'
<1>1. /\ Good(cash) /\ now \in 0 .. MaxTime /\ cash.lastMintTime <= now
      /\ CanSend(cash, from, to, x) /\ cash' = Send(cash, from, to, x) /\ now' = now
  BY DEF transfer, IInv
<1>2. Good(cash') /\ cash'.lastMintTime <= now
  BY <1>1, SendGood
<1> QED BY <1>1, <1>2 DEF IInv

\* What balanceOf shows fits a uint256.
LEMMA VisibleUint ==
  ASSUME Good(cash), now \in 0 .. MaxTime, cash.lastMintTime <= now, NEW u \in Accounts
  PROVE  balanceOf(cash, u) \in Uint
<1>1. CASE Initialized(cash)
  <2>1. now <= now
    BY ParameterAssumption
  <2>2. /\ Good(mintRewards(cash, u))
        /\ mintRewards(cash, u).balances[u] = balanceOf(cash, u)
    BY <1>1, <2>1, SettlementGood
  <2> QED BY <2>2 DEF Good, Storage
<1>2. CASE ~ Initialized(cash)
  <2>1. cash.burnScore[u] = 0 /\ cash.balances[u] \in Uint
    BY <1>2 DEF Good, Gated, Storage
  <2> QED BY <2>1, NoScoreNoReward
<1> QED BY <1>1, <1>2

\* The last element of a sequence, and what is left without it.
LEMMA LastFront ==
  ASSUME NEW S, NEW s \in Seq(S), s # <<>>
  PROVE  /\ Len(s) \in Nat \ {0}
         /\ Last(s) = s[Len(s)] /\ Last(s) \in S
         /\ Front(s) \in Seq(S) /\ Len(Front(s)) = Len(s) - 1
         /\ \A i \in 1 .. Len(s) - 1 : Front(s)[i] = s[i]
<1>1. Len(s) \in Nat \ {0}
  OBVIOUS
<1>2. Last(s) = s[Len(s)] /\ s[Len(s)] \in S
  BY <1>1 DEF Last
<1>3. /\ Front(s) \in Seq(S) /\ Len(Front(s)) = Len(s) - 1
      /\ \A i \in 1 .. Len(s) - 1 : Front(s)[i] = s[i]
  <2>1. Front(s) = SubSeq(s, 1, Len(s) - 1)
    BY DEF Front
  <2>2. \A i \in 1 .. Len(s) - 1 : s[i] \in S
    BY <1>1
  <2> DEFINE n == Len(s) - 1
  <2>3. n \in Nat /\ n \in Int /\ 1 \in Int
    BY <1>1
  <2>4. \A i \in 1 .. n : s[i] \in S
    BY <2>2
  <2> HIDE DEF n
  <2>5. /\ SubSeq(s, 1, n) \in Seq(S)
        /\ Len(SubSeq(s, 1, n)) = IF 1 <= n THEN n - 1 + 1 ELSE 0
        /\ \A i \in 1 .. n - 1 + 1 : SubSeq(s, 1, n)[i] = s[1 + i - 1]
    BY <2>3, <2>4
  <2>6. Len(SubSeq(s, 1, n)) = n /\ \A i \in 1 .. n : SubSeq(s, 1, n)[i] = s[i]
    BY <2>3, <2>5
  <2> QED BY <2>1, <2>5, <2>6 DEF n
<1> QED BY <1>1, <1>2, <1>3

\* After the deployment nothing is listed or pending.
LEMMA SystemInit_Inv == SystemInit => SystemInv
<1> SUFFICES ASSUME SystemInit PROVE SystemInv
  OBVIOUS
<1>1. IInv
  BY InitInvariant DEF SystemInit
<1>2. Listed
  BY SystemAssumption, AddressAssumption, ParameterAssumption, DecimalAssumption
     DEF SystemInit, Listed, Deployed, MigratorStorage, Uint
<1>3. tokens \in [Tokens -> [Accounts -> Nat]]
  BY SystemAssumption, ParameterAssumption DEF SystemInit, Uint
<1>4. calls = <<>> /\ calls \in Seq(Call) /\ Len(calls) = 0
  BY DEF SystemInit
<1> QED BY <1>1, <1>2, <1>3, <1>4 DEF SystemInv, Nested, Honoured

\* The transactions of the token that the system runs are ones of the token.
LEMMA CashTransactionInvariant ==
  ASSUME IInv, NEW u \in Users, CashTransaction(u)
  PROVE  IInv'
<1>1. u \in Accounts
  BY DEF Users
<1>2. Next
  BY <1>1 DEF CashTransaction, Next
<1> QED BY <1>2, NextInvariant

\* While a transaction may start no quote is owed for a standard token.
LEMMA NothingOwed ==
  ASSUME calls \in Seq(Call), MayCall, UNCHANGED calls
  PROVE  Honoured'
BY DEF MayCall, Honoured, Last

\* Every action keeps the invariant.
LEMMA SystemNextInv == SystemInv /\ [SystemNext]_systemVars => SystemInv'
<1> SUFFICES ASSUME SystemInv, [SystemNext]_systemVars PROVE SystemInv'
  OBVIOUS
<1>0. /\ IInv /\ Listed /\ tokens \in [Tokens -> [Accounts -> Nat]] /\ calls \in Seq(Call)
      /\ \A i \in 1 .. Len(calls) : Pending(calls[i])
      /\ Nested /\ Honoured
      /\ Users \subseteq Accounts /\ MigratorAddress \in Accounts
      /\ Len(calls) \in Nat /\ \A i \in 1 .. Len(calls) : calls[i] \in Call
  BY SystemAssumption DEF SystemInv, Users
<1>1. ASSUME NEW u \in Users, MayCall, CashTransaction(u), UNCHANGED <<migrator, tokens, calls>>
      PROVE  SystemInv'
  <2>1. IInv'
    BY <1>0, <1>1, CashTransactionInvariant
  <2>2. Honoured'
    BY <1>0, <1>1, NothingOwed
  <2>3. (\A i \in 1 .. Len(calls) : Pending(calls[i]))'
    BY <1>0, <1>1 DEF Pending, ratioOf, unitOf, tokenDecimalAdjustment
  <2> QED BY <1>0, <1>1, <2>1, <2>2, <2>3 DEF SystemInv, Listed, Nested
<1>2. ASSUME NEW u \in Users, NEW a \in CashAddresses, MayCall, setCashAddress(u, a)
      PROVE  SystemInv'
  <2>1. IInv' /\ Honoured'
    BY <1>0, <1>2, NextInvariant, NothingOwed DEF setCashAddress, vars
  <2>2. migrator' = [migrator EXCEPT !.cyberCash = a] /\ UNCHANGED <<tokens, calls>>
    BY <1>2 DEF setCashAddress, SetCashAddress
  <2>3. Listed'
    BY <1>0, <2>2 DEF Listed, MigratorStorage
  <2>4. (\A i \in 1 .. Len(calls) : Pending(calls[i]))'
    BY <1>0, <2>2 DEF Listed, MigratorStorage, Pending, ratioOf, unitOf, tokenDecimalAdjustment
  <2> QED BY <1>0, <2>1, <2>2, <2>3, <2>4 DEF SystemInv, Nested
<1>3. ASSUME NEW u \in Users, NEW t \in Tokens, NEW r \in Ratios, NEW d \in Decimals,
             MayCall, addTokenMigration(u, t, r, d)
      PROVE  SystemInv'
  <2>1. IInv' /\ Honoured'
    BY <1>0, <1>3, NextInvariant, NothingOwed DEF addTokenMigration, vars
  <2>2. /\ migrator' = AddTokenMigration(migrator, t, r, d) /\ UNCHANGED <<tokens, calls>>
        /\ ~ migrator.allowedTokens[t] /\ r # 0 /\ r \in Uint /\ d \in 0 .. MaxDecimals
    BY <1>3, SystemAssumption, DecimalAssumption DEF addTokenMigration, CanAddTokenMigration
  <2>3. Listed'
    BY <1>0, <2>2 DEF Listed, MigratorStorage, AddTokenMigration
  <2>4. \A s \in Tokens : migrator.allowedTokens[s] =>
          /\ migrator'.allowedTokens[s]
          /\ migrator'.cashPerWholeTokens[s] = migrator.cashPerWholeTokens[s]
          /\ migrator'.tokenDecimals[s] = migrator.tokenDecimals[s]
    BY <1>0, <2>2 DEF Listed, MigratorStorage, AddTokenMigration
  <2>5. (\A i \in 1 .. Len(calls) : Pending(calls[i]))'
    BY <1>0, <2>2, <2>4 DEF Call, Pending, ratioOf, unitOf, tokenDecimalAdjustment
  <2> QED BY <1>0, <2>1, <2>2, <2>3, <2>5 DEF SystemInv, Nested
<1>4. ASSUME NEW u \in Users, NEW t \in Tokens, NEW x \in MigrateAmounts,
             MayCall, migrate(u, t, x)
      PROVE  SystemInv'
  <2> DEFINE call == [user  |-> u, token |-> t,
                      spend    |-> spendAmount(x, ratioOf(t), unitOf(t), reserve),
                      received |-> receivedAmount(x, ratioOf(t), unitOf(t), reserve)]
  <2>1. /\ calls' = Append(calls, call) /\ UNCHANGED <<cash, now, migrator, tokens>>
        /\ migrator.allowedTokens[t]
        /\ CanMigrationResult(x, ratioOf(t), unitOf(t), reserve)
        /\ tokens[t][u] >= Last(calls').spend
    BY <1>4 DEF migrate
  <2>2. IInv'
    BY <1>0, <2>1, NextInvariant DEF vars
  <2>3. reserve \in Uint
    BY <1>0, VisibleUint DEF IInv, reserve
  <2>4. ratioOf(t) \in Nat \ {0} /\ unitOf(t) \in Nat \ {0} /\ x \in Nat
    BY <1>0, <2>1, SystemAssumption, DecimalAssumption
       DEF Listed, MigratorStorage, ratioOf, unitOf, tokenDecimalAdjustment, Uint
  <2>5. /\ call.spend \in Nat /\ call.received \in 0 .. reserve
        /\ Fair(call.spend, call.received, ratioOf(t), unitOf(t))
    BY <2>1, <2>3, <2>4, QuoteFair DEF Uint
  <2>6. call \in Call /\ call.token = t /\ call.user = u /\ Pending(call)
    <3>1. call.received \in Uint /\ call.received \in Nat
      BY <2>3, <2>5, ParameterAssumption DEF Uint
    <3>2. call \in Call /\ call.token = t /\ call.user = u
      BY <2>5, <3>1 DEF Call
    <3> HIDE DEF call
    <3> QED BY <2>1, <2>5, <3>1, <3>2 DEF Pending
  <2> HIDE DEF call
  <2>7. /\ calls' \in Seq(Call) /\ Len(calls') = Len(calls) + 1
        /\ \A i \in 1 .. Len(calls) : calls'[i] = calls[i]
        /\ calls'[Len(calls')] = call
    BY <1>0, <2>1, <2>6
  <2>8. (\A i \in 1 .. Len(calls) : Pending(calls[i]))'
    <3>1. ASSUME NEW c, Pending(c) PROVE Pending(c)'
      BY <2>1, <3>1 DEF Pending, ratioOf, unitOf, tokenDecimalAdjustment
    <3>2. \A i \in 1 .. Len(calls') : Pending(calls'[i])
      BY <1>0, <2>6, <2>7
    <3> QED BY <3>1, <3>2 DEF Pending
  <2>9. Nested'
    <3>1. calls # <<>> => calls[Len(calls)].token \in HookTokens
      BY <1>4 DEF MayCall, Last
    <3> QED BY <1>0, <2>7, <3>1 DEF Nested
  <2>10. Honoured'
    <3>1. Last(calls') = call /\ reserve' = reserve
      BY <2>1, <2>7 DEF Last, reserve, balanceOf, userRewards, simulatedRewardsPerTokenBurned,
                       totalRewards
    <3>2. call.spend <= tokens[t][u]
      BY <1>0, <2>1, <2>5, <3>1
    <3> QED BY <2>1, <2>3, <2>5, <2>6, <2>7, <3>1, <3>2 DEF Honoured, Uint
  <2> QED BY <1>0, <2>1, <2>2, <2>7, <2>8, <2>9, <2>10 DEF SystemInv, Listed
<1>5. CASE payout
  <2> DEFINE call == calls[Len(calls)]
  <2>1. /\ calls # <<>> /\ calls' = Front(calls) /\ UNCHANGED migrator
        /\ tokens[call.token][call.user] >= call.spend
        /\ tokens' = TokensTaken(call.token, call.user, call.spend)
        /\ transfer(MigratorAddress, call.user, call.received)
    BY <1>5 DEF payout, Last
  <2>2. /\ call \in Call /\ Pending(call)
        /\ Front(calls) \in Seq(Call) /\ Len(Front(calls)) = Len(calls) - 1
        /\ Len(calls) \in Nat \ {0}
        /\ \A i \in 1 .. Len(calls) - 1 : Front(calls)[i] = calls[i]
    <3>1. /\ Len(calls) \in Nat \ {0} /\ Front(calls) \in Seq(Call)
          /\ Len(Front(calls)) = Len(calls) - 1
          /\ \A i \in 1 .. Len(calls) - 1 : Front(calls)[i] = calls[i]
      BY <1>0, <2>1, LastFront
    <3>2. Len(calls) \in 1 .. Len(calls)
      BY <3>1
    <3> QED BY <1>0, <3>1, <3>2
  <2> HIDE DEF call
  <2>3. IInv'
    BY <1>0, <2>1, <2>2, TransferInvariant DEF Call, Pending, Addresses
  <2>4. tokens' \in [Tokens -> [Accounts -> Nat]]
    <3>1. /\ call.token \in Tokens /\ call.user \in Accounts /\ call.user # MigratorAddress
          /\ call.spend \in Nat
      BY <2>2 DEF Call, Users
    <3> QED BY <1>0, <2>1, <3>1 DEF TokensTaken
  <2>5. (\A i \in 1 .. Len(calls) : Pending(calls[i]))'
    <3>1. ASSUME NEW c, Pending(c) PROVE Pending(c)'
      BY <2>1, <3>1 DEF Pending, ratioOf, unitOf, tokenDecimalAdjustment
    <3>2. \A i \in 1 .. Len(calls') : Pending(calls'[i])
      BY <1>0, <2>1, <2>2
    <3> QED BY <3>1, <3>2 DEF Pending
  <2>6. Nested'
    BY <1>0, <2>1, <2>2 DEF Nested
  <2>7. Honoured'
    BY <1>0, <2>1, <2>2 DEF Nested, Honoured
  <2> QED BY <1>0, <2>1, <2>2, <2>3, <2>4, <2>5, <2>6, <2>7 DEF SystemInv, Listed
<1>6. ASSUME calls = <<>>, Tick, UNCHANGED <<migrator, tokens, calls>>
      PROVE  SystemInv'
  <2>1. IInv'
    BY <1>0, <1>6, NextInvariant DEF Next
  <2> QED BY <1>0, <1>6, <2>1 DEF SystemInv, Listed, Nested, Honoured
<1>7. CASE UNCHANGED systemVars
  <2>1. IInv'
    BY <1>0, <1>7, NextInvariant DEF systemVars, vars
  <2>2. (\A i \in 1 .. Len(calls) : Pending(calls[i]))'
    BY <1>0, <1>7 DEF systemVars, Pending, ratioOf, unitOf, tokenDecimalAdjustment
  <2>3. reserve' = reserve
    BY <1>7 DEF systemVars, reserve, balanceOf, userRewards, simulatedRewardsPerTokenBurned,
                totalRewards
  <2> QED BY <1>0, <1>7, <2>1, <2>2, <2>3 DEF systemVars, SystemInv, Listed, Nested, Honoured
<1> QED BY <1>1, <1>2, <1>3, <1>4, <1>5, <1>6, <1>7 DEF SystemNext

\* The invariant holds in every reachable state of the system.
LEMMA SystemInvariance == SystemSpec => []SystemInv
<1> QED BY SystemInit_Inv, SystemNextInv, PTL DEF SystemSpec
-----------------------------------------------------------------------------
(* The theorems. *)

\* Each variable of each contract keeps its type, whatever calls back.
THEOREM SystemTypeCorrect == SystemSpec => []SystemTypeOK
<1>1. SystemInv => SystemTypeOK
  BY DEF SystemInv, IInv, Good, Listed, SystemTypeOK, TypeOK
<1> QED BY <1>1, SystemInvariance, PTL

\* No callback of any depth makes a pending quote unfair.
THEOREM PendingQuotesAreFair == SystemSpec => []QuotesAreFair
<1>1. SystemInv => QuotesAreFair
  BY DEF SystemInv, Pending, QuotesAreFair
<1> QED BY <1>1, SystemInvariance, PTL

\* A quote for a token that does not call back can be taken and paid.
THEOREM QuotesAreHonoured == SystemSpec => []QuoteIsHonoured
<1>1. ASSUME SystemInv, calls # <<>>, Last(calls).token \notin HookTokens
      PROVE  /\ tokens[Last(calls).token][Last(calls).user] >= Last(calls).spend
             /\ CanSend(cash, MigratorAddress, Last(calls).user, Last(calls).received)
  <2> DEFINE call == calls[Len(calls)]
  <2>1. call \in Call /\ Last(calls) = call /\ Pending(call)
    <3>1. Len(calls) \in Nat \ {0} /\ Last(calls) = call
      BY <1>1, LastFront DEF SystemInv
    <3>2. Len(calls) \in 1 .. Len(calls)
      BY <3>1
    <3> QED BY <1>1, <3>1, <3>2 DEF SystemInv
  <2> HIDE DEF call
  <2>2. /\ Good(cash) /\ now \in 0 .. MaxTime /\ cash.lastMintTime <= now
        /\ MigratorAddress \in Accounts /\ call.user \in Accounts
    BY <1>1, <2>1, SystemAssumption DEF SystemInv, IInv, Call, Users
  <2>3. /\ call.spend <= tokens[call.token][call.user]
        /\ call.received \in 0 .. balanceOf(cash, MigratorAddress)
    BY <1>1, <2>1, <2>2, VisibleUint DEF call, SystemInv, Honoured, reserve, Pending, Uint
  <2>4. tokens[call.token][call.user] \in Nat /\ call.spend \in Nat
    BY <1>1, <2>1, <2>2 DEF SystemInv, Call
  <2> QED BY <2>1, <2>2, <2>3, <2>4, SendSucceeds
<1>2. SystemInv => QuoteIsHonoured
  BY <1>1 DEF QuoteIsHonoured
<1> QED BY <1>2, SystemInvariance, PTL
-----------------------------------------------------------------------------
(* The desk: what nobody but a migration does to the reserve. *)

Untouchable ==
  /\ cash.liquidityPool # MigratorAddress
  /\ \A u \in Accounts : cash.allowances[MigratorAddress][u] = 0

Unlisted ==
  \A t \in Tokens : ~ migrator.allowedTokens[t] => migrator.cashPerWholeTokens[t] = 0

DeskInv == Untouchable /\ Unlisted
-----------------------------------------------------------------------------
(* The reserve. *)

\* What the reserve pays and what it may get when somebody transfers.
LEMMA ReserveAfterSend ==
  ASSUME NEW s, Good(s), now \in 0 .. MaxTime, s.lastMintTime <= now,
         NEW from \in Accounts, NEW to \in Addresses, NEW x \in Uint,
         CanSend(s, from, to, x), s.liquidityPool # MigratorAddress
  PROVE  LET t == Send(s, from, to, x)
         IN  /\ t.allowances = s.allowances /\ t.liquidityPool = s.liquidityPool
             /\ balanceOf(s, MigratorAddress) \in Int
             /\ from # MigratorAddress \/ x = 0 =>
                  balanceOf(t, MigratorAddress) >= balanceOf(s, MigratorAddress)
             /\ from = MigratorAddress /\ to # MigratorAddress =>
                  balanceOf(t, MigratorAddress) = balanceOf(s, MigratorAddress) - x
<1> DEFINE t == Send(s, from, to, x)
           y == burnedFromTx(x)
           m == MigratorAddress
<1>1. m \in Accounts /\ x \in Nat /\ balanceOf(s, m) \in Int
  <2>1. m \in Accounts /\ x \in Nat
    BY SystemAssumption, ParameterAssumption DEF Uint
  <2>2. userRewards(s, m) \in Int /\ s.balances[m] \in Int
    BY <2>1, RewardBound DEF Good, Storage, Uint
  <2> QED BY <2>1, <2>2 DEF balanceOf
<1>2. y \in Nat /\ y <= x
  BY <1>1, BurnedAmounts
<1>3. CASE Taxed(s, from, to)
  <2>1. Taxing(s, t, from, to, x)
    BY <1>3, TaxedSend
  <2> HIDE DEF t
  <2>2. /\ t.allowances = s.allowances /\ t.liquidityPool = s.liquidityPool
        /\ balanceOf(t, m) = IF from = to /\ m = from THEN balanceOf(s, m) - y
                             ELSE IF m = from THEN balanceOf(s, m) - x
                             ELSE IF m = to THEN balanceOf(s, m) + (x - y)
                             ELSE balanceOf(s, m)
    BY <1>1, <2>1 DEF Taxing
  <2> HIDE DEF y, m
  <2>3. from # m \/ x = 0 => balanceOf(t, m) >= balanceOf(s, m)
    BY <1>1, <1>2, <2>2
  <2> QED BY <1>1, <2>2, <2>3 DEF t, m
<1>4. CASE ~ Taxed(s, from, to)
  <2>1. /\ t.allowances = s.allowances /\ t.liquidityPool = s.liquidityPool
        /\ balanceOf(t, m) = IF from = to THEN balanceOf(s, m)
                             ELSE IF m = from THEN balanceOf(s, m) - x
                             ELSE IF m = to THEN balanceOf(s, m) + x
                             ELSE balanceOf(s, m)
    BY <1>1, <1>4, FreeSend
  <2> HIDE DEF t, m
  <2>2. from # m \/ x = 0 => balanceOf(t, m) >= balanceOf(s, m)
    BY <1>1, <2>1
  <2> QED BY <1>1, <2>1, <2>2 DEF t, m
<1> QED BY <1>3, <1>4

\* The reserve is a number.
LEMMA ReserveIsNumber == IInv => reserve \in Nat
<1> SUFFICES ASSUME IInv PROVE reserve \in Nat
  OBVIOUS
<1>1. userRewards(cash, MigratorAddress) \in Nat /\ cash.balances[MigratorAddress] \in Nat
  BY SystemAssumption, RewardBound DEF IInv, Good, Storage, Uint
<1> QED BY <1>1 DEF reserve, balanceOf

\* Within a block the reserve is what balanceOf shows of the next storage.
LEMMA ReserveNext ==
  ASSUME now' = now
  PROVE  reserve' = balanceOf(cash', MigratorAddress)
BY SameBlock, SystemAssumption DEF reserve

\* No transaction of a user takes CASH from the reserve.
LEMMA UsersKeepReserve ==
  ASSUME IInv, IInv', Untouchable, NEW u \in Users, CashTransaction(u)
  PROVE  Untouchable' /\ reserve' >= reserve
<1> DEFINE m == MigratorAddress
<1>0. /\ Good(cash) /\ now \in 0 .. MaxTime /\ cash.lastMintTime <= now /\ cash \in Storage
      /\ m \in Accounts /\ u \in Accounts /\ u # m
      /\ cash.liquidityPool # m
      /\ \A v \in Accounts : cash.allowances[m][v] = 0
      /\ reserve = balanceOf(cash, m)
  BY SystemAssumption DEF IInv, Good, Users, Untouchable, reserve
<1>1. balanceOf(cash, m) \in Int
  BY <1>0, ReserveIsNumber DEF reserve
<1> SUFFICES /\ now' = now /\ Untouchable'
             /\ balanceOf(cash', m) >= balanceOf(cash, m)
  BY <1>0, <1>1, ReserveNext
<1>2. ASSUME now' = now, cash'.liquidityPool # m, cash'.allowances = cash.allowances,
             balanceOf(cash', m) >= balanceOf(cash, m)
      PROVE  /\ now' = now /\ Untouchable'
             /\ balanceOf(cash', m) >= balanceOf(cash, m)
  BY <1>0, <1>2 DEF Untouchable
<1>3. ASSUME NEW p \in Pools, NEW r \in Migrators, initialize(u, p, r)
      PROVE  /\ now' = now /\ Untouchable'
             /\ balanceOf(cash', m) >= balanceOf(cash, m)
  <2>1. /\ cash'.liquidityPool = p /\ cash'.allowances = cash.allowances /\ now' = now
        /\ p # m
    BY <1>0, <1>3, SystemAssumption DEF initialize, Storage
  <2>2. balanceOf(cash', m) = balanceOf(cash, m)
    BY <1>0, <1>3, InitializeInvisible
  <2> QED BY <1>0, <1>1, <1>2, <2>1, <2>2
<1>4. ASSUME NEW t \in Addresses, NEW x \in Amounts, transfer(u, t, x)
      PROVE  /\ now' = now /\ Untouchable'
             /\ balanceOf(cash', m) >= balanceOf(cash, m)
  <2>1. x \in Uint /\ CanSend(cash, u, t, x) /\ cash' = Send(cash, u, t, x) /\ now' = now
    BY <1>4, ParameterAssumption DEF transfer
  <2> QED BY <1>0, <1>2, <2>1, ReserveAfterSend
<1>5. ASSUME NEW f \in Accounts, NEW t \in Addresses, NEW x \in Amounts,
             transferFrom(u, f, t, x)
      PROVE  /\ now' = now /\ Untouchable'
             /\ balanceOf(cash', m) >= balanceOf(cash, m)
  <2> DEFINE s == SpendAllowance(cash, f, u, x)
  <2>1. /\ x \in Uint /\ CanSpendAllowance(cash, f, u, x)
        /\ CanSend(s, f, t, x) /\ cash' = Send(s, f, t, x) /\ now' = now
    BY <1>5, ParameterAssumption DEF transferFrom
  <2>2. /\ Good(s) /\ s.lastMintTime <= now
        /\ balanceOf(s, m) = balanceOf(cash, m) /\ s.liquidityPool = cash.liquidityPool
        /\ \A v \in Accounts :
             /\ cash.allowances[m][v] - s.allowances[m][v] \in {0, x}
             /\ <<m, v>> # <<f, u>> => s.allowances[m][v] = cash.allowances[m][v]
    BY <1>0, <2>1, SpentGood
  <2>3. f # m \/ x = 0
    BY <1>0, <2>1 DEF CanSpendAllowance, Uint
  <2>4. \A v \in Accounts : s.allowances[m][v] = 0
    <3>1. \A v \in Accounts : s.allowances[m][v] \in Int
      BY <1>0, <2>2 DEF Good, Storage, Uint
    <3> HIDE DEF s
    <3> QED BY <1>0, <2>2, <2>3, <3>1
  <2> HIDE DEF s
  <2>5. /\ cash'.allowances = s.allowances /\ cash'.liquidityPool = s.liquidityPool
        /\ balanceOf(cash', m) >= balanceOf(s, m)
    BY <1>0, <2>1, <2>2, <2>3, ReserveAfterSend
  <2> QED BY <1>0, <2>1, <2>2, <2>4, <2>5 DEF Untouchable
<1>6. ASSUME NEW t \in Addresses, NEW x \in Amounts, transferBurnScore(u, t, x)
      PROVE  /\ now' = now /\ Untouchable'
             /\ balanceOf(cash', m) >= balanceOf(cash, m)
  <2>1. /\ balanceOf(cash', m) = balanceOf(cash, m) /\ cash'.allowances = cash.allowances
        /\ cash'.liquidityPool = cash.liquidityPool
    BY <1>0, <1>6, MoveScoreInvisible
  <2>2. now' = now
    BY <1>6 DEF transferBurnScore
  <2> QED BY <1>0, <1>1, <1>2, <2>1, <2>2
<1>7. ASSUME NEW p \in Spenders, NEW x \in Approvals,
             \/ approve(u, p, x)
             \/ increaseAllowance(u, p, x)
             \/ decreaseAllowance(u, p, x)
      PROVE  /\ now' = now /\ Untouchable'
             /\ balanceOf(cash', m) >= balanceOf(cash, m)
  <2>1. p \in Accounts /\ now' = now
    BY <1>7, AddressAssumption
       DEF approve, increaseAllowance, decreaseAllowance, Addresses
  <2>2. PICK y : cash' = Approve(cash, u, p, y)
    BY <1>7 DEF approve, increaseAllowance, decreaseAllowance
  <2>3. /\ balanceOf(cash', m) = balanceOf(cash, m)
        /\ cash'.liquidityPool = cash.liquidityPool
        /\ \A v \in Accounts : cash'.allowances[m][v] = cash.allowances[m][v]
    BY <1>0, <2>1, <2>2, ApproveInvisible
  <2> QED BY <1>0, <1>1, <2>1, <2>3 DEF Untouchable
<1> QED BY <1>3, <1>4, <1>5, <1>6, <1>7 DEF CashTransaction
-----------------------------------------------------------------------------
(* The desk. *)

\* The migrator's tokens and terms, as the desk sees them, when they stay.
LEMMA DeskSame ==
  ASSUME UNCHANGED <<migrator, tokens>>
  PROVE  /\ UNCHANGED [t \in Tokens |-> [ratio |-> ratioOf(t), unit |-> unitOf(t)]]
         /\ UNCHANGED [t \in Tokens |-> tokens[t][MigratorAddress]]
BY DEF ratioOf, unitOf, tokenDecimalAdjustment

\* Then the desk sees at most that the reserve has grown.
LEMMA DeskFunded ==
  ASSUME reserve \in Nat, reserve' \in Nat, reserve' >= reserve,
         UNCHANGED <<migrator, tokens>>
  PROVE  [Desk!Next]_(Desk!desk)
<1>1. CASE reserve' = reserve
  BY <1>1, DeskSame DEF Desk!desk
<1>2. CASE reserve' > reserve
  <2>1. Desk!Fund
    BY <1>2, DeskSame DEF Desk!Fund
  <2> QED BY <2>1 DEF Desk!Next
<1> QED BY <1>1, <1>2

\* At first the desk is empty.
LEMMA DeskInit == SystemInit => Desk!Init /\ DeskInv
<1> SUFFICES ASSUME SystemInit PROVE Desk!Init /\ DeskInv
  OBVIOUS
<1>1. /\ Init /\ migrator = Deployed(Treasury)
      /\ tokens = [t \in Tokens |-> [a \in Accounts |->
                     IF a = MigratorAddress THEN 0 ELSE Holdings]]
      /\ MigratorAddress \in Accounts /\ MigratorAddress # Treasury
      /\ MigratorAddress # ZeroAddress
  BY SystemAssumption, AddressAssumption DEF SystemInit
<1>2. IInv
  BY <1>1, InitInvariant
<1>3. reserve = 0
  <2>1. cash.burnScore[MigratorAddress] = 0 /\ cash.balances[MigratorAddress] = 0
    BY <1>1 DEF Init
  <2> QED BY <1>1, <1>2, <2>1, NoScoreNoReward DEF IInv, reserve
<1>4. \A t \in Tokens : ratioOf(t) = 0 /\ unitOf(t) = 1
  BY <1>1, DecimalAssumption DEF Deployed, ratioOf, unitOf, tokenDecimalAdjustment
<1>5. \A t \in Tokens : tokens[t][MigratorAddress] = 0
  BY <1>1
<1>6. Desk!Init
  BY <1>3, <1>4, <1>5 DEF Desk!Init
<1>7. DeskInv
  BY <1>1 DEF DeskInv, Untouchable, Unlisted, Deployed, Init
<1> QED BY <1>6, <1>7

\* Listing gives terms to a token that had none, and to no other.
LEMMA ListingIsList ==
  ASSUME SystemInv, Unlisted, reserve' = reserve,
         NEW u \in Users, NEW t \in Tokens, NEW r \in Ratios, NEW d \in Decimals,
         addTokenMigration(u, t, r, d)
  PROVE  Unlisted' /\ Desk!List(t)
<1>1. /\ migrator' = AddTokenMigration(migrator, t, r, d)
      /\ UNCHANGED tokens
      /\ ~ migrator.allowedTokens[t] /\ r # 0 /\ r \in Uint /\ d \in 0 .. MaxDecimals
      /\ migrator \in MigratorStorage
  BY SystemAssumption, DecimalAssumption
     DEF addTokenMigration, CanAddTokenMigration, SystemInv, Listed
<1>2. \A s \in Tokens :
        /\ migrator'.allowedTokens[s] = IF s = t THEN TRUE ELSE migrator.allowedTokens[s]
        /\ migrator'.cashPerWholeTokens[s] = IF s = t THEN r ELSE migrator.cashPerWholeTokens[s]
        /\ migrator'.tokenDecimals[s] = IF s = t THEN d ELSE migrator.tokenDecimals[s]
  BY <1>1 DEF AddTokenMigration, MigratorStorage
<1>3. Unlisted'
  BY <1>1, <1>2 DEF Unlisted
<1>4. ratioOf(t) = 0 /\ ratioOf(t)' = r /\ r > 0
  <2>1. ratioOf(t) = 0
    BY <1>1 DEF Unlisted, ratioOf
  <2>2. ratioOf(t)' = r
    BY <1>2 DEF ratioOf
  <2>3. r > 0
    BY <1>1, ParameterAssumption DEF Uint
  <2> QED BY <2>1, <2>2, <2>3
<1>5. \A s \in Tokens \ {t} : ratioOf(s)' = ratioOf(s) /\ unitOf(s)' = unitOf(s)
  BY <1>2 DEF ratioOf, unitOf, tokenDecimalAdjustment
<1> QED BY <1>1, <1>3, <1>4, <1>5 DEF Desk!List

\* The payout takes what was quoted and pays what was quoted, no more.
LEMMA PayoutIsMigrate ==
  ASSUME SystemInv, SystemInv', Untouchable, payout
  PROVE  Untouchable' /\ Desk!Next
<1> DEFINE call == calls[Len(calls)]
           m == MigratorAddress
<1>1. /\ calls # <<>> /\ UNCHANGED migrator
      /\ tokens' = TokensTaken(call.token, call.user, call.spend)
      /\ transfer(m, call.user, call.received)
  BY DEF payout, Last
<1>2. /\ call \in Call /\ Pending(call)
  <2>1. Len(calls) \in 1 .. Len(calls)
    BY <1>1, LastFront DEF SystemInv
  <2> QED BY <2>1 DEF SystemInv
<1> HIDE DEF call
<1>3. /\ call.token \in Tokens /\ call.user \in Accounts /\ call.user # m
      /\ call.spend \in Nat /\ call.received \in Uint /\ call.received \in Nat
      /\ m \in Accounts /\ call.user \in Addresses
  BY <1>2, SystemAssumption DEF Call, Users, Pending, Addresses
<1>4. /\ now' = now /\ Untouchable'
      /\ reserve \in Int /\ reserve' = reserve - call.received
  <2>1. /\ Good(cash) /\ now \in 0 .. MaxTime /\ cash.lastMintTime <= now
        /\ CanSend(cash, m, call.user, call.received)
        /\ cash' = Send(cash, m, call.user, call.received) /\ now' = now
    BY <1>1 DEF SystemInv, IInv, transfer
  <2>2. /\ cash'.allowances = cash.allowances /\ cash'.liquidityPool = cash.liquidityPool
        /\ balanceOf(cash, m) \in Int
        /\ balanceOf(cash', m) = balanceOf(cash, m) - call.received
    BY <1>3, <2>1, ReserveAfterSend DEF Untouchable
  <2> QED BY <2>1, <2>2, ReserveNext DEF Untouchable, reserve
<1>5. /\ tokens'[call.token][m] = tokens[call.token][m] + call.spend
      /\ tokens[call.token][m] \in Nat
      /\ \A t \in Tokens \ {call.token} : tokens'[t][m] = tokens[t][m]
  BY <1>1, <1>3 DEF SystemInv, TokensTaken
<1>6. /\ ratioOf(call.token) \in Nat \ {0}
      /\ Fair(call.spend, call.received, ratioOf(call.token), unitOf(call.token))
  BY <1>2, <1>3 DEF SystemInv, Listed, Pending, MigratorStorage, ratioOf, Uint
<1>7. UNCHANGED [t \in Tokens |-> [ratio |-> ratioOf(t), unit |-> unitOf(t)]]
  BY <1>1 DEF ratioOf, unitOf, tokenDecimalAdjustment
<1>8. PICK t \in Tokens : t = call.token
  BY <1>3
<1>9. Desk!Migrate(t)
  <2>1. tokens'[call.token][m] - tokens[call.token][m] = call.spend
    BY <1>3, <1>5
  <2>2. reserve - reserve' = call.received
    BY <1>3, <1>4
  <2> QED BY <1>3, <1>5, <1>6, <1>7, <1>8, <2>1, <2>2 DEF Desk!Migrate, Fair
<1> QED BY <1>4, <1>9 DEF Desk!Next

\* Every step of the system is one of the desk, or the desk sees nothing of it.
LEMMA SystemStep ==
  ASSUME SystemInv, SystemInv', SupplyCoversBalances', reserve \in Nat, reserve' \in Nat,
         DeskInv, [SystemNext]_systemVars
  PROVE  DeskInv' /\ [Desk!Next]_(Desk!desk)
<1>0. IInv /\ IInv' /\ Untouchable /\ Unlisted
  BY DEF SystemInv, DeskInv
<1>1. ASSUME UNCHANGED cash, reserve' >= reserve, UNCHANGED <<migrator, tokens>>
      PROVE  DeskInv' /\ [Desk!Next]_(Desk!desk)
  BY <1>0, <1>1, DeskFunded DEF DeskInv, Untouchable, Unlisted
<1>2. ASSUME UNCHANGED <<cash, now>>
      PROVE  reserve' = reserve
  BY <1>2 DEF reserve, balanceOf, userRewards, simulatedRewardsPerTokenBurned, totalRewards
<1>3. ASSUME NEW u \in Users, CashTransaction(u), UNCHANGED <<migrator, tokens, calls>>
      PROVE  DeskInv' /\ [Desk!Next]_(Desk!desk)
  <2>1. Untouchable' /\ reserve' >= reserve
    BY <1>0, <1>3, UsersKeepReserve
  <2> QED BY <1>0, <1>3, <2>1, DeskFunded DEF DeskInv, Unlisted
<1>4. ASSUME NEW u \in Users, NEW a \in CashAddresses, setCashAddress(u, a)
      PROVE  DeskInv' /\ [Desk!Next]_(Desk!desk)
  <2>1. /\ UNCHANGED <<cash, now, tokens>>
        /\ migrator' = [migrator EXCEPT !.cyberCash = a] /\ migrator \in MigratorStorage
    BY <1>4 DEF setCashAddress, SetCashAddress, SystemInv, Listed
  <2>2. /\ migrator'.allowedTokens = migrator.allowedTokens
        /\ migrator'.cashPerWholeTokens = migrator.cashPerWholeTokens
        /\ migrator'.tokenDecimals = migrator.tokenDecimals
    BY <2>1 DEF MigratorStorage
  <2>3. UNCHANGED Desk!desk
    BY <1>2, <2>1, <2>2 DEF Desk!desk, ratioOf, unitOf, tokenDecimalAdjustment
  <2> QED BY <1>0, <2>1, <2>2, <2>3 DEF DeskInv, Untouchable, Unlisted
<1>5. ASSUME NEW u \in Users, NEW t \in Tokens, NEW r \in Ratios, NEW d \in Decimals,
             addTokenMigration(u, t, r, d)
      PROVE  DeskInv' /\ [Desk!Next]_(Desk!desk)
  <2>1. UNCHANGED <<cash, now>>
    BY <1>5 DEF addTokenMigration
  <2>2. Unlisted' /\ Desk!List(t)
    BY <1>0, <1>2, <1>5, <2>1, ListingIsList
  <2> QED BY <1>0, <2>1, <2>2 DEF DeskInv, Untouchable, Desk!Next
<1>6. ASSUME NEW u \in Users, NEW t \in Tokens, NEW x \in MigrateAmounts, migrate(u, t, x)
      PROVE  DeskInv' /\ [Desk!Next]_(Desk!desk)
  BY <1>1, <1>2, <1>6 DEF migrate
<1>7. CASE payout
  <2>1. Untouchable' /\ Desk!Next
    BY <1>0, <1>7, PayoutIsMigrate
  <2>2. Unlisted'
    BY <1>0, <1>7 DEF payout, Unlisted
  <2> QED BY <2>1, <2>2 DEF DeskInv
<1>8. ASSUME Tick, UNCHANGED <<migrator, tokens, calls>>
      PROVE  DeskInv' /\ [Desk!Next]_(Desk!desk)
  <2>1. Ledger!Accrue
    BY <1>0, <1>8, TickAccrues
  <2>2. reserve' >= reserve
    BY <2>1, SystemAssumption DEF Ledger!Accrue, reserve
  <2> QED BY <1>1, <1>8, <2>2 DEF Tick
<1>9. CASE UNCHANGED systemVars
  BY <1>1, <1>2, <1>9 DEF systemVars
<1> QED BY <1>3, <1>4, <1>5, <1>6, <1>7, <1>8, <1>9 DEF SystemNext

\* To those who fund it the Migrator is a desk: its CASH leaves only for listed
\* tokens, at terms set once and to less than a base unit of either side,
\* however users, the owner and callbacks interleave.
THEOREM DeskIsImplemented == SystemSpec => ImplementsDesk
<1>1. SystemInv => SupplyCoversBalances /\ reserve \in Nat
  BY BalancesCovered, ReserveIsNumber DEF SupplyCoversBalances, SystemInv
<1>2. SystemInit => Desk!Init /\ DeskInv
  BY DeskInit
<1>3. /\ SystemInv /\ SystemInv' /\ SupplyCoversBalances'
      /\ reserve \in Nat /\ (reserve \in Nat)'
      /\ DeskInv /\ [SystemNext]_systemVars
      => DeskInv' /\ [Desk!Next]_(Desk!desk)
  BY SystemStep
<1> QED BY <1>1, <1>2, <1>3, SystemInvariance, PTL
        DEF SystemSpec, ImplementsDesk, Desk!Spec
-----------------------------------------------------------------------------
(* The token within the system. *)

\* All the token promises of a state it promises in the system too, in the
\* middle of a migration that calls back as well.
THEOREM SystemKeepsGuarantees == SystemSpec => []Guarantees
<1>1. SystemInv => Guarantees
  BY InvariantGuarantees DEF SystemInv
<1> QED BY <1>1, SystemInvariance, PTL

\* To the token a step of the system is one of its own, or the transfer that
\* pays a quote, of an amount nobody may have asked for.
LEMMA SystemStepKinds ==
  ASSUME SystemInv, [SystemNext]_systemVars
  PROVE  \/ [Next]_vars
         \/ \E to \in Addresses, x \in Uint : transfer(MigratorAddress, to, x)
<1>1. ASSUME NEW u \in Users, CashTransaction(u) PROVE Next
  <2>1. u \in Accounts
    BY DEF Users
  <2> QED BY <1>1, <2>1 DEF CashTransaction, Next
<1>2. ASSUME NEW u \in Users, NEW a \in CashAddresses, setCashAddress(u, a)
      PROVE  UNCHANGED vars
  BY <1>2 DEF setCashAddress, vars
<1>3. ASSUME NEW u \in Users, NEW t \in Tokens, NEW r \in Ratios, NEW d \in Decimals,
             addTokenMigration(u, t, r, d)
      PROVE  UNCHANGED vars
  BY <1>3 DEF addTokenMigration, vars
<1>4. ASSUME NEW u \in Users, NEW t \in Tokens, NEW x \in MigrateAmounts, migrate(u, t, x)
      PROVE  UNCHANGED vars
  BY <1>4 DEF migrate, vars
<1>5. CASE payout
  <2> DEFINE call == Last(calls)
  <2>1. calls \in Seq(Call) /\ calls # <<>> /\ \A i \in 1 .. Len(calls) : Pending(calls[i])
    BY <1>5 DEF payout, SystemInv
  <2>2. call \in Call /\ Pending(call)
    <3>1. Len(calls) \in Nat \ {0} /\ call = calls[Len(calls)] /\ call \in Call
      BY <2>1, LastFront
    <3>2. Len(calls) \in 1 .. Len(calls)
      BY <3>1
    <3> HIDE DEF call
    <3> QED BY <2>1, <3>1, <3>2
  <2>3. transfer(MigratorAddress, call.user, call.received)
    BY <1>5 DEF payout
  <2>4. call.user \in Addresses /\ call.received \in Uint
    BY <2>2 DEF Call, Pending, Users, Addresses
  <2> QED BY <2>3, <2>4
<1>6. CASE Tick
  BY <1>6 DEF Next
<1>7. CASE UNCHANGED systemVars
  BY <1>7 DEF systemVars, vars
<1> QED BY <1>1, <1>2, <1>3, <1>4, <1>5, <1>6, <1>7 DEF SystemNext

\* Nor does the Migrator, whatever its migrations interleave with, make a
\* transaction drain the pool, cost an owner more than the allowance used, or
\* misdirect the inflation of a second.
THEOREM SystemKeepsBounds ==
  SystemSpec => PoolReserveKept /\ AllowanceBoundsLoss /\ ProportionalShare
<1>1. ASSUME SystemInv, SystemInv', [SystemNext]_systemVars
      PROVE  [PoolStep]_vars /\ [AllowanceStep]_vars /\ [ShareStep]_vars
  <2>0. IInv /\ IInv'
    BY <1>1 DEF SystemInv
  <2>1. CASE [Next]_vars
    BY <2>0, <2>1, NextBounds, NextShares
  <2>2. ASSUME NEW to \in Addresses, NEW x \in Uint, transfer(MigratorAddress, to, x)
        PROVE  PoolStep /\ AllowanceStep /\ ShareStep
    <3>1. ~ (now' > now)
      BY <2>0, <2>2, ParameterAssumption DEF transfer, IInv
    <3> QED BY <2>0, <2>2, <3>1, SystemAssumption, TransferBounds DEF ShareStep
  <2> QED BY <1>1, <2>1, <2>2, SystemStepKinds
<1> QED BY <1>1, SystemInvariance, PTL
        DEF SystemSpec, PoolReserveKept, PoolStep, AllowanceBoundsLoss, AllowanceStep,
            ProportionalShare, ShareStep

\* With the Migrator and foreign tokens around it CyberCash is still the ledger
\* that its users were promised: a migration is a transfer of the Migrator.
THEOREM SystemLedgerIsImplemented == SystemSpec => ImplementsLedger
<1>1. ASSUME SystemInv, SystemInv', SupplyCoversBalances', [SystemNext]_systemVars
      PROVE  [Ledger!Next]_(Ledger!ledger)
  <2>0. IInv /\ IInv' /\ Good(cash) /\ now \in 0 .. MaxTime /\ cash.lastMintTime <= now
    BY <1>1 DEF SystemInv, IInv
  <2>1. CASE [Next]_vars
    BY <1>1, <2>0, <2>1, StepImplements
  <2>2. ASSUME NEW to \in Addresses, NEW x \in Uint, transfer(MigratorAddress, to, x)
        PROVE  Ledger!Next
    BY <2>0, <2>2, SystemAssumption, SendImplements DEF transfer
  <2> QED BY <1>1, <2>1, <2>2, SystemStepKinds
<1>2. SystemInv => SupplyCoversBalances
  BY BalancesCovered DEF SupplyCoversBalances, SystemInv
<1>3. SystemInit => Ledger!Init
  BY InitImplements DEF SystemInit
<1> QED BY <1>1, <1>2, <1>3, SystemInvariance, PTL
        DEF SystemSpec, ImplementsLedger, Ledger!Spec
=============================================================================
