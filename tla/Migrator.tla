------------------------------ MODULE Migrator ------------------------------
(***************************************************************************)
(* The Migrator contract, which pays CASH for listed tokens, written as    *)
(* operators on its storage, a record m with one field per variable.  The  *)
(* system it works in, the CyberCash token and the listed tokens, is       *)
(* CashSystem.                                                             *)
(***************************************************************************)
EXTENDS ERC20

CONSTANTS
  Tokens,         \* tokens the owner may list
  CashAddresses,  \* addresses the owner may give as that of CyberCash
  DecimalBase,    \* 10 in the code
  MaxDecimals     \* 50 in the code

\* What is said of powers follows from the rest, but the definition of ^ is not
\* available to proofs.
ASSUME DecimalAssumption ==
  /\ DecimalBase \in Nat \ {0} /\ MaxDecimals \in Nat
  /\ DecimalBase ^ 0 = 1
  /\ \A d \in 0 .. MaxDecimals : DecimalBase ^ d \in Nat \ {0}

MigratorStorage ==
  [ owner     : Accounts,
    cyberCash : CashAddresses \cup {ZeroAddress},
    allowedTokens      : [Tokens -> BOOLEAN],
    cashPerWholeTokens : [Tokens -> Uint],
    tokenDecimals      : [Tokens -> 0 .. MaxDecimals] ]

Deployed(owner) ==
  [ owner     |-> owner,
    cyberCash |-> ZeroAddress,
    allowedTokens      |-> [t \in Tokens |-> FALSE],
    cashPerWholeTokens |-> [t \in Tokens |-> 0],
    tokenDecimals      |-> [t \in Tokens |-> 0] ]
-----------------------------------------------------------------------------
CanSetCashAddress(m, sender, cashAddress) ==
  /\ sender = m.owner
  /\ cashAddress # ZeroAddress
  /\ m.cyberCash = ZeroAddress

SetCashAddress(m, cashAddress) == [m EXCEPT !.cyberCash = cashAddress]

\* MUTANT: a token that is listed may be listed again.
CanRelist(m, sender, token, cashPerWholeToken, decimals) ==
  /\ sender = m.owner
  /\ token # ZeroAddress
  /\ cashPerWholeToken # 0
  /\ decimals # 0 /\ decimals <= MaxDecimals

CanAddTokenMigration(m, sender, token, cashPerWholeToken, decimals) ==
  /\ sender = m.owner
  /\ token # ZeroAddress
  /\ cashPerWholeToken # 0
  /\ ~ m.allowedTokens[token]
  /\ decimals # 0 /\ decimals <= MaxDecimals

AddTokenMigration(m, token, cashPerWholeToken, decimals) ==
  [m EXCEPT !.allowedTokens[token] = TRUE,
            !.cashPerWholeTokens[token] = cashPerWholeToken,
            !.tokenDecimals[token] = decimals]
-----------------------------------------------------------------------------
(* migrationResult, for a token with cashPerWholeToken = ratio and         *)
(* 10 ** decimals = unit, when the contract's CASH is balance.             *)

tokenDecimalAdjustment(m, token) == DecimalBase ^ m.tokenDecimals[token]

requestedCash(amount, ratio, unit) == (amount * ratio) \div unit

receivedAmount(amount, ratio, unit, balance) ==
  IF requestedCash(amount, ratio, unit) < balance
  THEN requestedCash(amount, ratio, unit)
  ELSE balance

\* MUTANT: takes all tokens even if it cannot pay for all of them.
spendWhole(amount, ratio, unit, balance) == amount

spendAmount(amount, ratio, unit, balance) ==
  IF requestedCash(amount, ratio, unit) < balance
  THEN amount
  ELSE (amount * balance) \div requestedCash(amount, ratio, unit)

\* The checked arithmetic: overflow of a product, or the division by zero
\* when nothing is requested and nothing is there.
CanMigrationResult(amount, ratio, unit, balance) ==
  /\ unit \in Uint
  /\ amount * ratio \in Uint
  /\ requestedCash(amount, ratio, unit) >= balance =>
       /\ amount * balance \in Uint
       /\ requestedCash(amount, ratio, unit) # 0

\* What is paid is worth what is taken, at the listed ratio, to less than one
\* base unit of the token in the contract's disfavour and one of CASH in the
\* user's, whether or not the payment was capped.
Fair(spend, received, ratio, unit) ==
  /\ received * unit < (spend + 1) * ratio
  /\ spend * ratio < (received + 1) * unit
=============================================================================
