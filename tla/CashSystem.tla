---------------------------- MODULE CashSystem ----------------------------
(***************************************************************************)
(* The deployed system: the CyberCash token, the Migrator and the tokens   *)
(* it accepts.  migrate is the one place where a transaction hands control *)
(* to foreign code, the transferFrom of the migrated token, between        *)
(* quoting a price and paying it; so it is two actions, migrate and        *)
(* payout.  While the call is pending, a token that calls back may run any *)
(* transaction, another migration included.  A call that fails is rolled   *)
(* back to a state seen before, so no step is needed for it.               *)
(***************************************************************************)
EXTENDS CyberCash, Migrator, Sequences, SequencesExt

CONSTANTS
  MigratorAddress,  \* where the Migrator is deployed
  CashAddress,      \* where CyberCash is deployed
  HookTokens,       \* tokens whose transferFrom calls back
  Holdings,         \* the tokens each account has of each token at first
  MigrateAmounts,   \* token amounts users offer
  Ratios, Decimals, \* the terms the owner may list a token with
  MaxCalls          \* bound: nested calls of migrate

\* The owner passes an AMM's address as the pool, not that of the Migrator.
ASSUME SystemAssumption ==
  /\ MigratorAddress \in Accounts
  /\ MigratorAddress # Treasury
  /\ MigratorAddress \notin Pools
  /\ HookTokens \subseteq Tokens
  /\ Holdings \in Uint
  /\ MigrateAmounts \subseteq Uint
  /\ Ratios \subseteq Uint
  /\ Decimals \subseteq Nat

VARIABLES
  migrator,  \* storage of the Migrator contract
  tokens,    \* tokens[t][a]: the balance of account a in listed token t
  calls      \* pending calls of migrate, the innermost last

systemVars == <<cash, now, migrator, tokens, calls>>

\* The contracts themselves send no transactions.
Users == Accounts \ {MigratorAddress}

Call == [user : Users, token : Tokens, spend : Nat, received : Nat]

SystemTypeOK ==
  /\ TypeOK
  /\ migrator \in MigratorStorage
  /\ tokens \in [Tokens -> [Accounts -> Nat]]
  /\ calls \in Seq(Call)

\* A transaction starts when none is running, or from within a token's code.
MayCall == calls # <<>> => Last(calls).token \in HookTokens

reserve == balanceOf(cash, MigratorAddress)

unitOf(token) == tokenDecimalAdjustment(migrator, token)

ratioOf(token) == migrator.cashPerWholeTokens[token]
-----------------------------------------------------------------------------
(* The deployment script deploys both contracts and wires nothing.         *)

SystemInit ==
  /\ Init
  /\ migrator = Deployed(Treasury)
  /\ tokens = [t \in Tokens |-> [a \in Accounts |->
                 IF a = MigratorAddress THEN 0 ELSE Holdings]]
  /\ calls = <<>>

setCashAddress(sender, address) ==
  /\ CanSetCashAddress(migrator, sender, address)
  /\ migrator' = SetCashAddress(migrator, address)
  /\ UNCHANGED <<cash, now, tokens, calls>>

addTokenMigration(sender, token, cashPerWholeToken, decimals) ==
  /\ CanAddTokenMigration(migrator, sender, token, cashPerWholeToken, decimals)
  /\ migrator' = AddTokenMigration(migrator, token, cashPerWholeToken, decimals)
  /\ UNCHANGED <<cash, now, tokens, calls>>

\* A contract address without the token's code behind it cannot be called.
Wired == migrator.cyberCash = CashAddress

\* The first half of migrate: the checks and the quote.
migrate(user, token, amount) ==
  /\ migrator.allowedTokens[token]
  /\ amount # 0
  /\ Wired
  /\ CanUserRewards(cash, MigratorAddress)
  /\ reserve # 0
  /\ CanMigrationResult(amount, ratioOf(token), unitOf(token), reserve)
  /\ calls' = Append(calls,
       [user  |-> user,
        token |-> token,
        spend    |-> spendAmount(amount, ratioOf(token), unitOf(token), reserve),
        received |-> receivedAmount(amount, ratioOf(token), unitOf(token), reserve)])
  /\ tokens[token][user] >= Last(calls').spend
  /\ UNCHANGED <<cash, now, migrator, tokens>>

\* A token as standard as the Migrator asks for, which moves what it is told
\* to move or fails: safeTransferFrom then fails too.
TokensTaken(token, user, spend) ==
  [tokens EXCEPT ![token][user] = @ - spend,
                 ![token][MigratorAddress] = @ + spend]

\* MUTANT: pays out what is there if it is less than the quote by then.
payoutRemaining ==
  /\ calls # <<>>
  /\ LET call == Last(calls)
         paid == IF call.received < reserve THEN call.received ELSE reserve
     IN  /\ tokens[call.token][call.user] >= call.spend
         /\ tokens' = TokensTaken(call.token, call.user, call.spend)
         /\ transfer(MigratorAddress, call.user, paid)
  /\ calls' = Front(calls)
  /\ UNCHANGED migrator

\* The second half: the tokens are taken and the quote is paid.
payout ==
  /\ calls # <<>>
  /\ LET call == Last(calls)
     IN  /\ tokens[call.token][call.user] >= call.spend
         /\ tokens' = TokensTaken(call.token, call.user, call.spend)
         /\ transfer(MigratorAddress, call.user, call.received)
  /\ calls' = Front(calls)
  /\ UNCHANGED migrator

CashTransaction(u) ==
  \/ \E p \in Pools, m \in Migrators : initialize(u, p, m)
  \/ \E t \in Addresses, a \in Amounts : transfer(u, t, a)
  \/ \E f \in Accounts, t \in Addresses, a \in Amounts : transferFrom(u, f, t, a)
  \/ \E t \in Addresses, a \in Amounts : transferBurnScore(u, t, a)
  \/ \E s \in Spenders, a \in Approvals : approve(u, s, a)
  \/ \E s \in Spenders, a \in Approvals : increaseAllowance(u, s, a)
  \/ \E s \in Spenders, a \in Approvals : decreaseAllowance(u, s, a)

SystemNext ==
  \/ \E u \in Users :
       /\ MayCall
       /\ CashTransaction(u)
       /\ UNCHANGED <<migrator, tokens, calls>>
  \/ \E u \in Users, a \in CashAddresses :
       MayCall /\ setCashAddress(u, a)
  \/ \E u \in Users, t \in Tokens, r \in Ratios, d \in Decimals :
       MayCall /\ addTokenMigration(u, t, r, d)
  \/ \E u \in Users, t \in Tokens, a \in MigrateAmounts :
       MayCall /\ Len(calls) < MaxCalls /\ migrate(u, t, a)
  \/ payout
  \/ calls = <<>> /\ Tick /\ UNCHANGED <<migrator, tokens, calls>>

SystemSpec == SystemInit /\ [][SystemNext]_systemVars
-----------------------------------------------------------------------------
(* Properties. *)

\* Every pending quote is fair by the terms of this moment, whatever ran since
\* it was made: the owner, called back by a listed token, cannot have changed
\* them (Migrator.sol:63-64, 69).
QuotesAreFair ==
  \A i \in DOMAIN calls :
    Fair(calls[i].spend, calls[i].received,
         ratioOf(calls[i].token), unitOf(calls[i].token))

\* A standard token is migrated without fail: what was quoted from balanceOf,
\* which counts rewards that are not minted yet, can be sent when it is due.
QuoteIsHonoured ==
  calls # <<>> /\ Last(calls).token \notin HookTokens =>
    /\ tokens[Last(calls).token][Last(calls).user] >= Last(calls).spend
    /\ CanSend(cash, MigratorAddress, Last(calls).user, Last(calls).received)

\* To an observer of the migrator's balances there are no calls and callbacks:
\* CASH leaves only by fair migrations, one at a time, at terms set once.
Desk == INSTANCE MigrationDesk WITH
  reserve <- reserve,
  terms   <- [t \in Tokens |-> [ratio |-> ratioOf(t), unit |-> unitOf(t)]],
  takings <- [t \in Tokens |-> tokens[t][MigratorAddress]]

ImplementsDesk == Desk!Spec
-----------------------------------------------------------------------------
(* What a comment of the Migrator says and the code does not do. *)

\* "If insufficient CASH is available, return the spending amount and
\* proportional CASH received" (Migrator.sol:105): the simulation of a listed
\* token answers, even if nothing is left.
SimulationAnswers ==
  Wired =>
    \A t \in Tokens, amount \in MigrateAmounts :
      migrator.allowedTokens[t] =>
        CanMigrationResult(amount, ratioOf(t), unitOf(t), reserve)
=============================================================================
