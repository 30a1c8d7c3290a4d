# CyberCash in TLA+

CyberCash is an ERC20 token. A transfer between two users burns a tax from the
sender and some tokens from the liquidity pool. A fixed inflation per second is
owed to the users in proportion to what they have burned (their *burn score*),
and is accounted for lazily, with one global accumulator. A second contract, the
Migrator, pays CASH for listed tokens. This directory holds models of both and of
the vendored library's templates and scripts, the instances TLC checks, and
proofs that TLAPS checks for every number of accounts and every parameter value.

## The system

| Component | State | Operations | Here |
|---|---|---|---|
| `src/CyberCash.sol` | `owner`, `liquidityPool`, `exemptedAddresses`, `rewardsPerTokenBurned`, `userRewardsPerTokenBurned`, `lastMintTime`, `pendingMints`, `totalBurned`, `burnScore` | constructor, `initialize`, `transfer`, `transferFrom`, `transferBurnScore`, views | modelled |
| OpenZeppelin `ERC20` | `_balances`, `_totalSupply`, `_allowances` | `_mint`, `_burn`, `_transfer`, `_approve`, `_spendAllowance`; `approve`, `increaseAllowance`, `decreaseAllowance` | modelled |
| OpenZeppelin `ERC20Permit` | `_nonces` | `permit` | modelled, with perfect signatures |
| `src/Migrator.sol` | `owner`, `cyberCash`, `allowedTokens`, `cashPerWholeTokens`, `tokenDecimals` | `setCashAddress`, `addTokenMigration`, `migrate`, `migrationResult` | modelled |
| OpenZeppelin `SafeERC20` | none | the two calls `migrate` makes | partly |
| deployment script | none | deploys both contracts, wires nothing | `SystemInit` |
| liquidity pool, routers | external | call the token as any account does | exempt accounts |
| templates of `EnumerableSet`, `EnumerableMap`, `Checkpoints` | `_values`, `_indexes`; `_keys`, `_values`; `_checkpoints` | all functions the generators write, and the fuzz tests of `Checkpoints.t.js` | modelled |
| `certora/run.js` | queue, children, streams, table, exit code | start, output and exit events, report | modelled |
| release workflow (`release-cycle.yml`, `scripts/release/workflow`) | the branch, runs, pull requests, npm | every job, every maintainer's step | modelled |
| `scripts/update-docs-branch.js` | git branches of clones and the remote | check, commit, push | modelled |
| `scripts/migrate-imports.js` | files on disk | walk, update | modelled |
| `scripts/checks/inheritance-ordering.js` | build output | edges, conflicts | modelled |
| `scripts/checks/compareGasReports.js` | two reports | compare | partly |
| rest of `lib/`, tests, audits, `broadcast/` | none of the program's own | | not modelled |

The deployed program is the first group: CyberCash, its base contracts and the
Migrator. Everything under `scripts/`, `certora/` and `.github/` of
`lib/openzeppelin-contracts` is vendored tooling of the library. It generates and
releases the library and is no part of the deployed contracts; nor does CyberCash use
what the templates generate. It is modelled because it is in the repository and is the
part of it with processes, events and races. The two groups share no state and no
module.

Interaction. Users, the pool, routers and the Migrator call the token. The token
calls nobody (`this.balanceOf` is a view of itself), so each of its transactions is
atomic, and what interleaves is whole transactions of different accounts, in any
order, with time passing between them. The Migrator calls two tokens. One is foreign
code that runs between the quote and the payout, and there atomicity ends: a token
that calls back may run anything, a second migration included. Permits add messages:
an owner signs off the chain, and anybody submits the signature, late, twice or never.

What is hard in the contracts is arithmetic over histories. A user's reward depends on
every burn of every other user since the user's last settlement, each rounded; a wrong
order of two assignments, a tracker that is not refreshed or a rounding in the wrong
direction shows only after several transactions of several users, and then as an
underflow that locks an account. A failed transaction is rolled back, so there are no
crashes. What is hard in the tooling is concurrency: events of several children, runs
of a workflow that look at a commit while the branch moves on, scripts in clones that
race for one remote branch. `PROJECT.json` lists the hazards line by line.

What makes each component correct:

- *Token base*: balances add up to the supply (the library's unchecked arithmetic
  relies on it), also when an account sends to itself.
- *Rewards*: `pendingMints` always covers what all users can claim; settling never
  reverts; a user's visible balance is spendable; the visible supply covers the
  visible balances; shares are proportional but for the rounding.
- *Burns*: the pool keeps its buffer; exempt accounts never hold burn score; the
  score of all users is the divisor of the accumulator less its phantom token.
- *Inflation*: never ahead of `MINT_PER_SECOND`, also across `initialize`.
- *Allowances and permits*: the owner loses no more than the allowance that was used;
  a signature sets an allowance at most once, within its deadline, and voids its rivals.
- *Migrator*: CASH leaves only at the listed terms, neither side losing a base unit of
  what it receives, however calls nest; a quote can be paid when it is due.
- *Templates*: to its user a set is a set, a map a partial function, and a past lookup
  never changes.
- *Prover runner*: exit code 0 means verified; the table is one; the run ends.
- *Release workflow*: versions increase, candidates are marked as such, `latest` on npm is
  the newest final version, pending changesets end up in the release PR.
- *Docs script*: no newer documentation is replaced by that of an older release branch.
- *Import migration*: each run moves on every file that still needs it and harms none,
  except the one whose write is interrupted.

## Modules

The contracts:

- `ERC20` gives the library's internal functions as operators on a storage record.
  A function that can revert is a pair: `CanF`, what its `require`s and checked
  arithmetic demand, and `F`, the storage afterwards. An `unchecked` block stores
  its result modulo `MaxUint + 1`.
- `CyberCash` adds the token. The variable `cash` is the contract's storage, one
  field per Solidity variable, and `now` is `block.timestamp` counted from the
  deployment. Private functions and views are operators named as in the source,
  external functions are actions named as in the source, `Tick` is the passage of
  time. A reverted transaction is no step. `transfer` and `transferFrom` share their
  body in the source word for word; here it is `CanSend`/`Send`, the composition of
  `Settled` (mint rewards), `Burnt` (tax) and `Move`, in the order of the code.
  `transferFrom` spends the allowance first. Events are left out. Who calls what is not
  restricted, and the owner may choose any pool and migrator.
- `CashLedger` is the promise to users without the accounting: wallets, supply,
  scores and time. Time pays income into the wallets directly; a transfer debits the
  sender, burns, and delivers the rest; moving score moves no token. `CyberCashLedger`
  states that the contract implements it, with `wallet <- balanceOf`,
  `supply <- totalSupply` and `score <- burnScore`.
- `CashPermit` adds `nonces` and the messages `signed` so far. `recover` returns the
  owner exactly for a signed message; `permit` uses the nonce, checks and approves in
  one step. `PermitBook` is its promise: signatures are numbered vouchers.
- `Migrator` is the second contract, as operators on its storage; `CashSystem` composes
  it with `CyberCash` and the listed tokens, from the state the deployment script
  leaves. `migrate` is two actions: `migrate` makes the checks and the quote and pushes
  a record on the stack `calls`; `payout` takes the tokens and pays. Between the two,
  the tokens in `HookTokens` may run any transaction (`MayCall`); others may not.
  `MigrationDesk` is what funders are promised, without pending or nested calls.
- `MCCyberCash`, `MCCashPermit`, `MCCashSystem` name the participants of the instances.

The templates:

- `EnumerableSet` (arrays and indexes on words, with the narrowing of typed elements)
  and `SetOfElements`, the set it implements; `EnumerableMap` on top of it and
  `PartialFunction`.
- `Checkpoints` (insertion and the three lookups), `VoteHistory` (a `History` pushed to
  in blocks) with its promise `BlockHistory`, and `CheckpointsTest`, the fuzz tests of
  `Checkpoints.t.js` with the expectations they track.
- `MCTemplates` instantiates them.

The tooling: `CertoraRun`, `ReleaseCycle`, `DocsBranch`, `MigrateImports`,
`InheritanceOrder`, `GasReport`, one per tool, instantiated in `MCTooling`. Actions are
the events and jobs of the source, with the source's names. What surrounds a tool is
modelled where the tool depends on it: child processes, GitHub's concurrency groups
(one run at a time, a newer run cancels the one that waits) and its button for running a
run again, `git fetch` and `push`, the compiler's C3 linearization.

- `ReleaseCycle`: a run is a record in `running` or `waiting`, `jobs` what it still has to
  do. Every job has a way to fail: `stateFails` and `jobFails` before a job changed
  anything, `changesetsStops` between the push and the update of the PR, `startFails` and
  the job `"rerun"` after the push of a branch and before the dispatch, `publish` after npm
  took the version. `retry` runs a run again that is over (`past`), all of it or what
  failed, with the event and commit it had and a person as the triggering actor. `lapse`
  notes that a job on the way to the release PR failed since the last commit, or that an
  older commit's run was run again.
- `DocsBranch`: `check` takes the release branch and the tree that is checked out: with the
  version before the bump, which `start.sh` does not touch, a candidate, which it refuses, or
  released. The branch's minor is what it asks for, the committed `package.json`'s what
  the next one finds.
- `MigrateImports`: `updateFile` reads a file and opens it for writing, `written` is the
  end of `writeFile`, and `interruptWrite` comes between.

`MCTemplates` and `MCTooling` have a variable `subject`: the parts share no state, so a
behaviour is one of a single part, and the rest stays as it was at first. Each part is
explored as it would be alone, and no product of state spaces is.

The proofs: `SumTheorems` (induction over finite sets, sums over them),
`CyberCash_proofs`, `CyberCashLedger_proofs`, `CashPermit_proofs`, `CashSystem_proofs`
(with the desk), `EnumerableSet_proofs`, `Templates_proofs` (maps and checkpoints, about
the specification that `templates` runs) and `Tooling_proofs`.

Operators marked `MUTANT` stand before the definition they vary. Each is a plausible
mistake in that code; no specification uses one. `PROJECT.json` says which property
notices which.

## Runs

| Run | Module, configuration | What it shows |
|---|---|---|
| `rewards` | `MCCyberCash`, `Rewards.cfg` | `TypeOK`, `PhysicalSupply`, `BurnScoreAccounted`, `RewardsBacked`, `SupplyCoversBalances`, `SettlementNeverReverts`, `InflationCap`, `ProportionalShare`: the reward accounting is solvent, exact to rounding and locks nobody |
| `ledger` | `MCCyberCash`, `Ledger.cfg` | `ExemptHaveNoScore`, `BalanceIsSpendable`, `PoolReserveKept`, `ImplementsLedger`, with a router exempt from the start and several choices of pool and migrator, the treasury or a user with tokens among them |
| `permits` | `MCCashPermit`, `Permits.cfg` | `AllowanceBoundsLoss`, `ImplementsBook`: signatures in any order beside approvals, finite and infinite |
| `migration` | `MCCashSystem`, `Migration.cfg` | `SystemTypeOK`, `QuoteIsHonoured`, `ImplementsDesk` with a standard token |
| `callbacks` | `MCCashSystem`, `Callbacks.cfg` | `QuotesAreFair`, `ImplementsDesk` with a token that calls back, calls nested twice |
| `templates` | `MCTemplates`, `Templates.cfg` | `IndexesAgree`, `EnumeratesOnce`, `ImplementsSet`, `ReadsAgree`, `ImplementsFunction`, `OneCheckpointPerBlock`, `ImplementsBlockHistory`, `LookupsAsExpected`, `LatestAsExpected` |
| `tooling` | `MCTooling`, `Tooling.cfg` | `TableIsOne`, `ZeroMeansVerified`, `RunEnds` (prover runner); `ReleasesIncrease`, `TaggedAsWhatItIs`, `EventuallyProposed` (releases); `NeverOlder`, `BuildsOnPublished` (docs); `MigratesImports`; `ReportsDisagreements`; `StrictIsSymmetric`, `RegressionsShown` (gas) |
| `lost_inflation`, `empty_simulation`, `late_output`, `long_cycle`, `docs_ten` | see below | findings |

### Bounds

Amounts are tokens themselves; the constants are scaled so that every ratio of the
code appears with a remainder.

*Token.* Two users and the pool are enough for every pairwise effect: a settlement of
one user between two of another, score given away, the pool burned by a third party.
`REWARD_PRECISION = 3` with `totalBurned` values 1, 3, 5, ... makes the accumulator and
the reward both round; `BURN_PRECISION = 4`, `BURN_ON_TRANSFER = 2`,
`BURN_FROM_LP = 1` make one transfer of 4 burn 2 and 1. `RESERVE_BUFFER = 3` is
reached, crossed and not met by the pool's balances. Amount 0 is legal in the code and
is among the amounts of `rewards` and `ledger`. `MaxTime` bounds `now` and is the only bound on length: the
burned supply bounds everything else. `MaxUint` stands for 2^256 - 1. In `rewards` it is
28, the smallest number that satisfies `HeadroomAssumption` there, so that a larger
product anywhere in the checked arithmetic would show as a revert. In `permits` it is
12, so that the infinite allowance is the one approved.

*Permits.* `MaxSigned = 2` messages over two nonces and two deadlines: rivals for one
nonce, a message signed ahead, one submitted after its successor or its deadline.

*Migrator.* A power base of 2 and up to 2 decimals stand for 10 and 50. With ratio 3
both roundings occur. `Ratios` and, in `migration`, `Decimals` hold 0, which is refused.
The supply of 6 (5 in `callbacks`) is small enough to cap payouts. In `migration` the
owner may exempt Bob in the place of the Migrator, which then pays the tax when it pays
out, has a burn score, and quotes from rewards that are not minted (two are issued per
second); migrations happen before `initialize` as well as after. `MaxCalls = 2` is one
migration within another; the argument is by the innermost call, so deeper nesting
repeats it (the proofs have no such bound).

*Templates.* Seven words, five of them elements; map keys and values of three, 0
included. Histories of up to 9 checkpoints: the search that starts at the last
`sqrt(len)` checkpoints differs from a plain one for more than 5, and 9 is the first
square after. Keys go to 6 in a history whose blocks go to 8, so that the narrowing
of block numbers can fail.

*Tooling.* Three specs and places for two children, so that one waits; one chunk of
output per child, which is the one with the link; any mixture of requests. Five
commits, one of them without effect on versions (`MaxPlain`), two changesets, one dispatch by hand, one run that is run again, any number of
failures: a candidate, a second one and its promotion fit, or a candidate, its promotion
and the final version with a push in between, and the failure of any job with its
repetition. Two clones, the branches of the minors 8
and 9, and 7 before them: each branch with its three kinds of tree. Builds of up to
five contracts, enough for two linearizations to disagree without either having the two
contracts side by side, and for a contract that would inherit from both to be refused
(six in `long_cycle`). Three calls over two gas reports, a method called in one only among
them. Three Solidity files in two directories, one of which may have an import twice, and
three starts of the script: two that end migrate such a file, and one may be interrupted.

Deadlock is checked in the runs of the contracts, where transfers are always possible.
It is not in `templates`, `tooling`, `late_output`, `long_cycle` and `docs_ten`: a
program of these ends, or stops at a bound that is named in its module.

### Fairness

The contracts schedule nothing: each step is a transaction somebody decides to send, and
none is owed. The useful "eventually" there, that a user can get at accrued rewards, is
stated as the safety property that the call cannot fail (`SettlementNeverReverts`,
`BalanceIsSpendable`, `QuoteIsHonoured`).

Fairness is stated for two programs. `RunFairness` (`CertoraRun`): while
there is an event other than output, node's event loop goes on with one, and a child ends,
since the prover service limits its time; nothing is assumed of the order of events, or of
output. `RunEnds` rests on it. `ReleaseFairness`
(`ReleaseCycle`): some step of the automation is taken while one is possible, as GitHub
executes runs that are queued and every job has a time limit. The failure of a job is
such a step: no job is owed success. Maintainers owe nothing,
they may stop at any point. `EventuallyProposed` rests on it. Maintainers' pushes are
bounded, so it speaks of what holds once they pause: the open release PR is made from the
last commit, or `lapse` is true. The exception is as narrow as the code allows: a failure
counts only if it was of a run of the last commit or of the dispatch of one, and a new
commit clears it, since its run proposes everything again.

## Findings

- *Inflation nobody owns* (`lost_inflation`). README.md:31 says "The newly minted tokens
  from inflation accrue to CASH users". `totalBurned` starts at 1
  (`CyberCash.sol:80`), so the inflation between `initialize` and the first burn accrues
  to a token nobody burned. It stays in `pendingMints` and `totalSupply()` for good.
- *A simulation that does not answer* (`empty_simulation`). With no CASH left,
  `migrationResult` of an amount worth less than one base unit divides by zero
  (`Migrator.sol:120`), although line 105 promises a proportional result. No tokens are
  at stake: `migrate` itself refuses an empty balance first.
- *Output after exit* (`late_output`). `certora/run.js:100` says "get all output", but
  the stream is ended on the child's event `exit`, when its pipes may still hold data. The row
  then lacks the link of its job. The exit code is right all the same
  (`ZeroMeansVerified`).
- *Long cycles* (`long_cycle`). `inheritance-ordering.js:33` looks at cycles of length
  two only, "(needs proof)". Six contracts have a cyclic order of three without a
  conflicting pair, and are reported as consistent.
- *Docs of 4.9 over those of 4.10* (`docs_ten`). Line 50 of `update-docs-branch.js`
  compares minors as strings. Below ten it is right (`NeverOlder` in `tooling`); with 9
  and 10 it is not.

Observations without a run. Both burns round down (`CyberCash.sol:159-160`), so with
the deployed constants fewer than 200 base units move without any burn, although
README.md:9 says that every transfer reduces the supply. And `BalanceIsSpendable` is the
subject of finding M-01 in `audits/CyberCash Audit 2.md`: a version that did not mint the
sender's rewards before a transfer to an exempt address could not send a full balance.
The code at this commit mints first (line 226), and the property is proved.

Of the tooling, all reachable in the models and none contrary to what the code says of
itself:

- The docs branch records the version in `package.json`, the script asks for the
  branch's. A new branch that has not bumped its version yet publishes docs that count as
  those of the minor before, and the older branch may then publish over them. So it is the
  version found that no older *branch* replaces, which is what `NeverOlder` says; the
  version itself may fall.
- When npm took a version and a later step failed, running the job again cannot finish
  it: npm refuses the version, and a run of the whole sees it published. The clean-up of tags,
  the git tag and the GitHub release remain to be done by hand.
- A run of an older commit that is run again proposes that commit's changesets, and
  may cancel the run that waits. A dispatch by the bot that a person runs again counts as one by
  hand (`state.js:56` looks at the triggering actor), so it promotes the candidate.
- `migrate-imports.js` replaces the first occurrence of each path, so a file that has
  one twice needs as many runs; an interrupted write leaves the file it was writing
  empty or cut.

## What is proved

For every finite set of accounts, words and elements of every size, and all parameters
within the assumptions:

| Module | Theorems |
|---|---|
| `CyberCash_proofs` | `TypeOK`, `PhysicalSupply`, `BurnScoreAccounted`, `RewardsBacked`, `SettlementNeverReverts`, `ExemptHaveNoScore`, `InflationCap`, `SupplyCoversBalances`, `BalanceIsSpendable`, each as `Spec => []P` |
| `CyberCashLedger_proofs` | `Spec => PoolReserveKept`, `Spec => AllowanceBoundsLoss`, `Spec => ImplementsLedger`, `Spec => ProportionalShare` |
| `CashPermit_proofs` | `PermitSpec => []PermitTypeOK`, `PermitSpec => AllowanceBoundsLoss`, `PermitSpec => ImplementsBook`; the token's promises under permits: `PermitSpec => []Guarantees`, `PermitSpec => PoolReserveKept /\ ProportionalShare`, `PermitSpec => ImplementsLedger`; `PermitsAreNotReplayed` |
| `CashSystem_proofs` | `SystemTypeOK`, `QuotesAreFair`, `QuoteIsHonoured`, each as `SystemSpec => []P`; `SystemSpec => ImplementsDesk`; the token's promises in the system: `SystemSpec => []Guarantees`, `SystemSpec => PoolReserveKept /\ AllowanceBoundsLoss /\ ProportionalShare`, `SystemSpec => ImplementsLedger` |
| `EnumerableSet_proofs` | `SetSpec => []IndexesAgree`, `SetSpec => []EnumeratesOnce`, `SetSpec => ImplementsSet` |
| `Templates_proofs` | `ReadsAgree`, `LatestAsExpected`, `LookupsAsExpected`, `OneCheckpointPerBlock`, each as `TemplatesSpec => []P`; `TemplatesSpec => ImplementsFunction`, `TemplatesSpec => ImplementsBlockHistory` |
| `Tooling_proofs` | `RunSpec => []TableIsOne`, `RunSpec => []ZeroMeansVerified`, `RunSpec => []RunGoesOn /\ [][RunAdvances]_runVars`; `ReleaseSpec => []ReleasesIncrease`, `ReleaseSpec => []TaggedAsWhatItIs`; `DocsSpec => BuildsOnPublished`, `SameWidth /\ DocsSpec => []NeverOlder`; `GasSpec => []StrictIsSymmetric`, `GasSpec => []RegressionsShown`; `AllUnderRoot /\ ImportsSpec => []MigratesImports`; `OrderSpec => []ReportsDisagreements` |

*Assumptions.* `AddressAssumption`: finitely many accounts, address(0) not one of them.
`ParameterAssumption`: the constants are natural numbers, the two precisions positive,
the tax at most the whole. `HeadroomAssumption`: the largest supply the inflation
schedule allows until `MaxTime`, scaled as the code scales it, fits a `uint256`; with
the deployed constants this is true of any 64-bit timestamp. `PermitAssumption`,
`SystemAssumption`: the sets are of the right kind, the Migrator is not the treasury, and
the owner does not pass it to `initialize` as the pool, where others' burns would eat its
reserve. `DecimalAssumption` also says that powers of `DecimalBase` are positive and the
zeroth is one, which is true but cannot be derived, as the definition of `^` is not
available to the provers. `TemplatesAssumption`: words, keys, values and blocks are
intervals of numbers, the types no larger than words. `CertoraAssumption` also says that
no entry of `specs.json` reads as the header row does, `ImportsAssumption` that each old
path is in the table once and no new path is an old one, both true of the files in the
repository. TLC evaluates all of them on the instances. Two theorems have hypotheses
of their own. `SameWidth`: all minors have as many digits, the one before the first
among them; without it `NeverOlder` is false, as `docs_ten` shows.
`AllUnderRoot`: the Solidity files meant are those below the path the script is given.

*The token.* `TypeOK` is inductive by itself, since the checked arithmetic is in the
guards. It says nothing of whether a guard can be met. That takes `IInv`:

- `Gated`: the two flags `initialize` sets agree, nobody has burn score before it, the
  pool is exempt, and exempt accounts have no score;
- `Accounted`: supply and `totalBurned` are sums over the accounts;
- `Backed`: no tracker is ahead of the accumulator, and the claims
  `burnScore[u] * (rewardsPerTokenBurned - userRewardsPerTokenBurned[u])` add up to at
  most `REWARD_PRECISION * pendingMints`;
- `Scheduled`: `pendingMints`, the accumulator and the supply are within the inflation
  up to `lastMintTime`.

The key step is `ClaimsNow`: when time has added `a` tokens, the accumulator grows by
`d = a * REWARD_PRECISION \div totalBurned` and the claims by
`d * (totalBurned - 1)`, which is at most `a * REWARD_PRECISION`. So claims stay backed
after any delay, each reward is within `pendingMints + a`, and settlement succeeds
(`Scheduled` bounds its sums and products). A settlement removes a claim and at least
as much backing; a burn or a move of score touches accounts whose claim is zero because
they have just settled. Solvency is stated on scaled claims because, stated on
rounded rewards, it is not inductive: a settlement would lose the fractions that bound
the next one. The sums rest on `SumTheorems`, which derives an induction over finite
sets from the library's well-founded minimum, as its induction rules take operator
parameters.

*The ledger.* The refinement follows the three stages of a transfer. A settlement is
invisible (`SettlementInvisible`): it turns a computed reward into a stored balance.
After it nothing accrues within the transaction, so the burns change a visible balance
by what they change the stored one, although they change the divisor and a burn score
(`BurntVisible`), and so does the move. `FreeSend` and `TaxedSend` put the stages
together; `SendImplements`, `MoveScoreImplements` and `TickAccrues` match them with the ledger's
steps. For time, each wallet must grow and the total by no more than the supply: `ClaimsNow` again. The pool's
buffer and the bound on the owner's loss are consequences of the same lemmas.

*Shares.* Only `Tick` lets time pass. Both the accumulator and the reward are quotients
rounded down, and the growth over a `Tick` is a difference of two quotients, off by less
than one whatever was rounded off before (`DifferenceOfQuotients`). The first error is
multiplied by the score, the second is not (`ErrorsAdd`).

*Permits.* Every action of the token leaves nonces and signatures alone and changes at
most one allowance, its owner's own or one that is used (`TokenImplements`). A `permit`
redeems the voucher that matches the nonce, and the rivals fall out of
`{m \in signed : m.nonce >= nonces[m.owner]}`.

*The token among others.* `Guarantees` is the conjunction of what the token promises of a
state, all that the first row of the table lists but `TypeOK`. It follows from `IInv` alone (`InvariantGuarantees`), and `IInv` is
kept by permits and by migrations, in the middle of one that calls back as well. Promises
about steps carry over because of what the added steps are (`PermitStepKinds`,
`SystemStepKinds`): a permit changes an allowance and nothing else that is visible; a
payout is a transfer by the Migrator, and the lemmas `TransferBounds` and
`SendImplements` hold of transfers of any amount. That a signature
is not replayed (`PermitsAreNotReplayed`) rests on the nonces' growth only, and is stated
for whatever happens later: `[](nonces[o] > n => [][~ Redeems(o, n)]_permitVars)`.

*The system.* `SystemInv` adds to `IInv`: the terms of a listed token are positive
(`Listed`; the actions never change them), every pending call has a fair quote
for a listed token (`Pending`), only the innermost call may be of a token that does not
call back (`Nested`), and that call's quote is covered (`Honoured`), as nothing can run
between. `QuoteFair` is the arithmetic: capped or not, both roundings are within a base unit.

*The desk.* That calls may nest is invisible to it: a step of the desk happens at
`payout`, at the quote of the innermost call, whose terms have not changed. Beside
`SystemInv` the refinement rests on `Untouchable`, that nobody else can lower the reserve
(the Migrator is not the pool and has approved nobody), and on `Unlisted`, that a token
not listed yet has no terms, since the desk lists each token once.

*Sets and maps.* `Agreeing` is the agreement of array and mapping, with the types that
make the conversions harmless. `RemoveAgrees` is the argument for swap and pop: whether
or not the last value moves, each other value is still indexed where it is. A map adds
`ZeroIfAbsent`, without which a value other than 0 would not tell that its key is there.
The lemmas about sets are used for the keys through `INSTANCE`.

*Checkpoints.* The library searches an array whose keys increase (`Rising`). That the
binary search finds the first index of which a test holds is proved by induction on the
width of what is left (`SearchFinds`), with the induction over numbers that `SumTheorems`
derives, and for every starting interval that encloses the answer. The lookup that tries
the last `sqrt(len)` checkpoints first therefore starts in a right interval on either
side, and finds the same, as a key splits the array at one index only (`SplitsOnce`).
`UpperAnswers` and `LowerAnswers` say what the lookups give in terms of the array,
`InsertUpper` and `InsertLower` how an insertion changes that. For the fuzz tests the
inductive invariant is that the expectations they track are these answers (`ExpectedInv`).
For a `History` it is that the keys increase up to the current block (`HistoryInv`); the
refinement maps the array to the value each block ended with, and a push in the current
block disturbs no earlier one.

*The prover runner.* `RunInv` says where each call is: waiting for a place, for the exit of
its child, for its output, or reported, in one of them only (`PlacesInv`). A call reported
once is never again in the others, so the table has no second row for it (`TableInv`), and
when the process ends with nothing queued or running, each selected call was reported
(`ExitInv`). A failure sets the exit code before the row is written, and nothing resets it.

`RunMakesProgress` is what `RunEnds` needs besides fairness. A call has five stages: queued,
child alive, child gone, output awaited, reported. Every step but one that moves a chunk
of output takes one call one stage on and no other call anywhere, or ends the program
(`RunAdvances`); and while the program is up one such step is possible (`RunGoesOn`), since
an empty `Running` leaves a place free (`Parallel` is positive) and a child that is alive
is awaited. So four steps for each entry and one more end it. That fairness then leads there
is left to TLC.

*Releases.* `ReleaseInv`. Along the branch the version grows or stays (`HistoryInv`), and
what is on npm is of some commit up to the one that each present run looks at
(`PublishedInv`): runs are for no older commits than those before them (`RunsInv`), though
pushes and merges go on while they work and any job may fail. So a version that is not on
npm when a run begins is above all that are (`PublishIsNewer`). Runs that are run again are
the exception to the order, of the clause about newness, therefore, and of nothing else:
`publish` cannot succeed with a version that npm has (`DistinctReleases`), and whether a
candidate's run publishes was fixed by its commit (`Publishes` in `RunsInv`), so tags stay
right however late it comes; `dist_tag` compares with `latest` when the job runs.

*Docs.* `DocsInv`: a clone that documents has all that it fetched, and a push is accepted
only onto what the clone fetched. `RisingInv`: on every branch, remote or in a clone, the
release branch of a commit is for no older minor than the `package.json` of the commit
before it, and that of a tree being documented for no older minor than that of the last commit, as
`check` refuses one that is; it compares strings, which agree with numbers of one width
(`LessIsLess`).

*Gas.* The comparison is a function of two reports, so the invariant is their type. What
needs proof is the arithmetic: the average, rounded, lies between the least and the
greatest element (`AverageBounds`, from bounds on sums), and with strict testing a method
compared one way has measurements the other way too.

*Imports.* `ReplaceFirst` says where `String.replace` changes a list, `UpdateMigrates`
what the fold over the table makes of that: each import of the file that has moved is
replaced in one place, by its new path, and nothing else changes; rows do not disturb each
other, since no path has two rows and no new path moves again. `MigratedAgain`
adds a run to the runs before: the number of places goes down by one each time until it
is zero. The walk has a set of paths looked at such that what they lead to is in it or
queued (`WalkInv`), which is all the Solidity files when the queue is empty. `DiskInv`
counts the updates of each file: one for each run that ended, one more where the
present run has passed, and none is lost if it is interrupted, for files whose write was not.
`StartsInv` counts the interrupted writes against the starts.

*Inheritance.* That the pairs reported are those that two chains order differently is the
definition of the graph. That they matter is a fact about the compiler's merge: a chain
keeps the order of the chains it merges, so no contract can inherit from two that
disagree. `MergeInv`: at any moment of a merge each list is a beginning, all of it in the
chain and in order, and the rest, of which nothing is. `MergeStepInv` keeps it because a
candidate is in the rest of no list behind its head; `NextIsCandidate` shows that the
choice of a candidate has a witness. After all lists are used up (`CanDefine`) the chain
has every pair of every list in order (`MergeKeepsOrder`). `OrderInv` carries this through the
build: a chain begins with its own contract, has no repetition, and keeps the order of the
chain of each contract in it.

*Only model-checked*: `RunEnds` and `EventuallyProposed`, since liveness under fairness and
`ENABLED` are outside this prover's reach (`RunMakesProgress` is the part of the first that
is not), and the properties of the five runs that end in a violation. The provers have no
induction rule they can apply to a recursive operator. The recursive functions of the
models (sums, the binary searches, the fold over the table, the merge of chains) are proved about all the same, by
an induction over sets of numbers, after showing that the recursion has a solution.
The templates' and tools' specifications are proved about one by one; that `MCTemplates`
implies each is part of `Templates_proofs` (`MapAlone`, `HistoryAlone`, `TestAlone`).

## Not modelled

- The pool's and the routers' own code is not in the repository. What an AMM does with
  a cached reserve after a burn is unknown here; `PoolReserveKept` is the token's side.
- Listed tokens that keep a part of what they move, or return false, or nothing: `SafeERC20`'s way of telling
  these apart is collapsed to success or failure, and the Migrator presumes
  tokens that move what they are told to.
- Gas, events, EIP-712 hashing, signature recovery and metadata: no property is about
  them.
- The other contracts of the OpenZeppelin library are not part of the program, and its
  other scripts format text or configure tools. `SafeCast.js` generates a
  conversion per width; only the narrowing that `Checkpoints` uses is modelled. In
  `GasReport`, percentages, sorting and the output formats are left out. The values that
  `Checkpoints.insert` returns (`Checkpoints.js:222`, `:225`) are left out, as nothing in
  the templates reads them. In `ReleaseCycle` the git tag, the tags `next` and `tmp` of npm, the GitHub
  release and the tarball's integrity check are left out; what a failed one leaves
  behind is described above.
- Tests, audits and deployment records were read as statements of what the code should
  do.

## Left to do

Proofs for listed tokens that keep a part of what they move, once the model has them.
