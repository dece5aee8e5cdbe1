# TLA+ verification of the Canto chain

The program is a Cosmos SDK chain with an EVM. This directory models its own modules
(`src/x/...`), checks them with TLC on small instances, and proves the central
properties with TLAPS for all instances.

## The system

| Part | State | Operations | Interacts with |
|------|-------|------------|----------------|
| `x/coinswap` | parameters, pools under two keys, pool sequence | AddLiquidity, RemoveLiquidity, SwapCoin, UpdateParams, genesis | bank (reserves, shares, fees); called by onboarding |
| `x/epochs` | one `EpochInfo` per identifier | BeginBlocker, genesis | calls the epoch hooks, i.e. inflation |
| `x/inflation` | parameters, period, skipped epochs, epoch provision | AfterEpochEnd, UpdateParams, genesis | epochs, bank, distribution, staking |
| `x/erc20` | token pairs under three keys, parameters | ConvertCoin, ConvertERC20, RegisterCoin, RegisterERC20, ToggleConversion, UpdateParams, EVM hook, genesis | bank, EVM; called by onboarding |
| `x/onboarding` | parameters | OnRecvPacket, UpdateParams | IBC transfer, coinswap, erc20 |
| `x/csr` | CSR by NFT, NFT by contract, turnstile address, parameters | EVM hook (register, assign, distribute fees), DeployTurnstile, UpdateParams | EVM, fee collector |
| `x/govshuttle` | address of the map contract | LendingMarketProposal, TreasuryProposal | EVM |
| `potv/contracts` | collateral, loans, stakes, validators, rewards | supply, withdraw, borrow, repay, liquidate, migrateStakes, claimReward, distributeReward, setValidators | each other |
| `app`, `cmd`, `ibc`, `testutil`, generated code | none of the chain's own | wiring, ante checks, queries, tests | |

How operations fail shapes every model. A message or proposal that returns an error
or panics leaves no trace, because the SDK drops the transaction's cached store: its
error returns are guards of the action. The exceptions are where the code swallows
an error (onboarding's swap, erc20's EVM hook, csr's event loop) and the
BeginBlocker, where a panic stops the chain.

What can go wrong and is hard to test is listed under `hazards` in `PROJECT.json`,
at the line where it bites.

## Modules

| Module | What it is |
|--------|------------|
| `Coinswap` | `x/coinswap` over the bank |
| `Epochs` | `x/epochs` on its own |
| `LegacyDec` | the decimals of `cosmossdk.io/math` (external), with their rounding |
| `Inflation` | `x/inflation` composed with `Epochs` (extends it) |
| `Erc20` | `x/erc20` over the bank and over the tokens of ERC20 contracts |
| `Vault` | what a pair of `x/erc20` promises: an abstract specification that `Erc20` implements |
| `Onboarding` | `x/onboarding` composed with instances of `Coinswap` and `Erc20` over one bank |
| `Csr` | `x/csr` with the Turnstile contract and the transactions it follows |
| `Govshuttle` | `x/govshuttle` with its proposal store contract and `x/gov` |
| `PotvConfig`, `Pool`, `ChainContract`, `Reward`, `Lend` | the lending contracts of `potv`; `Lend` composes the others |
| `Sums` | sums of the values of a function over a finite set |
| `CoinswapProofs`, `ModuleProofs` (epochs, inflation, govshuttle), `Erc20Lemmas`, `Erc20Proofs`, `CsrProofs`, `LendLemmas`, `LendProofs`, `SumLemmas` | theorems and proofs |
| `MCCoinswap`, `MCEpochs`, `MCInflation`, `MCErc20`, `MCOnboarding`, `MCCsr`, `MCGovshuttle`, `MCLend` | small instances for TLC |

Operators with the comment "Mutant" are faulty versions of the definition that
follows them; no specification uses them. Each shows that the property named with it
in `PROJECT.json` would notice the fault.

### Coinswap

`pools`, `lptIndex` and `sequence` are the three things `setPool` and `setSequence`
store. The share denom `lpt-n` is the number `n`; the escrow address of a pool is a
hash of its share denom and is taken to be free of collisions. `bank` and `supply`
are the bank's. `AddLiquidity` is one handler with three branches, each an action:
the denom has no pool yet (`AddLiquidityCreate`, with the creation fee), the pool
has no shares (`AddLiquidityEmpty`), it has (`AddLiquidityJoin`). Divisions round as
the code rounds. Escrow addresses are not blocked, so anyone may send coins to them
(`Transfer`), also before the pool exists. `maxSwapAmount[t] = 0` means that `t` is
not on the whitelist. `ParamChoices` contains parameters that close the pools while
shares are out.

Abstractions: the creation fee is in the standard denom; 256-bit overflow, which
panics and so fails the transaction, is left out; a pool's escrow account exists
once the pool does (the first deposit creates it).

### Epochs and Inflation

`BeginBlocker(time)` advances every clock at once: the clocks do not read each
other, and the hooks read none of them. `hookCall` records the number each
`AfterEpochEnd` call of the block was given. `Inflation!Block` is the whole block
step: the clocks, and then what inflation's hook makes of the calls. Parameters are
constant within a block, so at most one of the calls has an effect (the day while
inflation is off, the minting epoch while it is on) and their order is immaterial.
The bonded ratio that staking reports is any of `BondedRatios`, at every use.
`Restart` is an export followed by an import of the genesis. `periodMints` and
`periodAmount` are history variables: what has been minted since the period began.

Times are in units; two blocks within one unit have the same time. The start height
of an epoch, which only queries read, and the mint denom are left out. Durations are
assumed positive: `EpochInfo.Validate` only refuses zero, but every genesis in the
repository has positive ones.

### Erc20 and Vault

`tokenPairs`, `denomIndex` and `erc20Index` are the three stores of a pair; an id is
the pair of contract and denom that the code hashes. `coins` and `supply` are the
bank's, `tokens` and `totalSupply` belong to the contracts, `code` is the set of
contracts that exist. The contracts the module deploys are numbered by the sequence
of its account, from which the code computes their addresses. The actions are the
two messages (each dispatches to two of the four conversions, or removes a pair
whose contract is gone), the three proposals, the parameters, and `Restart`, an export
followed by an import of the genesis.

An Ethereum transaction is several steps in phase `"evm"`: each is a call that moves
tokens and adds a log to `receipt`, and one transaction may hold calls for several
accounts. Then `PostTxProcessing` hands the logs to the hook, one step per log in
phase `"hook"`. So a log is processed after all the calls of its transaction, as in
the code. A hook that cannot send the coins it minted or released keeps what it did
and goes on (`SendConverted`).

The contracts the module deploys behave as `ERC20MinterBurnerDecimals.sol`; only the
module has its roles, so nobody else mints, burns for others or pauses. External
contracts may burn a fee on every transfer (`Fee`), log an `Approval` (`Approving`),
mint, and be destroyed. Left out: contracts that log transfers they do not make,
contracts created again at the address of a destroyed one, vesting, 256-bit
overflow. For an external contract that misreports its transfers `NativeTokenBacked`
cannot hold, and the code does not claim it: registration is a decision of
governance.

`Vault` has, for every contract with a pair, locked assets and issued claims. A
vault opens and closes; otherwise assets enter or leave only with as many claims, or
claims are given up or assets donated. The mapping takes the module's coins and the
contract's tokens for a native coin, and the reverse for an external contract.

### Onboarding

`Recv` is the transfer of IBC; then the middleware works in steps of one
transaction: it skips the packet, refuses an invalid sender (`InvalidSender`, which
returns an error acknowledgement so that ibc-core drops the transfer), buys the
threshold of standard coin if the recipient has less (`Swap`, or `NoSwap` when the
swap fails and its error is logged) and converts the rest (`Convert`, or `NoConvert`
when the cached writes are dropped). The swap is the action
`TradeInputForExactOutput` of `Coinswap` and the conversion is `ConvertCoin` of
`Erc20`, instantiated with the variables of this module. Where the code goes on
after an error of such a call, the guard is that the call is not enabled.

The other chain is one account; packets are in flight until they are received,
refused or time out, and a refusal is refunded there. Between packets traders use
the pool, holders convert back, governance changes the limits, toggles pairs and
disables onboarding, and the external contract may be destroyed.

Left out: changes of the pool's liquidity, transfers that leave the chain (coins
that return come from an escrow that is filled at the start), and a disabled
`x/erc20`. The pool and the pairs exist from the start. The pool's swap fee and the
tokens' transfer fees are zero here; the runs of `Coinswap` and `Erc20` have them.

### Csr

A transaction is several steps: `AnteHandle` takes the fee of the gas limit, the EVM
runs calls of the Turnstile, creations and destructions of contracts, and then the
hook handles one log per step (`ProcessEvent`) and the fee (`HookBurns`,
`HookDistributes`, ...). `saved` is the store that `Fail` goes back to when the EVM
or the hook fails. An event that is refused ends the loop, but not the hook:
`ProcessEventFails` drops the logs after it and the fee is split all the same.
`BeginBlock` deploys the Turnstile once the module is enabled. `InitGenesis`
rebuilds the index from the CSRs. `withdrawn` is a history variable.

Left out: who owns an NFT (its owner withdraws), calls of the Turnstile's owner-only
`distributeFees` by others, which revert, and bank transfers of coins to the
Turnstile's address, which the contract does not count (with them the Turnstile holds
at least, and not exactly, what the NFTs may withdraw).

### Govshuttle

`AppendLendingMarketProposal` is the whole of the keeper's function: the deployment
of the store with the first proposal and the call of `AddProposal`. A message
arrives from a governance proposal that passed, in any order, or is signed by an
account, which the handler refuses. `executed` is a history variable. The names of
`Init`, `Next` and `Spec` carry the module's name, as in `Epochs`, because
`ModuleProofs` extends these modules together.

### PotvConfig, Pool, ChainContract, Reward, Lend

One module per contract (`PotvConfig` is `Config` and `PriceFeed`); the functions of
`Pool`, `ChainContract` and `Reward` that `Lend` calls are conjuncts of its actions,
and those that users and the owner call directly are the actions `Configure`,
`SetValidators` and `Rewarding`. `Router` is the pair of actions `swapAndSupply` and
`withdrawAndDecreaseLiquidity`. Values in USD keep the divisions and the order of
the code, over `Precision`, `TokenUnit` and `UsdUnit`; `UsdUnit` is a multiple of
`Precision`, as 10^18 (the decimals of TUCUSD) is of 10^6. The lists that
`EnumerableSet` keeps are sequences in which a removal moves the last element into
the gap, because `setValidators` removes while it iterates and `migrateStakes` moves
the first users of a list. `skipped` is a history variable: reward tokens that were
off the list while they had rewards. `RewardSolvent` is not claimed for these: supplies
change without being settled while a token is off the list, and when it is listed
again the contract can owe more of it than it holds.

Left out: the functions that wire the contracts together, which the owner calls
once; the swap inside the Router (it yields any of the amounts of the instance, up
to `MaxSupply`); 256-bit overflow, which reverts; pausing, for which `Lend` has the
modifiers but no function that sets it; plain transfers of tokens to the address of
the Pool, which no book counts (with them `PoolSolvent` says "at least" instead of an
equality); collateral that takes a fee on transfers, for which `Lend.supply` would
book more than the Pool receives, so that `PoolSolvent` fails. A `distributeReward`
with several tokens is several steps.

## Runs

| Run | Expected | Shows |
|-----|----------|-------|
| `coinswap_two_traders` | pass | shares are backed (`SharesAreBacked`), supplies match balances (`SupplyIsBalances`), every holder can leave at any time (`HoldersCanExit`), and no step lowers the value of a share (`ShareValueNeverFalls`) |
| `coinswap_two_pools` | pass | the proofs' invariant (`IndInv`) and the genesis round trip (`GenesisRoundTrip`) with two pools, deadlines and two block times |
| `epochs_clocks` | pass | `ClockExact`, `HooksInOrder`, and the liveness property `ClocksCatchUp` |
| `inflation_periods` | pass | `PeriodClock`, `PeriodHasItsMints`, `PeriodAmountExact`, `MintedIsAllocated`, `ProvisionDecays`, also over a restart from an exported genesis |
| `erc20_conversions` | pass | the proofs' invariant (`IndInv`), `PairsIndexed`, `NativeCoinBacked`, also over a restart from an exported genesis; the hook's error branches are never taken (`HookNeverFails`); holders can convert (`Redeemable`); the refinement `ImplementsVault` |
| `erc20_two_users` | pass | a conversion moves value from its sender to its receiver only (`ConversionIsFair`), and `NativeTokenBacked` with a contract that takes a fee |
| `onboarding_packets` | pass | coins are neither lost nor doubled between the chains (`CoinsConserved`), pairs stay backed (`TokensBacked`), and the recipient gets what was sent, in coins, tokens and what the swap cost (`OnboardingIsFair`) |
| `csr_transactions` | pass | registry and Turnstile agree (`RegistryIndexed`, `RegistryFromTurnstile`, `RegistrationIsFinal`), fees and revenue add up (`RevenueIsEarned`, `FeesConserved`), the hook fails only for a fee that cannot be split (`HookFailsUnsplit`) |
| `govshuttle_proposals` | pass | the store holds exactly what governance executed (`StoreIsExecuted`) |
| `potv_positions` | pass | the pool can pay its suppliers (`PoolSolvent`), every TUCUSD is owed (`UsdIsDebt`), stakes follow supplies (`StakesConserved`, `StakeFollowsSupply`), collateral and loans stay within the ratio (`CollateralKept`, `BorrowIsWithinMax`) |
| `potv_rewards` | pass | the Reward contract can pay what users may claim of reward tokens that were on the list whenever they had rewards (`RewardSolvent`) |
| `potv_migration` | violation | a user supplies two tokens and withdraws all of one; the migration takes the validator off the list and leaves the stake of the other behind |

The violation is a difference between a comment and the code, quoted under
`findings` in `PROJECT.json`.

**Other differences between text and code** met while modelling, with no run of
their own:

- coinswap: a swap may raise a reserve above `MaxStandardCoinPerPool`, which only
  deposits respect (`spec/04_params.md:27`); the creation fee is mostly burnt and
  only its tax is collected (`spec/04_params.md:21`).
- epochs: `AfterEpochEnd` is given the number of the epoch that begins
  (`keeper/hooks.go:17`).
- inflation: with a weekly minting epoch, skipped days are subtracted from weeks
  (`keeper/hooks.go:64`); a restart recomputes the provision of the current period
  with the parameters of the day (`genesis.go:42`; `spec/01_concepts.md:56` says it
  does not change within a period).
- erc20: the check of `RegisterCoin` against the EVM denom
  (`keeper/proposals.go:29`) looks for the text `CANTO` in the denom, whatever the
  EVM denom is. A comment of `InitGenesis` (`genesis.go:32`) and `genesis_test.go`
  admit several contracts of one denom, of which only one is in the indexes, while
  `GenesisState.Validate` (`types/genesis.go:25`) refuses a denom that occurs twice.
  The chain of the model starts without pairs, and none of its steps makes such a
  state: `PairsIndexed` has every pair in both indexes.
- onboarding: the comment at `keeper/ibc_callbacks.go:35` says the transfer's
  acknowledgement is always returned; an invalid sender gets an error (`:59`).
- csr: after one refused event the others of the transaction are dropped and can
  never be delivered again, although the Turnstile has recorded them (the comment at
  `keeper/evm_hooks.go:33` has every event processed). `RegistrationIsFinal` states
  that such an address stays out of the registry for good. The parameters admit a
  share of everything and of nothing (`types/params_test.go:41` and `:46`), but with
  either of them the hook fails every call of a registered contract: the bank does not
  burn a rest of zero, and the Turnstile refuses a share of zero
  (`keeper/evm_hooks.go:94`).
- govshuttle: proposals without an id take the next id of governance when they are
  executed, so that several may share one ("Unique id", `contracts/Port.sol:7`); the
  last one stays.
- potv: `setValidators` removes from the list it iterates and keeps about half of
  the old validators; a liquidation does not add the liquidator to the lists of the
  validators and leaves stake at unlisted validators with the liquidated user, which
  is why `StakeFollowsSupply` has a hypothesis.

**Bounds.** Coinswap: with one pool, each of two accounts has 4 coins of each denom
and messages carry amounts 1 to 3 (with two pools there is one account, no swap fee
and amounts 1 and 2), enough for unequal holders, rounding in both directions (the
reserves and the shares get out of proportion by swaps, donations and the 10 % fee),
full withdrawal and re-opening; `MaxStandard` is below the total supply so that the
cap binds. The block time is bounded by `MaxTime`, pools by `MaxPools`. Deadlock
checking is off because the accounts may run out of coins. Epochs: 40 time units,
days of 2 and weeks of 5, the week starting late, and any jump of the block time.
Inflation: 8 days with 3 mints per period, so two periods can end, with three sets
of parameters that differ in all the calculation reads; `One` is 100, which makes
the rounding of decimals visible. `MaxRestarts` bounds restarts. Erc20: one coin,
one external contract and two deployments (`MaxNonce`), so that the denom of a
destroyed contract can be registered again as a native coin; two logs per
transaction (`MaxLogs`), so that a later call can undo what an earlier log says;
amounts 1 and 2 (`MaxSupply` bounds mints of external contracts). The run with two
accounts has one deployment and one log per transaction. No instance has a contract
that logs approvals: for it `ConvertERC20` and `ConvertCoin` always fail, and the
proofs cover it. The run with two accounts uses symmetry of the accounts; it checks
no liveness.

Onboarding: two packets (`MaxPackets`) of the three kinds of denoms (vouchers, the
standard coin, coins of an external contract) to an account or a module account,
over one channel that governance may take off the whitelist; a swap can fail because
the denom has no pool, for its limit or for its price. The reserve never falls to
the threshold, so a pool too small to sell it does not occur. Csr: two contracts and
an account that registers itself, two NFTs, gas 0 to 2 of a limit of 2 at price 0 or
1, with the shares nothing, a half and the whole, so that fees of which the share rounds to
nothing or is everything occur; 3 coins. Symmetry of the contracts. Govshuttle:
three proposals with and without an id, of equal and unequal lengths and of admitted
and other denoms. Potv: two users, two tokens of which one can be unlisted, two
validators, prices that make a position liquidatable, amounts 1 and 2 with a unit of
USD of 2, so that a debt is rounded down, a migration limit of one user; the run
with rewards has one token, a second user who liquidates or is supplied by the
Router (`MaxSupply`, `MaxReward` bound the tokens). In the run of the migration
the first user has both tokens. Amounts of zero, which the contracts admit, are left
to the proofs, which have all amounts. Deadlock checking is off for govshuttle and potv,
where the bounds are used up.

**Fairness.** Only `EpochsSpec` assumes any: weak fairness of `NextBlock`, as
consensus keeps producing blocks. With time bounded, a behaviour ends in blocks that
stay within the last time unit; `ClocksCatchUp` says that by then every missed epoch
has been ended. A chain whose blocks are always further apart than an epoch would
never catch up. The other components act when a user, a relayer or governance asks
them to, and nothing obliges these to act; what they may always do is stated with
ENABLED instead (`HoldersCanExit`, `Redeemable`).

## Proofs

All constants are arbitrary, under the named assumptions of the modules: sets of
accounts, tokens and users are finite, and numbers of things are natural. Every
module of proofs starts with `USE SMTT(60), ZenonT(60), Z3T(60)`: the provers that
try a leaf in turn, and their time.

`SumLemmas`. The induction theorems of the library take a predicate, which the
provers cannot instantiate. Here the things to be proved are collected in a *set*,
and a least counterexample is refuted: `NatSetInduction`, `NatStrongInduction` and
`FiniteSetInduction`. That there is a least one is `WellOrdered`, a hypothesis of
every lemma that rests on induction; at the end of each module of theorems
`NatWellOrdered` proves it from the library's `WellFoundedInduction`, and the
theorems do not have it as a hypothesis. (With the library's module in sight of all
lemmas the proofs take twice the time.) `SumRules` proves what the fold of the
community modules computes for every finite set, from a table of the sums of all its
parts; the other lemmas say how a sum changes with one value (`SumOverChange`), with
an amount that moves (`SumOverMove`), that it bounds its terms (`SumOverNat`) and so
on.

`CoinswapProofs`. `IndInvariant` proves `IndInv`, the conjunction of the types,
`PoolsIndexed` and `SharesAreBacked`. `SharesAreBacked` is not inductive alone: a
withdrawal must know that the token of the share denom is the one whose pool has
that denom, and a new pool that no shares of its denom exist, which is
`PoolsIndexed`. `TypeCorrect`, `SharesStayBacked` and `GenesisSafe` follow from
`IndInv`. `ShareValueSafe` proves that reserve times reserve over shares squared
never falls. Its arithmetic is in the lemmas `InputPriceKeepsProduct` and
`OutputPriceKeepsProduct` (a swap's rounding never lowers the product),
`JoinKeepsRatios` and `WithdrawKeepsRatio` (each reserve per share is kept), and
`RatiosGiveValue`, which combines the ratios. `SupplySafe` proves
`SupplyIsBalances`, a sum over all accounts for every denom, inductive with
`IndInv`: each kind of bank operation moves a sum by as much as it changes the
supply. From both follows `HoldersPassChecks`: a holder passes every check of
`RemoveLiquidity`, because the supply bounds what one account holds.

`ModuleProofs`, epochs. `ClocksExact` proves `ClockExact`, inductive with the
types; `HooksOnceInOrder` proves the action property `HooksInOrder`.

`ModuleProofs`, inflation. `PeriodInStep` proves `PeriodClock` under the
assumption `EpochIdentifier = Day`, which the default genesis makes true; with
another epoch it is false. The key is `PassedAtLastMint`: while the counters are in
step, the inequality of `hooks.go:72` holds exactly at the last mint of a period.
`PeriodsHaveTheirMints` is the action property from the same invariant.
`MintInvariant` proves `MintInv`, the types with `MintedIsAllocated`, from which
`TypeCorrect` and `AllMintedIsAllocated` follow; the proportions are bounded in
`ProportionBound`, and the bonding incentive does not fall below zero by
`IncentiveNat`. `ProvisionNeverGrows` proves `ProvisionDecays` for every precision.
The power is computed by squarings, each rounded half to even; `PowerDecays` proves
that one more factor of at most one does not raise it, by strong induction over the
exponent with `PowMonotone` and `PowNextBelow`, from the monotonicity of the rounded
product (`ChopMonotone`, `MulMonotone`). `PeriodAmountsExact` proves the action
property `PeriodAmountExact` from `ExactInv`: until a restart, every mint of the
running period minted the stored provision.

`ModuleProofs`, govshuttle. `StoreSafe` proves `StoreIsExecuted`. It needs, as
`StoreInv`, that what is stored under an id carries that id (else `QueryProp` would
hide it) and that nothing has been executed before the store exists.

`Erc20Lemmas` and `Erc20Proofs`. `Invariance` proves `IndInv`. Backing alone is not
inductive. An external pair is backed only together with the logs of the current
transaction: the hook mints coins for a log without looking at the tokens again, so
the tokens that arrived with each log still to be processed must be there on top of
those behind the supply. That is `PendingBacked`, whose witness `due` runs along the
receipt; it works because nothing takes tokens from the module's address except
messages, which do not run within a transaction. `OwnersKnown` says that a
module-owned pair has a contract of a past deployment, so that a new contract starts
with no tokens, and that the denom of an unregistered contract has no supply;
`PairsIndexed` makes an exchange touch one pair only. `Erc20Lemmas` has what each
operation does to the two ledgers and, kind by kind of such effects, that `IndInv`
is preserved; `StepCases` in `Erc20Proofs` sorts the steps of the specification into
these kinds, or shows that nothing changes (`RestartKeeps`: the import rebuilds the
three stores as they were). From `Invariance` follow `IndexesAgree`,
`NativeCoinsBacked` and `NativeTokensBacked`; `NativeSupplyNeverChanges` is the action
property.

`Erc20Proofs`, vaults. `Refinement`: every step of `Spec` is a step or a stutter of
`Vault`, one step of `StepRefines` per kind of step; `VaultsSolvent` proves, from
`IndInv`, that the mapped vaults are solvent. `ConversionsAreFair` proves the action
property `ConversionIsFair` for the four conversions.

`CsrProofs`. `CsrInvariant` proves `CsrInv`. The properties alone are not inductive,
for two reasons. A failed transaction replaces the state by `saved`, so each of them
must hold of `saved` too (`RegistryInv`, `MoneyInv`). And a log is handled after the
calls of its transaction, so `LogInv` says of every log that the Turnstile has the
registration it tells of and did not have it when the transaction began, and that
everything the Turnstile knew then is still the same in both registries. `TxInv`
says that the fee collector holds the fee of the gas limit in both states, from
which the refund, the share and the burn can be paid, and that an enabled module has
its Turnstile after `BeginBlock`. A CSR without contracts has no revenue, so that a
registration forgets none. The six properties of the run `csr_transactions` follow:
`RegistryStaysIndexed`, `RegistryStaysFromTurnstile`, `RevenueStaysEarned`,
`FeesStayConserved`, `HookFailureExplained` (with the arithmetic of `ShareEdges`: a
share below one is less than the fee) and `RegistrationStaysFinal`.

`LendLemmas` and `LendProofs`. `LendInvariant` proves the types with `PoolSolvent`
and `UsdIsDebt`, one lemma per function of `Pool`; withdrawals need the sum to bound
what one user has. `PoolStaysSolvent` and `UsdStaysDebt` follow. `CollateralIsKept`
is the action property `CollateralKept`: `RoundedDown` turns the division in
`getTokenMaxWithdrawable` into the bound with one unit of rounding. `StakesSafe`
proves `StakesConserved` from `StakeInv` (its types and totals): every change of a
stake is a `ChangeBy` of the user's, the validator's and the pool's number at once.
`StakesFollow` and `LoansAreWithinMax` prove the action properties
`StakeFollowsSupply` and `BorrowIsWithinMax`. The latter allows one unit of a value
in USD, because `borrow` compares a debt rounded down to such units; for scales
where the rounding occurs the bound without it is false, and the run has such a
scale.

`LendProofs`, rewards. `RewardsSafe` proves `RewardSolvent`, for reward tokens outside
`skipped`. What a user may claim
is rounded down and therefore no sum that steps preserve. `RewardInv` has instead
the unrounded `Dues` of all users, at most `Precision` times the balance, with the
facts that no user is paid ahead of the stored index and that a token off the list
has no index. `DuesFall` shows that settling a user never raises the dues, and
`DistributeStep` that a distribution raises them by at most what arrives;
`DuesCover` gets back to the rounded claims.

Only model-checked, and why:

- `ClocksCatchUp`: liveness is out of the prover's reach.
- `HoldersCanExit` and `Redeemable` speak of ENABLED; `HoldersPassChecks` proves
  what the first needs of the state.
- `Onboarding`: its actions are guarded by ENABLED of the modules it composes.
- `HookNeverFails` needs that the sum of all holdings of a contract is its total
  supply, along all steps of a transaction.

## Not modelled

- Ante handlers: the chains consist of decorators of the SDK, ibc-go and ethermint
  (signatures, sequences, fees, gas), of which `Csr` models the one that takes the
  fee of an Ethereum transaction. The repository's own part is their order and a
  filter of authz messages.
- Upgrades and migrations: each runs once and sets parameters, the standard denom
  (v7) or the port of govshuttle (v4). A change of the standard denom or of the port
  during the life of the chain is therefore not covered by the models.
- Queries, command line, simulations, test networks, the IBC test chain: they read
  the state or drive the program and hold none of the chain's own.
- The rest of `app`: it constructs keepers and routes. What the order of hooks and
  the blocked accounts mean for the modules is part of their models. The export for
  height zero, which rewrites the state of staking, slashing and distribution, is
  left out.
- Generated code: protobuf encodings.

The repository has about 139,000 lines of Go and Solidity: 93,500 of generated code,
22,000 of tests, test utilities and simulations, and 23,400 others. The definitions
map to about 4,000 lines. That is 3 % of all and 17 % of the others, which also hold
the IBC test chain (4,200 lines), the command line, the application's wiring,
queries, codecs and stateless message validation. So most lines of the repository
are outside the models; the operations of the modules and contracts in the first
table that change state are inside.
