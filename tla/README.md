# Specifications of the looping agent

TLA+ modules for the parts of this repository where order, time and failure
decide whether money is safe: the Move packages that hold and release treasury
funds, the relay and the solver that spend through them, the main agent with its
memory and health guard, and the loop-strategy pipeline around its file-based
ledger. TLC checks them on small instances; TLAPS proves results about the
on-chain packages, the main agent, the ledger lock and the pipeline for every
value of the constants.

## 1. The system

| Component | State | Operations | Hard behaviour | What makes it correct |
|---|---|---|---|---|
| Treasury (`move/packages/core/sources/capability.move`) | funds, spend window, agent cap id, custodied receipts | create, deposit, withdraw, revoke, take / put back a receipt, bounded release | windows, expiry, two owners, any order of calls | the agent moves at most what its terms allow; coins stay the owner's |
| Adapters (`move/packages/*_adapter`) | receipts inside the treasury | verified supply, owner redeem | swap of an adapter, a receipt of another type or another treasury | each released coin is behind a receipt |
| Decision registry (`core/sources/decision.move`) | last nonce per treasury, adapter table | register_adapter, verified_release | replayed, late, mixed-up intents | one signed intent, at most one release |
| Enclave config (`move/packages/enclave`) | pinned PCRs and version, attested keys | create, register, update_pcrs, destroy | objects older than the config | a current object holds a key of the pinned image |
| Enclave service (`enclave/app`) | a key | decide | none of its own | legs within the budget, consecutive nonces |
| Allocation (`agent/src/core/allocation.ts`, `enclave/app/allocation.ts`) | none | water-filling, pruning, rounding repair | jumps of a yield, rounding at boundaries | legs within budget and caps, no better split |
| Treasury relay (`core/treasuryTools.ts`, `clients/chain/treasuryClient.ts`) | none | read budget, decide, one transaction of several legs | state read before it is used, lost answers, two clocks | never asks for more than the chain grants |
| Strategy ledger store (`core/strategyLedger.ts`) | ledger file, lock file | load, update, clearStaleLock | several processes, crashes, stale locks | updates are serialized and none is lost |
| Loop pipeline (`core/subagents.ts`) | proposals, plans, receipts, loops, locks, snapshots | six roles, claim and execute | timers interleave, claims lapse, legs fail | one plan at a time, no leg twice, every plan ends |
| Supervisor (`agent/src/index.ts`) | which roles are running | daemons, supervisor | overlapping ticks | one tick of a role at a time |
| Main agent (`autonomousAgent.ts`, `toolRegistry.ts`, `policy.ts`) | run state, actions | runOnce, tools, lending writes | parallel tool calls | cooldown, floor and policy bound every write |
| Agent memory (`agentMemory.ts`, `memoryStore.ts`) | cache file, Walrus blob, pointer | load, save | overlapping saves, failed uploads, a torn pointer | a settled action is not forgotten |
| Health guard (`healthGuard.ts`) | alert | read, repay | failed reads, failed repay | a critical position is repaid or alerted |
| Protocol clients (`clients/chain/*Client.ts`) | Suilend reserve map | reads, simulations, writes | failed and stale reads, units | a write that reports success landed |
| Seal key policy (`core/sources/seal_policy.move`) | none | seal_approve | – | it asks what `verify_signature` asks |
| Scripts, configuration, HTTP and storage clients, dashboard | none that the others depend on | I/O | – | – |

The pieces meet in three places. On chain, an adapter's entry function calls
`verified_release`, which calls `release_with_ticket`; the ticket forces the
receipt back into the treasury in the same transaction. Between agent and chain,
the relay computes a budget from a treasury it read, has the enclave sign legs
for it and submits them; time, the owner and other calls move in between. Off
chain, the six roles and the main agent share the ledger file: each loads
it without the lock to read, calls `update` to change it, and between the two
awaits RPC, an LLM or a transaction. They also share the wallet: the supervisor
runs the executor beside the main agent, with the same key and the same clients, so a
position that one of them has read, the other may move.

## 2. Modules

| Module | Models | Notes |
|---|---|---|
| `BoundedVault` | what a treasury promises its owner | abstract: no clock, caps, nonces or receipts |
| `Treasury` | capability.move and receipt custody by the adapters | one action per transaction: a Move abort undoes every write |
| `TreasuryVault` | the refinement mapping from `Treasury` to `BoundedVault` | `ImplementsVault` |
| `EnclaveRegistry` | enclave.move | a PCR set is an image, a boot is a key |
| `Decision` | decision.move over `Treasury` and `EnclaveRegistry` | `ImplementsTreasury`: the attested path adds no behaviour |
| `ReserveCurves` | the curve half of allocation.ts and the curves the clients build | operators |
| `Allocation` | the solver half of allocation.ts | operators over `ReserveCurves` |
| `TreasuryRelay` | treasury_supply, get_optimal_allocation, decide.ts, and the chain as they meet it | composes `Allocation` |
| `LedgerLock` | `withLock`, `clearStaleLock`, `update` | processes, crashes, reused pids |
| `LoopPipeline` | subagents.ts, and the two pipeline tools of toolRegistry.ts | one action per ledger update and per step between updates |
| `AgentMemory` | the functions of agentMemory.ts that change the state | operators on one record |
| `MemoryStore` | memoryStore.ts: cache, blob and pointer | composes `AgentMemory` |
| `Policy` | `evaluateLendingWrite`, `evaluateHealthGuard` | operators |
| `LendingClients` | the Suilend, NAVI and Scallop clients and `signAndExecute` | composes `Policy` |
| `HealthGuard` | the pass of healthGuard.ts | composes `MemoryStore` and `LendingClients` |
| `AgentRun` | runOnce, the tool loop and the write tools | composes `HealthGuard` |
| `TreasuryProofs`, `DecisionProofs`, `AgentRunProofs`, `LedgerLockProofs`, `LoopPipelineProofs`, `AllocationProofs`, `TreasuryRelayProofs` | theorems | section 5 |
| `SumLemmas` | lemmas about sums over finite sets | used by `TreasuryProofs` and `AllocationProofs` |
| `MC*` | constant values of the TLC runs | |

Definitions whose comment begins with "Mutant" are plausible bugs of the
definition that follows; nothing in a specification uses them. They are there
to show that a property would notice.

**Treasury.** `treasury[t]`, `terms[t]` and `custody[t]` are the fields of one
`Treasury` object; `now` is `Clock`. A receipt is an object of its own, told apart by
the number it was minted under (`born`). `loose` holds those that lie in no treasury,
whoever has them: `owner_recustody` takes any receipt that its caller brings
(`capability.move:273-282`), so one may go into another treasury, whose owner then
redeems it. NAVI's AccountCap and Suilend's ObligationOwnerCap can also be opened and
used at the protocol, past the adapters (`OpenPosition`, `HolderTrades`); `brought`
counts what came in and went out that way. `hist`, `spend` and `brought` are history
variables and appear in no guard except the bounds `MaxInflow` and `MaxBrought`. `new`
mints the only two caps of a treasury, so a cap is named by its treasury, and the "wrong
cap" cases are calls whose cap names another treasury. A receipt records its adapter,
which stands for its Move type: `dof::remove` and `borrow_mut` abort on the wrong type,
and that is how an adapter swap or a receipt put back under another protocol id shows.
Yield and loss in the lending protocols are outside: a receipt is worth its principal.

**Decision.** No set of messages in flight is kept. Every intent of `Intents`
can be presented with a signature of any key at any step, which covers late,
repeated and reordered delivery. The model has one enclave config: a second one
has objects of its own, which `verified_release` tells apart by their type parameter and
registry, and shares nothing with the first.

**ReserveCurves, Allocation.** Rates are integers in one unit, utilizations are
parts of `UtilScale`, amounts are raw units; where the code halves an interval of
doubles until it cannot shrink, the model halves one of integers. Where the sum
of the legs jumps at the water line (the yield of a pool rises at its kink), the
double the code ends with lies on one side or the other: the parameter `above`
says on which, and both are run. Recursion is by recursive functions and folds.

**TreasuryRelay.** `calls[c]` is one tool call between its awaits: `ReadBudget`,
`Decide` (gathering curves, some of which may fail, the split, the legs and
`buildVerifiedAllocationTx`), `Land` (the transaction reaches the chain, also after its
answer was given up on), `Answer`, `Preview` for the tool without a transaction. `seen`
and `at` are history: what the call read. `vault` is the part of the `Treasury` record
that a release reads and writes; `LegAllowed` and `Released` are `release_with_ticket`
and the nonce check, with the abort of `period_start_ms + period_ms` where it is no u64
(`WindowEnds`, `MaxU64`); `computeDeployable` adds the same two as doubles, which do not
overflow. `Executed` runs them along the legs of a transaction, all or none. `releases`
is history, a set, since the nonces order it. `clock` is the chain's; `Local` is the
agent's, ahead or behind by `skew`. `OwnerActs` and `PoolMoves` are everybody else.
`Decide` joins several awaits (`treasuryTools.ts:164-176`): the legs depend on what was
read at `ReadBudget` and on the curves, and what moves between the gathering and the
enclave's answer also moves between `Decide` and `Land`.

**LedgerLock.** Inside one process a synchronous run of calls is not interleaved
(`Running`): opening the lock and writing its metadata, and judging a lock stale
and unlinking it. Between processes everything interleaves. `LockAges` is
five times `staleLockMs` passing; in a deployment of one process the synchronous
mutators give the lock back first, so there it applies to a lock nobody
holds. The ledger is reduced to a counter per worker. `load` reads an
unparsable file, or one of another version, as an empty ledger
(`strategyLedger.ts:253-257`); the file is only ever replaced by a rename, so that path
is not reached and is left out.

**LoopPipeline.** `proposals` and `plans` are the ledger's arrays, newest first;
`loops`, `receipts`, `locked`, `market`, `position` are the rest of the ledger that
decisions depend on. `reading`, `draft` and `job` are what position-risk, the strategist
and the executors hold while they await. `chain` is the wallet's positions. Time is
abstract: a proposal's TTL, the age limit of its snapshots and a claim's TTL each pass
at any moment after they began. A leg can land and return, fail before it lands, or land
and throw while `signAndExecute` waits. Every loop moves the same amount of each asset
and a position is the set of assets held of which the wallet has at least that much, so
`hasPositionAmount` becomes membership. `OthersMove` is everyone else with a hand in the
wallet (the main agent's tools, the health guard, the owner): it takes an asset of
`Shared` below that amount or brings it there, at any time. `stood` is history: what was
ever held. The static limits of `validateLoopProposal` (assets, protocols, APR, health
factor, caps) are one flag, `sound`. The reads of different protocols in one position
snapshot are one step, where the code awaits them together (`Promise.all`): a snapshot
torn by a move between two reads, which shows a debt and a target that never stood at
one time, is not in the model, and `OnceStood` does not claim that they did.

**AgentMemory, MemoryStore.** The state is a record of lists, newest first, with
their limits; of a record only what some gate reads is kept. A blob is addressed
by its content, so the pointer holds the state itself. `cache` is rewritten by a
rename; the pointer's file is not, and a process that dies over it leaves one
that reads as none. An upload ends in any order and may fail. `load` prefers the
pointer's blob, or the environment's, to the cache and overwrites the cache with it.

**Policy, LendingClients.** A health factor is a pair of borrow limit and debt;
amounts are raw units of one coin. Each client keeps its own way of reporting an
amount and of failing: Suilend throws, NAVI throws for positions and answers an
infinite health factor when that read fails, Scallop answers an empty position: to
what reads it, no debt and nothing critical.
`reserveMap` is Suilend's, read once per process. A request names its asset by
shorthand or by coin type, as the model spelled it; `resolveCoinType` gives the coin.
Suilend weighs debt against the limit (`BorrowWeight`), its simulation adds the new
borrow unweighted, or as nothing when no market lists the coin (`Counted`).

**HealthGuard, AgentRun.** `run` is where the run stands, `mem` its state object,
`calls[s]` a tool call of the current round between its awaits. All calls of a
round pass their gate in one turn of the event loop (`ModelCalls`, as
`Promise.all` starts them); their balances, simulations, transactions, posts and
saves interleave afterwards. `ExecutorBorrows` is the loop executor on the same
wallet. `settled` is a history variable: the facts that a save kept, in the cache at
least. `stranded` are those of them that the next blob lacked when a run crashed
or ended with its upload failed (`Strand`); `uploaded`, what the last save of a run did
upload, is never excused that way unless the pointer to it was torn. `Crash` can come
at any await, the guard's own save included. The language model is any choice from
`requests`.

## 3. Runs

| Run (cfg) | Instance | What it shows |
|---|---|---|
| `treasury_exposure` (`TreasuryExposure`) | 1 treasury, 1 adapter, clock 0..5, four kinds of terms (two releases to a window, one to a window, a zero period, a period that overflows) | `SpentIsWindowTotal`, `TwoWindowsPerSpan`, `LifetimeExposure`, `MandateEndsForGood`, `ImplementsVault` |
| `treasury_custody` (`TreasuryCustody`) | 2 treasuries, 2 adapters (one destroys its receipt), a receipt opened and a coin supplied at the protocol, clock stopped, symmetry | `TypeOK`, `Conservation` |
| `decision_replay` (`DecisionReplay`) | 1 treasury, nonces 0..3, an expired and an unsupported intent, 1 re-pinning, an adapter swap | `DecTypeOK`, `OneReleasePerNonce`, `CurrentObjectsAttested`, `CurrentReleasesAttested`, `ImplementsTreasury` |
| `ledger_supervisor` (`LedgerSupervisor`) | 2 processes one after the other under one pid, 2 workers each | `LockTypeOK`, `Serialized`, `UpdatesSurvive`, `AbandonedLockRemoved` |
| `ledger_daemons` (`LedgerDaemons`) | 2 processes at once | violation: `UpdatesSurvive` |
| `pipeline_live` (`PipelineLive`) | dry run and live, strategist and main agent, 2 claimants, failing reads, 1 move of others, fresh loops, one of them unsound | `OneOpenPlan`, `NoDuplicateLegs`, `OneReceiptPerPlan`, `LoopsAreBacked`, `DecidedOnce` |
| `pipeline_fair` (`PipelineFair`) | live, a ledger that keeps 1 proposal, failing reads, a protocol that turns critical, 1 crash, loops on existing collateral, fairness | `PipeTypeOK`, `OpenPlansClose` |
| `locked_loop` (`LockedLoop`) | live, existing collateral, a protocol that turns critical | violation: `LockedLoopsUnwind` |
| `agent_runs` (`AgentRun`) | seven deployments, 3 runs, 2 calls a round, symmetry | `AgentTypeOK`, `NothingSettledForgotten`, `LastCriticalAnswered`, `SecondObligationIsParallel`, `CooldownAcrossRuns`, `SettledTweetNotRepeated`, `BorrowFloorAsCounted` |
| `guard_repay` (`GuardRepay`) | as `agent_runs` | violation: `GuardRepaysLargestBorrow` |
| `alike_pools` (`AlikePools`) | three pools with the same curve, above their kinks | violation: `LegsWithinBudget` |
| `treasury_relay` (`TreasuryRelay`) | ten deployments, 2 overlapping calls, clock 2..4, symmetry | `RelayTypeOK`, `LegsWithinBudget`, `CapsUpToRounding`, `NoBetterSplit`, `NoDustBesideAnother`, `OneBudgetOnce`, `SubmittedMeansReleased`, `AbortsForAReason`, `BudgetIsHonoured` |

**Deployments.** The agent and the relay choose one configuration at the start, each
with its own part of the state space. `MCAgentRun`: *Supplier* (live supplies with
tweets, memory on Walrus, a blob of another wallet to restore), *Restored* (an older
blob of this wallet), *Speller* (no allowlist, a coin under two spellings, several
rounds, memory in the file), *Borrower* (borrows on Suilend beside the loop executor's,
with a borrow weight of 2, while prices move, NAVI for the guard), *Repayer* (the guard
alone, over memory on Walrus with an older blob), *Planner* (a dry run on Scallop),
*Mover* (withdrawals from NAVI and Scallop). `MCTreasuryRelay`: *Plain* (a budget that
takes several transactions, reads that fail), *Whole* (the budget in one transaction,
the agent's clock behind), *Ahead* and *AheadAbove* (clock ahead, a protocol without
object ids, a pool above its kink, on either side of the jump), *Limited* and *Full*
(pools with little room and with none, which move), *Endless* (a period whose end is no
u64), *Wallet*, *Choosy* and *Paused* (the preview over the agent's own wallet, with a
minimum position and with the pause of the loop strategy).

**Bounds.** Each is a constant whose comment says "bound". On chain: `MaxNow` and
`MaxInflow` let three windows pass and each be filled; two treasuries are enough because
a transaction names one treasury and one cap, and a receipt leaves one and enters
another. `MaxMinted` bounds the receipts that holders open, `MaxBrought` what they
supply themselves: one of each is enough to mix such a position with a treasury's own in
`treasury_custody`; the runs about clock and attestation have none. That intents of
several treasuries do not mix is left to the proofs of `Decision`. `MaxVersion` 1
replaces one pinned image by any; that pinning it again changes nothing is proved.
`LedgerLock`: one death is enough for a lock to be left, `MaxCount` lets each worker be
overwritten after its first update; the proofs need neither bound. `LoopPipeline`: a
plan that was settled and a second one started meanwhile is the longest overlap that
matters, since only one plan is open at a time; two proposals give it. One move of
others is enough to make a snapshot wrong. `PipelineLive` has no crash action: an
executor that dies is one that takes no further step, and its claim lapses; the crash
matters where steps are owed, in `PipelineFair`. `AgentRun`: three runs are a run, one
that restarts after a crash, and one that meets what both left; two landed transactions
are the fewest that can conflict, in one round or across runs (the executor's borrows
count among them); lists of one run, tweet and artifact prune at their second entry.
`TreasuryRelay`: the clock starts at 2 with a window opened at 1, so a window rolls once
and the mandate ends within the run; one transaction of an outsider is enough to disturb
a call; two calls overlap in every way three could pairwise. `MaxU64` is 100, above
every sum but that of *Endless*. Budgets of about a dozen raw units and rates to 0.001
percent leave units to repair in both directions.

**Deadlock.** It is not checked: nobody is obliged to act. A treasury
whose funds are gone, a ledger without processes, a pipeline, an agent or a
relay at its bounds stop legitimately; what must go on is stated as liveness.

**Fairness.** `AbandonedLockRemoved` assumes that workers keep running, that a
dead supervisor is restarted (the deployment's process manager) and that time
passes. `OpenPlansClose` assumes that the timers of coordinator and executor
keep firing (`setInterval` in `runSupervisor`, whose tick swallows errors), that
calls return and that a claim's TTL passes. Nothing is assumed of the observers
and the strategist. `LockedLoopsUnwind` adds the unwind guard's timer. For the
agent and the relay no liveness is stated: whether the language model ever calls
a tool is its own choice, and every call has an error path that ends it.

## 4. Where code and documentation differ

Runs that end in a counterexample:

- `UpdatesSurvive` with two daemons (`ledger_daemons`): a lock file without
  metadata counts as abandoned at once, and the finally block unlinks whichever
  lock is there.
- `LockedLoopsUnwind` (`locked_loop`): a loop recorded under an existing lock is
  never flagged for unwinding.
- `GuardRepaysLargestBorrow` (`guard_repay`): the guard repays the amount its client
  reports as if it were raw units; each client reports another unit.
- `LegsWithinBudget` with three pools alike (`alike_pools`): above its kink the yield
  of a pool rises as it is filled, so its leg jumps at the water line. One jump
  overshoots the budget by less than the largest leg, from which `finalize` takes
  it; three at once leave two legs of a whole budget each. The treasury's caps then
  refuse the transaction, a preview shows it. The proof attempt of the property met it;
  the doubles of the code do the same for equal curves.

Met while modelling, and either stated by the property that holds instead or excepted
by it:

- The rolling period cap is on tumbling windows: twice the cap fits in one period
  across a boundary, which `TwoWindowsPerSpan` states.
- `update_pcrs` does not invalidate the Enclave objects of a retired image, and a
  release does not ask for the current version: `CurrentReleasesAttested` is
  about current objects.
- The coordinator and an executor that comes back late both record a loop of one
  live plan, so the loop limit can be passed by one; `OneReceiptPerPlan` is
  about the dry run, where the claim guard decides.
- A borrow is estimated at 0 USD when no market lists its coin
  (`toolRegistry.ts:1122`), and Suilend's simulation adds the unweighted estimate to
  weighted debt (`suilendClient.ts:445`): a first borrow can pass at the floor and end
  below it. `BorrowFloorAsCounted` is about the debt as the simulation counts it. A failed
  Scallop read answers an empty, healthy position; the property exempts Scallop, and
  the health guard takes such a position as not critical.
- The supervisor's executor borrows beside the main agent, within the limits of its own
  proposal: a borrow that lands between simulation and
  transaction is the exception of `BorrowFloorAsCounted`. For the same reason
  `SecondObligationIsParallel` is about one process of the main agent: the executor's
  supply may create an obligation of its own.
- The cooldown compares assets as they are spelled (`agentMemory.ts:432-443`), as
  does `shouldPauseMainAgentCollateralSupply`, while the clients resolve `usdc` and the full
  coin type to one coin. With the empty allowlist that is the default (`config.ts:75`) a
  supply is repeated within the cooldown under its other name; an allowlist with one
  spelling a coin prevents it. `CooldownAcrossRuns` says so.
- `memoryStore.ts:54-55` says "any Walrus outage falls back to" the cache, and
  `memoryStore.ts:119` "the local cache still holds the state". It does until the next
  `load`, which prefers the older blob that the pointer (or, after a torn pointer,
  `WALRUS_STATE_BLOB_ID`) names and overwrites the cache with it. What the cache alone
  held when a run crashed or its last upload failed is forgotten;
  `NothingSettledForgotten` excepts it (`stranded`), and with it the cooldown and the
  tweet gate.
- `computeDeployable` (`treasuryClient.ts:85`) adds `periodStartMs + periodMs` as doubles and
  promises a budget where the chain's u64 sum aborts every release; `new`
  (`capability.move:108-142`) does not bound `period_ms`. `BudgetIsHonoured` and
  `AbortsForAReason` name it as a reason (`WindowCountable`).
- Reconciliation takes positions of the wallet for the legs of a plan. A loop that the
  coordinator concludes may stand on an older position, on one that another plan's
  failed run left, or on one that was moved away since the snapshot;
  `LoopsAreBacked` claims the plan's own legs only of the loops its executor records.
- The relay's answer "atomic tx reverted, funds untouched"
  (`treasuryTools.ts:270-276`) is also given when the answer of a landed
  transaction is lost; `OneBudgetOnce` is what holds then.
- The repair in `finalize` places up to one raw unit a candidate on the largest
  leg even at its cap, and the comment there (`allocation.ts:435-437`) takes any
  larger gap for a shortfall of the caps; above a kink water-filling leaves a gap
  by itself, and its legs can exceed the budget before the trim. Hence the slack
  in `CapsUpToRounding` and the condition `Concave` of `NoBetterSplit`.
- The preview caps a leg at `maxSupplyRaw`, the enclave at the treasury's
  per-transaction cap.

## 5. Proofs

TLAPS checks each of these for every value of the constants that satisfies the
modules' `ASSUME`s (constants have the right types, null values are not objects).
The bounds are arbitrary naturals.

**On chain.**

- `TreasuryProofs!TypeCorrect`: `TypeOK`. The step is one case per action; the
  leaves that matter are the subtractions (`withdraw_principal`, the release, a
  partial redeem), which stay in `Nat` because of the code's checks.
- `TreasuryProofs!ExposureIsBounded`: `LifetimeExposure`. It is not inductive: it
  says nothing of the window that is open. The invariant (`AccountInv` in
  `ExposureInv`) is that what was released is at most `rolls * periodCap` plus
  what the open window spent, that the open window spent at most the period cap,
  and that `rolls` windows of `periodMs` fit between the creation and the start
  of the open one. A release happens before expiry, so the number of rolls is
  bounded by the lifetime divided by the period.
- `TreasuryProofs!MandateEnds`: `MandateEndsForGood`, from the guards of
  `AgentActive` and from `Create` acting only on a treasury that is not created.
- `FundsAreConserved`: `Conservation`, an equation per treasury (what came in is funds,
  withdrawn or released) and one over all receipts, since a receipt may end up in another
  treasury and its principal with that owner. `FundsInv` adds that the receipts are
  finitely many objects, each in one place, told apart by the number they were minted
  under. Sums over treasuries, protocols and loose receipts change at one place a step
  (`SumLemmas`).
- `SpentIsExact` (`SpentIsWindowTotal`) and `SpansHoldTwoWindows`
  (`TwoWindowsPerSpan`). `WindowsInv` says of each release made before the open
  window that what was released from it up to that window is at most one cap, so
  that the open window adds at most another, or that a period from it on is over
  and saw two caps at most; a roll turns the first case into the second.
- `TreasuryImplementsVault`: `ImplementsVault`. Each step of `Treasury` maps to a step
  of `BoundedVault` or to none; what is at work is one pool behind all receipts,
  followed through the equation of `Conservation` over all of them, and what holders do
  at the protocols is the vault's `Trade`. The quota of the vault is the bound of
  `ExposureIsBounded`.
- `DecisionProofs!ObjectsAttested`: `CurrentObjectsAttested`; the conjunct
  that no object is newer than the config is what makes it inductive, since
  `update_pcrs` then leaves no object current.
- `DecisionProofs!AttestedPathImplementsTreasury`: each step of `Decision` is a
  step of `Treasury` or leaves it unchanged. Hence `AttestedExposureIsBounded`,
  `AttestedAccountsAreExact` (the three properties of sums) and
  `AttestedPathImplementsVault`.
- `DecisionProofs!DecTypeCorrect`, `NoReplay` (`OneReleasePerNonce`; the invariant
  adds that the last accepted nonce is at most the registry's), `ReleasesAttested`
  (`CurrentReleasesAttested`, from `CurrentObjectsAttested`).

The sums are folds over finite sets. `SumLemmas` proves what is needed of them
without an induction theorem that takes an operator: among the subsets that would
be an exception there is a smallest one, because the strict subset ordering of
a finite set is well founded, and taking one element out of it gives a smaller one.

**The main agent**, for any number of slots, runs, rounds and posts, any
configurations and any limits of the lists (`AgentRunProofs`).

- `AgentTypeCorrect`: `AgentTypeOK`. What a list limit is worth, `Newest`, and that
  an update in place keeps it; `RoundInv` adds that calls run only in rounds of tools.
- `AlertsAnswered` (`LastCriticalAnswered`). `AlertInv` follows the alert through the
  pass: as long as the last critical protocol met was not repaid, an alert is pending
  in memory and in the file; a repay clears alerts and is then the last.
- `ObligationsParallel` (`SecondObligationIsParallel`). `ObligationInv`: while a
  call waits to create an obligation, the wallet has none, or a transaction of the
  same round created one; so a second one has a first of its own round.
- `BorrowFloorHolds` (`BorrowFloorAsCounted`). `BorrowInv`: for a call that waits to
  borrow, today's weighted debt and what its borrow was counted for stay at the floor at
  the limit it was simulated with, or a borrow landed there since: repays only lower
  the debt.
- `SettledRemembered` (`NothingSettledForgotten`), `CooldownHolds`
  (`CooldownAcrossRuns`), `SettledTweetsStay` (`SettledTweetNotRepeated`). The states that a
  run may ever read are `mem`, the cache, the pointer, the environment's blob, and the
  blobs of saves still under way, which may land in any order. `RecordsInv`: such a state
  is sound (a live action bears a digest, a posted tweet's action is marked) and true
  (what it says landed, landed, under that digest and spelling). `KeepsInv`: memory and the
  cache keep all that is owed, settled and not stranded (an action, unless its list is
  full; a tweeted mark, always), and `BlobsKeep`: while a run goes on a blob may lag, but
  the one the next load takes keeps what an earlier run's last save uploaded; what it
  lacks when the run is over is stranded by then. Soundness is what `KeepsInv`
  needs: a new action bears a digest above all those settled, so it enters the list
  unmarked and contradicts nothing. The cooldown needs truth, since its gate compares
  kind and asset of the record, not of the transaction, and `GateInv`: a call
  that passed the gate met, in memory's reach and within the cooldown, no earlier supply
  of that spelling.
  A step either carries a state to one that keeps as much (`Carries`), or writes
  one of these states over another.

`AgentAssumption` lets a blob be restored only if its digests are of an earlier
life of this wallet and its posted tweets have their actions marked
(`RestoredState`), which is what `saveAgentState` leaves; a blob of another wallet
is `Foreign` and is refused. `StoreAssumption` keeps null values apart from states.

**The ledger lock.**

- `LedgerLockProofs!LockTypeCorrect`: `LockTypeOK`, for any number of processes.
- `OneProcessSerialized` (`Serialized`) and `OneProcessSurvives`
  (`UpdatesSurvive`), when at most one process runs at a time (`MaxAlive = 1`), with any
  number of crashes, restarts and reused pids. With two daemons both are false,
  which `ledger_daemons` shows. The invariant `LockInv` says that a worker inside
  created the lock file that is there, that a worker removing a stale lock
  removes one nobody is inside of, and that the copy a worker loaded is still
  the ledger; the last is what makes its save lose nothing.

**The pipeline**, for any number of executors, protocols, proposals, crashes and
list lengths.

- `LoopPipelineProofs!PipeTypeCorrect`: `PipeTypeOK`, with the finiteness of the
  counted sets and that an executor that is not idle holds a proposal.
- `OnePlanAtATime`: `OneOpenPlan`, from its pairwise form `OneOpen`: only the
  coordinator opens a plan, and only when none is open after reconciliation.
- `DecisionsAreFinal` (`DecidedOnce`) and `LegsLandOnce` (`NoDuplicateLegs`). The
  invariant `LegsInv`: an id names one proposal and one plan; nothing was planned,
  claimed or sent under the id of a proposal that is open (`QueueInv`) or still being
  built (`DraftInv`); whatever was done bears the id of a run that started
  (`TouchedInv`); in a live run one executor at most holds a plan and only legs behind
  its program counter have landed (`LiveInv`); a dry run sends nothing (`DryInv`).
- `LoopsAreOpened` (`LoopsAreBacked`). The invariant
  `BackedInv` adds that a snapshot shows nothing that never stood in the wallet, that a
  plan was made of a sound proposal (so its two protocols differ), and that the
  legs behind a live executor have landed for its plan. Nothing is asked of what others
  do with the wallet.
- `OneOutcomePerPlan` (`OneReceiptPerPlan`), when no two
  concurrent calls bear the same actor and runId (`RunsApart`): once a plan has an
  outcome it is closed, its proposal does not wait, and no executor still
  holding it passes for the run that claimed it last.

The theorems after `OneOpenPlan` assume `MaxMain <= 1`: a run of the main agent
makes one proposal at most. A main-agent proposal is named by its run and the
length of the proposal list, so two of one run made when the list is full bear
one name (`toolRegistry.ts:313`), and plans and proposals are found by name.

**The relay**, for any calls, deployments, clocks and owners
(`TreasuryRelayProofs`).

- `RelayCorrect`: the invariant `RelayInv`. It keeps an account of every read
  (`Account`): what was released since the treasury was read is what its funds have
  lost, as long as nobody else moved them, and what its window has gained, as long as
  it is the same window. A call carries the budget it was promised (`Promised`, some
  moment's `computeDeployable`), legs of consecutive nonces within the cap
  (`CallSent`), and either no release or one for each leg that could be built
  (`CallLanded`). `Land` is an induction along the legs (`Landed`), over the recursive
  function of `Executed`.
- `RelayTypeCorrect` (`RelayTypeOK`), `SubmittedIsReleased`
  (`SubmittedMeansReleased`).
- `OneBudgetIsSpentOnce` (`OneBudgetOnce`): the budget is the funds or what the
  window had left, and the account bounds the releases by both.
- `PromisedBudgetIsHonoured` (`BudgetIsHonoured`): if the treasury is as it was read,
  the promise still covers the legs at the chain's clock, also in a window that has
  rolled since (`PromiseHolds`), and after each leg what is left covers the others
  (`Covers`). The agent's clock must not be ahead: it could see a roll too early. The
  end of the window must be a u64 (`WindowCountable`), and stays one when a release opens
  the next window (`CountableStays`).

`BudgetIsHonoured` assumes nothing of the solver: that its legs exceed the budget is
one of its disjuncts, since `alike_pools` shows that they may.

**The solver**, for any number of pools, any curves, caps and budgets, and any number
of bisection steps (`AllocationProofs`). The recursive functions of `Bisect` and of
the pruning rounds are shown to exist and then followed step by step, by an induction
over an initial segment of the naturals (`UpTo`) that, like that of `SumLemmas`,
needs no theorem over operators.

- `SolvedLegs`: one leg at most for each pool, none empty, none past its cap by more
  than one unit a candidate. The water line plays no part in it: `solveMarginalEquals`
  stays between 0 and the cap whatever the yields are (`WaterWithin`), and the repair
  adds one unit a candidate at most, to one leg, or takes units away
  (`RepairedWithin`).
- `SolvedWithinBudget`: on the side of the water line where the legs fit (`~above`),
  their sum is at most the budget and pruning leaves no leg below the minimum beside
  another. Nothing is asked of the curves but numbers: that the upper end of the
  bisected interval fits the budget is an invariant of the bisection
  (`LineWithinBudget`), since it starts at the best first yield, where no leg is funded,
  and moves to a level only after the test that the legs fit. So it needs neither
  falling yields nor convergence. Repair then only adds, and what it adds is missing.

**The relay with its solver** (`TreasuryRelayProofs`, second half). `SolvedInv`: pools
keep their types as others deposit, gathered curves are curves of pools, of
distinct protocols, and each call's legs are a split of its curves, also after the
enclave capped them (`DecidedSplit`). `SpentInv` adds what they sum up to, under
`~config.above`.

- `CapsHoldUpToRounding` (`CapsUpToRounding`), in every deployment.
- `LegsStayWithinBudget` (`LegsWithinBudget`), `NoPreviewedDust`
  (`NoDustBesideAnother`, without its condition on the curves) and
  `RollbacksHaveAReason` (`AbortsForAReason`), where `~config.above`. The last joins
  the two halves: a pool that is as its curve was built takes a leg within the cap
  of the curve (`PoolRefuses`), and a treasury that is as it was read takes legs
  within the budget (`Honoured`).

The condition `~config.above` is needed: where several yields jump at one level and the
doubles end beyond it, the first is false (`alike_pools`). For one jump, TLC checks that
side too (*AheadAbove*).

`RelayAssumption` types the deployments: amounts are naturals, and a pool is what
its client reads of it (`IsPool`).

Only model-checked: `NoBetterSplit`, the optimality of the split, which needs
convergence of the bisections and falling yields; the properties named last where `above`
holds; the liveness properties `AbandonedLockRemoved` and `OpenPlansClose` (out of
the prover's reach); and the four violations.

## 6. Plan

Done, in this order: `Treasury`, `EnclaveRegistry`, `Decision`, `BoundedVault` with
their proofs; `LedgerLock` and `LoopPipeline`; `AgentMemory`, `MemoryStore`,
`Policy`, `LendingClients`, `HealthGuard`, `AgentRun`; `ReserveCurves`, `Allocation`,
`TreasuryRelay`; the proofs of `LedgerLock` and `LoopPipeline`; the proofs about
sums of `Treasury` and their refinement, those of `AgentRun` with the modules
it composes; those of `TreasuryRelay`, and of `Allocation` under it.

Left: a proof of `NoBetterSplit`; the numbers of
`validateLoopProposal` and `buildLoopProposal` in place of `sound`; the release in
`TreasuryRelay` as a refinement of `Treasury`'s (today both are translated from
`release_with_ticket` on their own).

## 7. Not modelled

The bytes of BCS, signatures and attestation documents (who signed what is
kept); the lending protocols' own accounting; SDK and HTTP clients, scripts,
configuration parsing and the dashboard, which keep no state that the properties
relate; floating-point rounding below one raw unit and reported APRs; the price
refresh before a Suilend leg of the relay; prompts, heartbeats, archives and
report texts; key loading and HTTP of the enclave. In treasury mode the write
tools are hidden from the model rather than refused (`toolRegistry.ts:484`), and the
model asks only for tools it is offered. `PROJECT.json` lists every component with
its reason.
