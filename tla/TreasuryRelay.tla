--------------------------- MODULE TreasuryRelay ---------------------------
(***************************************************************************)
(* The agent's treasury tools (treasuryTools.ts, treasuryClient.ts), the   *)
(* enclave's decide, and the chain as far as they meet it: a call reads    *)
(* the budget at its own clock, gathers curves, has the enclave split the  *)
(* budget, and submits the legs as one transaction.  Each await lets other *)
(* calls, the owner, other depositors of the pools and time in between;    *)
(* the transaction may land after its answer was given up on.              *)
(*                                                                         *)
(* One treasury, its adapters registered and its enclave attested; who may *)
(* sign and which adapter serves a protocol is module Decision.            *)
(***************************************************************************)
EXTENDS Allocation

CONSTANTS
    Calls,          \* tool calls
    Deployments,    \* configurations of agent, treasury and pools
    IntentLife,     \* the 600 seconds an intent is valid
    Millis,         \* milliseconds of one unit of the clock
    MaxU64,         \* the largest number of the chain
    MaxClock,       \* bound: the clock stops here
    Aborted,        \* a transaction that was rolled back
    MaxOwner        \* bound: transactions of the owner and of other depositors

\* What of a Treasury the relay reads and a release writes, and its bounds.
VaultType == [funds : Nat, spent : Nat, start : Nat, lastNonce : Nat, agent : BOOLEAN]

U64 == 0..MaxU64

TermsType == [perTxCap : U64, periodCap : U64, periodMs : U64, expiryMs : U64]

\* What of an intent goes into the transaction, its numbers as u64.
Intent == [nonce : U64, protocol : STRING, amount : U64]

\* The rate parameters of a protocol: control points, one kink, two kinks.
IsRates(protocol, rates) ==
    CASE protocol = "suilend" ->
           /\ rates \in [DOMAIN rates -> Int] /\ DOMAIN rates \subseteq Int
           /\ IsFiniteSet(DOMAIN rates)
      [] protocol = "navi" ->
           {rates.optimal, rates.base, rates.multiplier, rates.jump} \subseteq Int
      [] OTHER ->
           {rates.mid, rates.high, rates.base, rates.atMid, rates.atHigh, rates.max} \subseteq Int

\* What a client reads of a pool.
IsPool(protocol, pool) ==
    /\ pool = [f \in {"supplied", "borrowed", "limit", "rates", "borrowApr", "supplyApr",
                      "spreadPct", "boost"} |-> pool[f]]
    /\ {pool.supplied, pool.borrowed} \subseteq Nat /\ pool.limit \in Nat \cup {Uncapped}
    /\ {pool.borrowApr, pool.supplyApr, pool.spreadPct, pool.boost} \subseteq Int
    /\ IsRates(protocol, pool.rates)

PoolsTyped(at) == at = [p \in DOMAIN at |-> at[p]] /\ \A p \in DOMAIN at : IsPool(p, at[p])

ASSUME RelayAssumption ==
    /\ {IntentLife, Millis, MaxU64, MaxClock, MaxOwner} \subseteq Nat /\ MaxClock >= 2
    /\ \A d \in Deployments :
          /\ {d.funds, d.maxSupplyRaw, d.minIdleRaw} \subseteq Nat
          /\ d.skew \in Int /\ d.terms \in TermsType /\ PoolsTyped(d.pools)
    /\ Aborted \notin VaultType

VARIABLES
    config,     \* the deployment
    clock,      \* the chain's clock
    vault,      \* the Treasury's fields and its last nonce
    pools,      \* [protocol -> pool]
    calls,      \* [Calls -> the call]
    others,     \* transactions of others so far
    releases    \* history: [call, nonce, amount], their nonces in the order of the chain

relayVars == <<config, clock, vault, pools, calls, others, releases>>

NoVault == [funds |-> 0, spent |-> 0, start |-> 0, lastNonce |-> 0, agent |-> FALSE]

\* seen and at: history, the treasury that was read and the pools of the curves.
Idle == [pc |-> "idle", budget |-> 0, seen |-> NoVault, curves |-> <<>>, at |-> <<>>,
         cap |-> 0, minPosition |-> 0, legs |-> <<>>, expiresAt |-> 0,
         tx |-> "none", report |-> "none"]

RelayInit ==
    /\ config \in Deployments
    /\ clock = 2
    /\ vault = [NoVault EXCEPT !.funds = config.funds, !.start = 1, !.agent = TRUE]
    /\ pools = config.pools
    /\ calls = [c \in Calls |-> Idle]
    /\ others = 0
    /\ releases = {}

\* Date.now() of the agent.
Local == clock + config.skew

-----------------------------------------------------------------------------
(* What the agent computes. *)

\* Mutant: the idle funds are forgotten.
RemainingOnly(v, terms, now) ==
    LET spent == IF now >= v.start + terms.periodMs THEN 0 ELSE v.spent
    IN  IF ~v.agent \/ now >= terms.expiryMs THEN 0 ELSE Max({0, terms.periodCap - spent})

\* 0 when it cannot supply: revoked, expired, no budget left, no funds.
computeDeployable(v, terms, now) ==
    LET spent == IF now >= v.start + terms.periodMs THEN 0 ELSE v.spent
        remaining == Max({0, terms.periodCap - spent})
    IN  IF ~v.agent \/ now >= terms.expiryMs THEN 0 ELSE Min({v.funds, remaining})

\* A protocol whose markets fail to load is left out.
gatherCurves(wanted, failed) ==
    LET has(p) == p \in wanted \ failed /\ p \in DOMAIN pools /\ HasCurve(p, pools[p])
        found == {k \in DOMAIN ProtocolOrder : has(ProtocolOrder[k])}
        order == SortedBy(found, {p \in found \X found : p[1] < p[2]})
    IN  [i \in DOMAIN order |-> buildCurve(ProtocolOrder[order[i]], pools[ProtocolOrder[order[i]]])]

\* The enclave: one intent per funded leg, numbered from the nonce asked for.
decide(funded, perTxCap, nonce) ==
    [i \in DOMAIN funded |->
       [nonce |-> nonce + i - 1, protocol |-> funded[i].protocol,
        amount |-> IF funded[i].amount < perTxCap THEN funded[i].amount ELSE perTxCap]]

hasRefFor(leg) == leg.protocol \in config.refs

\* buildSupplyHints: what of the wallet may be supplied.
buildSupplyHints(balance, skip) ==
    IF skip \/ balance < config.minIdleRaw THEN 0 ELSE Min({balance, config.maxSupplyRaw})

-----------------------------------------------------------------------------
(* What the chain does with one leg of a transaction, and with all. *)

WindowEnds(v) == v.start + config.terms.periodMs

WindowElapsed(v) == clock >= WindowEnds(v)

SpentBefore(v) == IF WindowElapsed(v) THEN 0 ELSE v.spent

\* Mutant: nothing compares the leg with the funds.
FundsUnchecked(v, leg, expiresAt) ==
    /\ expiresAt >= clock /\ leg.nonce > v.lastNonce
    /\ v.agent /\ clock < config.terms.expiryMs
    /\ leg.amount <= config.terms.perTxCap /\ WindowEnds(v) <= MaxU64
    /\ SpentBefore(v) + leg.amount <= config.terms.periodCap

\* verified_release and release_with_ticket: the sum that tells whether the
\* window elapsed aborts where it is no u64 (that of what was spent would pass
\* the period cap there, which is one).
LegAllowed(v, leg, expiresAt) ==
    /\ expiresAt >= clock
    /\ leg.nonce > v.lastNonce
    /\ v.agent /\ clock < config.terms.expiryMs
    /\ leg.amount <= config.terms.perTxCap /\ WindowEnds(v) <= MaxU64
    /\ SpentBefore(v) + leg.amount <= config.terms.periodCap
    /\ leg.amount <= v.funds

\* The protocol itself takes no more than its limit.
PoolTakes(leg) ==
    LET pool == pools[leg.protocol]
    IN  pool.limit = Uncapped \/ pool.supplied + leg.amount <= pool.limit

\* Mutant: the release is not counted in its window.
ReleasedUncounted(v, leg) ==
    [v EXCEPT !.funds = @ - leg.amount, !.lastNonce = leg.nonce]

Released(v, leg) ==
    [funds |-> v.funds - leg.amount,
     spent |-> SpentBefore(v) + leg.amount,
     start |-> IF WindowElapsed(v) THEN clock ELSE v.start,
     lastNonce |-> leg.nonce,
     agent |-> v.agent]

\* A leg that cannot be built is left out; one that is refused undoes them all.
AfterLeg(v, leg, expiresAt) ==
    CASE ~hasRefFor(leg) -> v
      [] /\ hasRefFor(leg) /\ v # Aborted
         /\ LegAllowed(v, leg, expiresAt) /\ PoolTakes(leg) -> Released(v, leg)
      [] OTHER -> Aborted

\* The treasury after a transaction of these legs: every leg or none.
Executed(legs, expiresAt) ==
    LET after[k \in 0..Len(legs)] ==
          IF k = 0 THEN vault ELSE AfterLeg(after[k - 1], legs[k], expiresAt)
    IN  after[Len(legs)]

\* Amounts of the legs with these indices.
SumOf(legs, indices) == SumFunction([i \in indices |-> legs[i].amount])

ReleaseOf(c, leg) == [call |-> c, nonce |-> leg.nonce, amount |-> leg.amount]

-----------------------------------------------------------------------------
(* The tools. *)

Became(c, call) == calls' = [calls EXCEPT ![c] = call]

Reported(c, report) == Became(c, [calls[c] EXCEPT !.pc = "done", !.report = report])

\* treasury_supply, up to the answer of readBudget.
ReadBudget(c) ==
    LET deployable == computeDeployable(vault, config.terms, Local)
    IN  /\ calls[c].pc = "idle" /\ config.vaulted
        /\ IF deployable = 0
           THEN Reported(c, "cannot supply")
           ELSE Became(c, [calls[c] EXCEPT !.pc = "gather", !.budget = deployable, !.seen = vault])
        /\ UNCHANGED <<config, clock, vault, pools, others, releases>>

\* Legs of a protocol whose object ids are not configured are left out.
Executable(legs) == {i \in DOMAIN legs : hasRefFor(legs[i])}

\* The curves are gathered, the enclave decides, and the transaction of the
\* legs that can be built is signed and sent; nothing is sent when there is no
\* curve, no funded leg or no leg that can be built, or a number is no u64.
Decide(c, failed) ==
    LET curves == gatherCurves(config.allowed, failed)
        cap == config.terms.perTxCap
        funded == solveAllocation(curves, calls[c].budget, cap, 0, config.above)
    IN  /\ calls[c].pc = "gather"
        /\ \E ms \in 0..(Millis - 1) :
              LET legs == decide(funded, cap, Local * Millis + ms)
              IN  IF Executable(legs) = {} \/ legs \notin Seq(Intent)
                  THEN Reported(c, CASE curves = <<>> -> "no curves"
                                     [] curves # <<>> /\ funded = <<>> -> "threw"
                                     [] funded # <<>> /\ Executable(legs) = {} -> "not submitted"
                                     [] OTHER -> "reverted")
                  ELSE Became(c, [calls[c] EXCEPT !.pc = "sent", !.curves = curves, !.legs = legs,
                                    !.cap = cap, !.expiresAt = Local + IntentLife,
                                    !.tx = "inflight", !.at = pools])
        /\ UNCHANGED <<config, clock, vault, pools, others, releases>>

\* readBudget throws, or the enclave does not answer.
Throws(c) ==
    /\ calls[c].pc \in {"idle", "gather"}
    /\ Reported(c, "threw")
    /\ UNCHANGED <<config, clock, vault, pools, others, releases>>

\* The transaction reaches the chain, however late.
Land(c) ==
    LET legs == calls[c].legs
        sent == Executable(legs)
        after == Executed(legs, calls[c].expiresAt)
    IN  /\ calls[c].tx = "inflight"
        /\ IF after = Aborted
           THEN /\ Became(c, [calls[c] EXCEPT !.tx = "aborted"])
                /\ UNCHANGED <<vault, pools, releases>>
           ELSE /\ Became(c, [calls[c] EXCEPT !.tx = "accepted"])
                /\ vault' = after
                /\ pools' = [p \in DOMAIN pools |-> [pools[p] EXCEPT
                      !.supplied = @ + SumOf(legs, {i \in sent : legs[i].protocol = p})]]
                /\ releases' = releases \cup {ReleaseOf(c, legs[i]) : i \in sent}
        /\ UNCHANGED <<config, clock, others>>

\* Mutant: the status of the transaction is not looked at.
StatusIgnored(tx) == tx \in {"accepted", "aborted"}

\* signAndExecute returns a digest.
Confirmed(tx) == tx = "accepted"

\* The answer, or the loss of it: any error is reported as a reverted
\* transaction, one that never reached the chain and one that landed alike.
Answer(c) ==
    /\ calls[c].pc = "sent"
    /\ \/ Confirmed(calls[c].tx) /\ Reported(c, "submitted")
       \/ Reported(c, "reverted")
    /\ UNCHANGED <<config, clock, vault, pools, others, releases>>

\* What get_optimal_allocation may split: nothing while the loop strategy owns
\* the collateral, what the treasury or else the wallet offers.
PreviewBudgets ==
    CASE config.paused -> {0}
      [] ~config.paused /\ config.vaulted -> {computeDeployable(vault, config.terms, Local)}
      [] OTHER -> {buildSupplyHints(config.funds, skip) : skip \in BOOLEAN}

\* The same solver over the protocols that may be written to, with the agent's
\* own limits; nothing is submitted.
Preview(c, failed, budget) ==
    LET curves == gatherCurves(config.allowed \cap config.write, failed)
    IN  /\ calls[c].pc = "idle"
        /\ Became(c, [calls[c] EXCEPT !.pc = "done", !.budget = budget, !.curves = curves,
                         !.cap = config.maxSupplyRaw, !.minPosition = config.minIdleRaw,
                         !.report = "preview",
                         !.legs = solveAllocation(curves, budget, config.maxSupplyRaw,
                                                  config.minIdleRaw, config.above)])
        /\ UNCHANGED <<config, clock, vault, pools, others, releases>>

-----------------------------------------------------------------------------
(* Time, the owner, and other depositors. *)

ClockTick ==
    /\ clock < MaxClock
    /\ clock' = clock + 1
    /\ UNCHANGED <<config, vault, pools, calls, others, releases>>

OwnerActs ==
    /\ others < MaxOwner /\ others' = others + 1
    /\ \/ vault' = [vault EXCEPT !.agent = FALSE]
       \/ vault.funds > 0 /\ vault' = [vault EXCEPT !.funds = @ - 1]
       \/ vault' = [vault EXCEPT !.funds = @ + 1]
    /\ UNCHANGED <<config, clock, pools, calls, releases>>

PoolMoves ==
    /\ others < MaxOwner /\ others' = others + 1
    /\ \E p \in config.moving :
          /\ pools[p].limit # Uncapped => pools[p].supplied < pools[p].limit
          /\ pools' = [pools EXCEPT ![p].supplied = @ + 1]
    /\ UNCHANGED <<config, clock, vault, calls, releases>>

RelayNext ==
    \/ ClockTick \/ OwnerActs \/ PoolMoves
    \/ \E c \in Calls :
          \/ ReadBudget(c) \/ Throws(c) \/ Land(c) \/ Answer(c)
          \/ \E failed \in SUBSET config.flaky :
                \/ Decide(c, failed)
                \/ \E budget \in PreviewBudgets : Preview(c, failed, budget)

RelaySpec == RelayInit /\ [][RelayNext]_relayVars

-----------------------------------------------------------------------------
(* Properties. *)

Sum(legs) == SumOf(legs, DOMAIN legs)

AmountIn(legs, curve) == SumOf(legs, {i \in DOMAIN legs : legs[i].protocol = curve.protocol})

\* Every call, its transaction, its report and the vault have their types.
RelayTypeOK ==
    /\ clock \in 2..MaxClock /\ others \in 0..MaxOwner
    /\ vault \in VaultType
    /\ \A c \in Calls :
          /\ calls[c].pc \in {"idle", "gather", "sent", "done"} /\ calls[c].seen \in VaultType
          /\ calls[c].tx \in {"none", "inflight", "accepted", "aborted"}
          /\ calls[c].pc \in {"idle", "gather"} => calls[c].tx = "none"
          /\ calls[c].report = "none" <=> calls[c].pc # "done"

\* "repair floor rounding so the sum never exceeds the budget" (finalize): also
\* where the yield of one pool jumps the legs add up to the budget at most.
LegsWithinBudget == \A c \in Calls : Sum(calls[c].legs) <= calls[c].budget

\* A leg passes its pool's own cap by rounding only, one unit a candidate: a
\* budget the caps cannot take is not forced onto a leg (finalize).
CapsUpToRounding ==
    \A c \in Calls : \A i \in DOMAIN calls[c].curves :
       LET curve == calls[c].curves[i]
       IN  curve.depositCap # Uncapped =>
              AmountIn(calls[c].legs, curve) <= curve.depositCap + Len(calls[c].curves)

\* The marginal yield of the curve falls all the way.
Concave(curve, budget) ==
    \A x \in 0..budget : marginalYield(curve, x) >= marginalYield(curve, x + 1)

\* Where every marginal yield falls, no unit earns more elsewhere: what the
\* last units of a funded leg earn is no less than the next ones would in a pool
\* with room, up to the units rounding moves (waterFill, Repaired).
NoBetterSplit ==
    \A c \in Calls :
       LET call == calls[c]
           slack == Len(call.curves)
           x(i) == AmountIn(call.legs, call.curves[i])
           room(i) == Min({call.budget} \cup ({call.cap, call.curves[i].depositCap} \ {Uncapped}))
       IN  (call.report = "preview" /\ call.legs # <<>> /\ call.minPosition = 0
              /\ \A i \in DOMAIN call.curves : Concave(call.curves[i], call.budget)) =>
              \A i, j \in DOMAIN call.curves : (x(i) > slack /\ x(j) + slack <= room(j)) =>
                 marginalYield(call.curves[i], x(i) - slack)
                    >= marginalYield(call.curves[j], x(j) + slack)

\* A preview proposes no leg below the minimum position beside another one,
\* where the marginal yields fall (the pruning loop of solveAllocation).
NoDustBesideAnother ==
    \A c \in Calls :
       (calls[c].report = "preview" /\ Len(calls[c].legs) > 1
          /\ \A i \in DOMAIN calls[c].curves : Concave(calls[c].curves[i], calls[c].budget)) =>
          \A i \in DOMAIN calls[c].legs : calls[c].legs[i].amount >= calls[c].minPosition

\* What was released by calls since the releases of "seen".
ReleasedSince(seen) ==
    SumFunction([r \in {r \in releases : r.nonce > seen.lastNonce} |-> r.amount])

\* Calls that read the same budget, side by side or long after each other,
\* together release no more than that budget while the window they read lasts
\* and nobody adds funds: each is checked against what the chain has left.  With
\* a period of 0 each leg opens a window of its own.
OneBudgetOnce ==
    \A c \in Calls :
       (/\ calls[c].seen.agent /\ others = 0
        /\ vault.start = calls[c].seen.start /\ config.terms.periodMs > 0) =>
          ReleasedSince(calls[c].seen) <= calls[c].budget

\* A call that reports a digest has released exactly the legs it could build,
\* in one transaction (signAndExecute, buildVerifiedAllocationTx).
SubmittedMeansReleased ==
    \A c \in Calls : calls[c].report = "submitted" =>
       LET legs == calls[c].legs
       IN  {r \in releases : r.call = c} = {ReleaseOf(c, legs[i]) : i \in Executable(legs)}

\* The treasury is as the call read it, but for funds that were added.
Undisturbed(c) ==
    /\ [vault EXCEPT !.funds = calls[c].seen.funds] = calls[c].seen
    /\ vault.funds >= calls[c].seen.funds

\* The pool of a leg was full and its curve had no cap, moved since, or the leg
\* holds rounding on top of the cap.
PoolExcused(c) ==
    \E i \in DOMAIN calls[c].curves :
       LET curve == calls[c].curves[i]
           pool == pools[curve.protocol]
       IN  \/ pool # calls[c].at[curve.protocol]
           \/ pool.limit # Uncapped /\ curve.depositCap = Uncapped
           \/ /\ curve.depositCap # Uncapped
              /\ AmountIn(calls[c].legs, curve) > curve.depositCap

\* The window the legs are counted in ends at a number of the chain.  Where it does
\* not, the agent's doubles go on, computeDeployable offers a budget, and every
\* release aborts.
WindowCountable(v) ==
    (IF WindowElapsed(v) THEN clock ELSE v.start) + config.terms.periodMs <= MaxU64

\* The treasury refuses for one of these reasons: it was used or changed since it
\* was read, its mandate or the intents ran out, its window has no end, the
\* agent's clock is ahead of the chain's, or the nonces are behind another call's.
VaultExcused(c) ==
    \/ ~Undisturbed(c)
    \/ clock >= config.terms.expiryMs \/ clock > calls[c].expiresAt
    \/ config.skew > 0 \/ ~WindowCountable(vault)
    \/ calls[c].legs[1].nonce <= calls[c].seen.lastNonce

RolledBack(c) == calls[c].tx = "inflight" /\ calls'[c].tx = "aborted"

\* A transaction that is rolled back has a reason in the treasury or in a pool.
\* A window that rolls meanwhile and legs that were left out are no reasons:
\* there computeDeployable, decide and release_with_ticket agree.
AbortsForAReason ==
    [][\A c \in Calls : RolledBack(c) => VaultExcused(c) \/ PoolExcused(c)]_relayVars

\* The budget that computeDeployable promised is honoured: legs within it are
\* refused for the treasury's reasons (a period the chain cannot add up is one),
\* or by a pool, however many there are and whatever the enclave made of the
\* budget.
BudgetIsHonoured ==
    [][\A c \in Calls : RolledBack(c) =>
          \/ VaultExcused(c)
          \/ \E i \in Executable(calls[c].legs) : ~PoolTakes(calls[c].legs[i])
          \/ Sum(calls[c].legs) > calls[c].budget]_relayVars
=============================================================================
