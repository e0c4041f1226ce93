---------------------------- MODULE LoopPipeline ----------------------------
(***************************************************************************)
(* The loop-strategy pipeline of subagents.ts around the strategy ledger.  *)
(* Every ledgerStore.update is one action (module LedgerLock is about the  *)
(* lock that makes it one); what a role does between two updates, before   *)
(* its update or after a load without the lock, is an action of its own,   *)
(* so the steps of all roles interleave as their timers and awaits let     *)
(* them.  Heartbeats, archives and summaries are left out.                 *)
(*                                                                         *)
(* Time is abstract: a proposal's TTL passes, the snapshots it names go    *)
(* stale, an execution claim lapses, each at any moment after it began.    *)
(* Every loop moves the same amount of each asset, and a position is the   *)
(* set of assets it holds that much of, which hasPositionAmount asks for.  *)
(* The wallet is not the pipeline's own: the main agent's tools, the       *)
(* health guard and the owner supply, borrow, withdraw and repay beside it.*)
(***************************************************************************)
EXTENDS Integers, Sequences, FiniteSets, FiniteSetsExt

CONSTANTS
    Protocols,      \* lending protocols, numbered in alphabetical order
    Slots,          \* concurrent calls of claimAndExecuteAcceptedPlan
    RunOf,          \* [Slots -> (actor, runId)] of the call in a slot
    MainRun,        \* runId of the main agent's current run
    DryRuns,        \* values of config.runtime.dryRun a deployment may have
    MaxConcurrent,  \* config.loopStrategy.maxConcurrentLoops
    MaxProposals,   \* MAX_PROPOSALS: pruneLedger keeps the newest
    MaxPlans,       \* MAX_PLANS
    Wallets,        \* positions the wallet may hold before the pipeline starts
    Shapes,         \* loops the builders may choose
    Unreliable,     \* protocols whose position reads may fail
    Risky,          \* protocols whose health factor may turn critical
    None,           \* no snapshot, no draft, no job
    MaxRuns,        \* bound: strategist runs that build a proposal
    MaxMain,        \* bound: proposals the main agent makes
    Shared,         \* bound: (protocol, asset) that others move too
    MaxOthers,      \* bound: their moves
    MaxCrashes      \* bound: executor processes that die

Assets == {"collateral", "debt", "target"}

\* runs of the strategist are numbered; "coordinator" signs its own receipts.
Runs == (1..MaxRuns) \cup {MainRun}

ProposalId == Runs \X Nat

Holdings == [Protocols -> SUBSET Assets]

\* A loop borrows on one protocol, against collateral that it supplies there
\* first when fresh, and supplies what it borrowed on another.  Sound stands for
\* the static conditions of validateLoopProposal (assets, protocols, health
\* factor, APR and caps), which no later step changes.
Shape == [fresh : BOOLEAN, from : Protocols, to : Protocols, sound : BOOLEAN]

Proposal ==
    [id : ProposalId, shape : Shape, status : {"open", "accepted", "rejected", "expired"}]

Plan ==
    [id : ProposalId, lapsed : BOOLEAN, run : {RunOf[s] : s \in Slots} \cup {None},
     status : {"accepted", "executing", "executed", "failed", "cancelled"}]

Loop ==
    [id : ProposalId, receipt : Nat, from : Protocols,
     status : {"opening", "active", "unwinding"}]

Receipt ==
    [id : ProposalId, receipt : Nat, status : {"planned", "confirmed", "failed"},
     reconciled : BOOLEAN]

Snapshot == [seen : Holdings, critical : SUBSET Protocols]

Job ==
    [pc : {"idle", "claimed", "denied", "supply", "borrow", "resupply", "finish"},
     proposal : Proposal \cup {None}, failed : BOOLEAN]

ASSUME PipelineAssumption ==
    /\ Protocols \subseteq Nat
    /\ {MaxConcurrent, MaxProposals, MaxPlans, MaxRuns, MaxMain, MaxOthers, MaxCrashes}
          \subseteq Nat
    /\ MaxProposals > 0 /\ MaxPlans > 0
    /\ DryRuns \subseteq BOOLEAN
    /\ MainRun \notin Nat
    /\ Wallets \subseteq Holdings
    /\ Shapes \subseteq {shape \in Shape : shape.sound => shape.from # shape.to}
    /\ Shared \subseteq Protocols \X Assets
    /\ Unreliable \subseteq Protocols /\ Risky \subseteq Protocols
    /\ None \notin Snapshot \cup Proposal \cup {RunOf[s] : s \in Slots}

VARIABLES
    dryRun,             \* config.runtime.dryRun, fixed at the start
    \* the ledger
    proposals, plans,   \* sequences, newest first
    loops, receipts,    \* loopPositions, executionReceipts
    locked,             \* protocols with an active critical risk lock
    market,             \* whether a market snapshot exists
    position,           \* latest position snapshot
    \* what roles hold between their updates
    reading,            \* position-risk: read from the protocols, not written
    draft,              \* loop-strategist: built, not inserted
    job,                \* executors
    \* the world
    chain,              \* what the wallet holds on each protocol
    aged,               \* ids of proposals whose TTL or snapshots went stale
    stood,              \* history: what the wallet ever held on each protocol
    landed,             \* history: each leg that landed, with the run it was for
    counts              \* runs, main proposals, moves of others and crashes so far

pipeVars ==
    <<dryRun, proposals, plans, loops, receipts, locked, market, position,
      reading, draft, job, chain, stood, aged, landed, counts>>

ledgerVars == <<proposals, plans, loops, receipts, locked, market, position>>

Idle == [pc |-> "idle", proposal |-> None, failed |-> FALSE]

Leg == [id : ProposalId, asset : Assets, nth : Nat]

PipeTypeOK ==
    /\ dryRun \in DryRuns
    /\ proposals \in Seq(Proposal) /\ Len(proposals) <= MaxProposals
    /\ plans \in Seq(Plan) /\ Len(plans) <= MaxPlans
    /\ loops \subseteq Loop /\ receipts \subseteq Receipt
    /\ locked \subseteq Protocols
    /\ market \in BOOLEAN
    /\ position \in Snapshot \cup {None}
    /\ reading \in Snapshot \cup {None}
    /\ draft \in Proposal \cup {None}
    /\ job \in [Slots -> Job]
    /\ chain \in Holdings /\ stood \in Holdings
    /\ aged \subseteq ProposalId \X {"ttl", "snapshots"}
    /\ landed \subseteq Leg
    /\ counts \in [runs : Nat, main : Nat, others : Nat, crashes : Nat]

PipeInit ==
    /\ dryRun \in DryRuns
    /\ proposals = <<>> /\ plans = <<>>
    /\ loops = {} /\ receipts = {} /\ locked = {}
    /\ market = FALSE
    /\ position = None /\ reading = None /\ draft = None
    /\ job = [s \in Slots |-> Idle]
    /\ chain \in Wallets /\ stood = chain
    /\ aged = {} /\ landed = {}
    /\ counts = [runs |-> 0, main |-> 0, others |-> 0, crashes |-> 0]

-----------------------------------------------------------------------------
(* The ledger's queries.                                                   *)

\* Mutant: nothing is pruned.
KeepAll(s, n) == s

Keep(s, n) == SubSeq(s, 1, IF Len(s) < n THEN Len(s) ELSE n)

Open(plan) == plan.status \in {"accepted", "executing"}

\* Mutant: a plan that executes does not count.
AcceptedPlans(ps) == {i \in DOMAIN ps : ps[i].status = "accepted"}

\* activeLoopOpeningPlans
OpenPlans(ps) == {i \in DOMAIN ps : Open(ps[i])}

\* find by id: the newest entry with that id.
FirstWithId(s, i) == \A k \in 1..(i - 1) : s[k].id # s[i].id

ActiveLoops(ls) == {loop \in ls : loop.status \in {"active", "opening"}}

\* What validateLoopProposal asks of a proposal apart from other plans.
Valid(p, ls, locks) ==
    /\ p.shape.sound
    /\ <<p.id, "ttl">> \notin aged
    /\ locks = {}
    /\ Cardinality(ActiveLoops(ls)) < MaxConcurrent
    /\ <<p.id, "snapshots">> \notin aged

ValidLoopProposal(p, ps, ls, locks) == Valid(p, ls, locks) /\ OpenPlans(ps) = {}

\* Mutant: the resupplied leg is not looked for.
BorrowAppears(p) ==
    /\ position # None
    /\ p.shape.fresh => "collateral" \in position.seen[p.shape.from]
    /\ "debt" \in position.seen[p.shape.from]

\* executionAppearsOnChain, from the latest position snapshot alone.
AppearsOnChain(p) ==
    /\ position # None
    /\ p.shape.fresh => "collateral" \in position.seen[p.shape.from]
    /\ "debt" \in position.seen[p.shape.from]
    /\ "target" \in position.seen[p.shape.to]

NextReceipt == Cardinality(receipts) + 1

-----------------------------------------------------------------------------
(* Observers.                                                              *)

RateScout ==
    /\ market' = TRUE
    /\ UNCHANGED <<dryRun, proposals, plans, loops, receipts, locked, position, reading,
                   draft, job, chain, stood, aged, landed, counts>>

\* The reads of runPositionRisk: a protocol whose read fails is left out of the
\* snapshot, and only a protocol with a borrow can be critical.
PositionRead(unread, critical) ==
    /\ reading = None
    /\ critical \subseteq {p \in Risky \ unread : "debt" \in chain[p]}
    /\ reading' = [seen |-> [p \in Protocols |-> IF p \in unread THEN {} ELSE chain[p]],
                   critical |-> critical]
    /\ UNCHANGED <<dryRun, ledgerVars, draft, job, chain, stood, aged, landed, counts>>

PositionWrite ==
    /\ reading # None
    /\ position' = reading
    /\ reading' = None
    /\ UNCHANGED <<dryRun, proposals, plans, loops, receipts, locked, market, draft, job,
                   chain, stood, aged, landed, counts>>

-----------------------------------------------------------------------------
(* Proposals.                                                              *)

\* Mutant: the id is the count alone.
BuildByCount(run, count, shape) ==
    [id |-> <<MainRun, count>>, shape |-> shape, status |-> "open"]

\* buildLoopProposal or the LLM's choice: count is the length of the proposal
\* list the builder saw.
Build(run, count, shape) == [id |-> <<run, count>>, shape |-> shape, status |-> "open"]

\* The builder needs both snapshots, and borrows against existing collateral
\* only where the position snapshot shows some.
Buildable(shape) ==
    /\ market /\ position # None
    /\ shape.fresh \/ "collateral" \in position.seen[shape.from]

\* The update of runLoopStrategist: rejected proposals are kept too.
Insert(p) ==
    LET verdict == IF ValidLoopProposal(p, plans, loops, locked) THEN "open" ELSE "rejected"
    IN  proposals' = Keep(<<[p EXCEPT !.status = verdict]>> \o proposals, MaxProposals)

\* loop-strategist: snapshots loaded without the lock, then the LLM call.
StrategistBuild(shape) ==
    /\ draft = None
    /\ counts.runs < MaxRuns
    /\ Buildable(shape)
    /\ counts' = [counts EXCEPT !.runs = @ + 1]
    /\ draft' = Build(counts.runs + 1, Len(proposals), shape)
    /\ UNCHANGED <<dryRun, ledgerVars, reading, job, chain, stood, aged, landed>>

StrategistInsert ==
    /\ draft # None
    /\ Insert(draft)
    /\ draft' = None
    /\ UNCHANGED <<dryRun, plans, loops, receipts, locked, market, position, reading, job,
                   chain, stood, aged, landed, counts>>

\* propose_strategy_plan builds and inserts in one update.
MainPropose(shape) ==
    /\ counts.main < MaxMain
    /\ Buildable(shape)
    /\ counts' = [counts EXCEPT !.main = @ + 1]
    /\ Insert(Build(MainRun, Len(proposals), shape))
    /\ UNCHANGED <<dryRun, plans, loops, receipts, locked, market, position, reading,
                   draft, job, chain, stood, aged, landed>>

\* The TTL of a proposal, or the age limit of the snapshots it names, passes.
Age(p, what) ==
    /\ aged' = aged \cup {<<p.id, what>>}
    /\ UNCHANGED <<dryRun, ledgerVars, reading, draft, job, chain, stood, landed, counts>>

-----------------------------------------------------------------------------
(* The coordinator: one update that expires proposals, settles lapsed      *)
(* claims and promotes at most one proposal.                               *)

Expired ==
    [i \in DOMAIN proposals |->
       IF proposals[i].status = "open" /\ <<proposals[i].id, "ttl">> \in aged
         THEN [proposals[i] EXCEPT !.status = "expired"]
         ELSE proposals[i]]

HasProposal(plan) == \E i \in DOMAIN proposals : proposals[i].id = plan.id

ProposalOf(plan) ==
    proposals[Min({i \in DOMAIN proposals : proposals[i].id = plan.id})]

\* Mutant: the dry run and the live run are mixed up.
LapsedInDryRun(plan) == dryRun /\ plan.status = "executing" /\ plan.lapsed

\* Only a live coordinator settles claims; in a dry run they are claimed again.
Lapsed(plan) == ~dryRun /\ plan.status = "executing" /\ plan.lapsed

FoundOnChain(plan) == HasProposal(plan) /\ AppearsOnChain(ProposalOf(plan))

\* reconcileExpiredExecutingPlans
Reconciled ==
    [i \in DOMAIN plans |->
       CASE Lapsed(plans[i]) /\ FoundOnChain(plans[i]) -> [plans[i] EXCEPT !.status = "executed"]
         [] Lapsed(plans[i]) /\ ~FoundOnChain(plans[i]) -> [plans[i] EXCEPT !.status = "cancelled"]
         [] OTHER -> plans[i]]

FoundIds == {plans[i].id : i \in {j \in DOMAIN plans : Lapsed(plans[j]) /\ FoundOnChain(plans[j])}}

ReconciledReceipts ==
    receipts \cup {[id |-> id, receipt |-> NextReceipt, status |-> "confirmed",
                  reconciled |-> TRUE] : id \in FoundIds}

\* A loop is added unless the plan has one already.
ReconciledLoops ==
    loops \cup {[id |-> id, receipt |-> NextReceipt, status |-> "active",
                 from |-> ProposalOf([id |-> id]).shape.from] :
                   id \in {n \in FoundIds : ~\E loop \in loops : loop.id = n}}

Coordinator ==
    LET candidates == {i \in DOMAIN Expired : Expired[i].status = "open"}
        first == Min(candidates)
        chosen == Expired[first]
        plan == [id |-> chosen.id, status |-> "accepted", lapsed |-> FALSE, run |-> None]
        decide == OpenPlans(Reconciled) = {} /\ candidates # {}
        accept == ValidLoopProposal(chosen, Reconciled, ReconciledLoops, locked)
    IN  /\ receipts' = ReconciledReceipts
        /\ loops' = ReconciledLoops
        /\ \/ /\ ~decide
              /\ proposals' = Expired
              /\ plans' = Reconciled
           \/ /\ decide /\ accept
              /\ proposals' = [Expired EXCEPT ![first].status = "accepted"]
              /\ plans' = Keep(<<plan>> \o Reconciled, MaxPlans)
           \/ /\ decide /\ ~accept
              /\ proposals' = [Expired EXCEPT ![first].status = "rejected"]
              /\ plans' = Reconciled
        /\ UNCHANGED <<dryRun, locked, market, position, reading, draft, job, chain, stood, aged,
                       landed, counts>>

ClaimLapses(i) ==
    /\ plans[i].status = "executing"
    /\ plans' = [plans EXCEPT ![i].lapsed = TRUE]
    /\ UNCHANGED <<dryRun, proposals, loops, receipts, locked, market, position, reading,
                   draft, job, chain, stood, aged, landed, counts>>

-----------------------------------------------------------------------------
(* claimAndExecuteAcceptedPlan, by the executor role or the main agent.    *)

\* Mutant: a live run claims a lapsed plan too.
ClaimableAgain(plan) ==
    \/ plan.status = "accepted"
    \/ plan.status = "executing" /\ plan.lapsed

\* A live run never claims a plan that was claimed before.
Claimable(plan) ==
    \/ plan.status = "accepted"
    \/ dryRun /\ plan.status = "executing" /\ plan.lapsed

\* The executor takes the first claimable plan, the main agent may name one.
Candidate(i) ==
    /\ Claimable(plans[i])
    /\ \/ \A k \in 1..(i - 1) : ~Claimable(plans[k])
       \/ FirstWithId(plans, i)

Claim(s, i) ==
    /\ job[s].pc = "idle"
    /\ Candidate(i)
    /\ \/ /\ ~HasProposal(plans[i])
          /\ plans' = [plans EXCEPT ![i].status = "failed"]
          /\ UNCHANGED job
       \/ /\ HasProposal(plans[i])
          /\ plans' = [plans EXCEPT ![i] = [id |-> @.id, status |-> "executing",
                                            lapsed |-> FALSE, run |-> RunOf[s]]]
          /\ job' = [job EXCEPT ![s] = [pc |-> "claimed", failed |-> FALSE,
                                        proposal |-> ProposalOf(plans[i])]]
    /\ UNCHANGED <<dryRun, proposals, loops, receipts, locked, market, position, reading,
                   draft, chain, stood, aged, landed, counts>>

\* validateExecutorGate on a ledger loaded without the lock, with the live
\* execution flags set.
Gate(s) ==
    LET proposal == job[s].proposal
    IN  /\ job[s].pc = "claimed"
        /\ job' = [job EXCEPT ![s].pc =
                     CASE ~Valid(proposal, loops, locked) -> "denied"
                       [] Valid(proposal, loops, locked) /\ dryRun -> "finish"
                       [] OTHER -> IF proposal.shape.fresh THEN "supply" ELSE "borrow"]
        /\ UNCHANGED <<dryRun, ledgerVars, reading, draft, chain, stood, aged, landed, counts>>

\* The legs of a live run, in their order.
AssetOf(pc) == CASE pc = "supply" -> "collateral" [] pc = "borrow" -> "debt" [] OTHER -> "target"

After(pc) == CASE pc = "supply" -> "borrow" [] pc = "borrow" -> "resupply" [] OTHER -> "finish"

\* A leg can land and return, throw before it lands (also in the wallet check
\* or the position read before a borrow), or land and throw while waiting.
SubmitLeg(s, lands, throws) ==
    LET pc == job[s].pc
        p == job[s].proposal
        at == IF pc = "resupply" THEN p.shape.to ELSE p.shape.from
        asset == AssetOf(pc)
        before == {leg \in landed : leg.id = p.id /\ leg.asset = asset}
    IN  /\ pc \in {"supply", "borrow", "resupply"}
        /\ lands \/ throws
        /\ job' = [job EXCEPT ![s] =
                     [pc |-> IF throws THEN "finish" ELSE After(pc),
                      proposal |-> p, failed |-> throws]]
        /\ \/ lands /\ chain' = [chain EXCEPT ![at] = @ \cup {asset}]
                    /\ stood' = [stood EXCEPT ![at] = @ \cup {asset}]
                    /\ landed' = landed \cup
                         {[id |-> p.id, asset |-> asset, nth |-> Cardinality(before) + 1]}
           \/ ~lands /\ UNCHANGED <<chain, stood, landed>>
        /\ UNCHANGED <<dryRun, ledgerVars, reading, draft, aged, counts>>

\* Mutant: whoever claimed the plan since is not looked at.
OfAnyRun(s) ==
    {i \in DOMAIN plans : plans[i].id = job[s].proposal.id /\ FirstWithId(plans, i)}

\* The plan a late update may still write: the run that claimed it last is this
\* one; its status is not looked at.
Mine(s) ==
    {i \in DOMAIN plans : /\ plans[i].id = job[s].proposal.id
                          /\ FirstWithId(plans, i)
                          /\ plans[i].run = RunOf[s]}

\* The update that records a refusal by the gate.
RecordDenied(s) ==
    /\ job[s].pc = "denied"
    /\ plans' = [i \in DOMAIN plans |->
                   IF i \in Mine(s) THEN [plans[i] EXCEPT !.status = "failed"] ELSE plans[i]]
    /\ job' = [job EXCEPT ![s] = Idle]
    /\ UNCHANGED <<dryRun, proposals, loops, receipts, locked, market, position, reading,
                   draft, chain, stood, aged, landed, counts>>

\* The update that records the receipt, the outcome and the loop.
RecordOutcome(s) ==
    LET p == job[s].proposal
        failed == job[s].failed
        receipt == [id |-> p.id, receipt |-> NextReceipt, reconciled |-> FALSE,
                    status |-> IF failed THEN "failed" ELSE IF dryRun THEN "planned" ELSE "confirmed"]
        loop == [id |-> p.id, receipt |-> NextReceipt, from |-> p.shape.from,
                 status |-> IF dryRun THEN "opening" ELSE "active"]
        outcome == IF failed THEN "failed" ELSE "executed"
    IN  /\ job[s].pc = "finish"
        /\ plans' = [i \in DOMAIN plans |->
                       IF i \in Mine(s) THEN [plans[i] EXCEPT !.status = outcome] ELSE plans[i]]
        /\ receipts' = IF Mine(s) # {} THEN receipts \cup {receipt} ELSE receipts
        /\ loops' = IF Mine(s) # {} /\ ~failed THEN loops \cup {loop} ELSE loops
        /\ job' = [job EXCEPT ![s] = Idle]
        /\ UNCHANGED <<dryRun, proposals, locked, market, position, reading, draft, chain, stood,
                       aged, landed, counts>>

\* The process of a slot dies between two of its steps; what it claimed stays
\* claimed and what it sent stays sent.
Crash(s) ==
    /\ job[s].pc # "idle"
    /\ counts.crashes < MaxCrashes
    /\ counts' = [counts EXCEPT !.crashes = @ + 1]
    /\ job' = [job EXCEPT ![s] = Idle]
    /\ UNCHANGED <<dryRun, ledgerVars, reading, draft, chain, stood, aged, landed>>

-----------------------------------------------------------------------------
(* The wallet beside the pipeline. *)

\* A withdrawal, a repayment or a liquidation takes an asset below the amount of a
\* loop; a supply or a borrow brings it there.
OthersMove(p, asset) ==
    /\ counts.others < MaxOthers
    /\ counts' = [counts EXCEPT !.others = @ + 1]
    /\ \/ asset \in chain[p] /\ chain' = [chain EXCEPT ![p] = @ \ {asset}] /\ UNCHANGED stood
       \/ /\ asset \notin chain[p]
          /\ chain' = [chain EXCEPT ![p] = @ \cup {asset}]
          /\ stood' = [stood EXCEPT ![p] = @ \cup {asset}]
    /\ UNCHANGED <<dryRun, ledgerVars, reading, draft, job, aged, landed>>

-----------------------------------------------------------------------------
(* The unwind guard: one update.                                           *)

\* No protocol is critical in the latest snapshot: every critical lock clears,
\* and the loops whose collateral sits on a cleared protocol run again.
GuardClears ==
    /\ position # None
    /\ position.critical = {}
    /\ locked' = {}
    /\ loops' = {IF loop.status = "unwinding" /\ loop.from \in locked
                   THEN [loop EXCEPT !.status = "active"] ELSE loop : loop \in loops}
    /\ UNCHANGED <<dryRun, proposals, plans, receipts, market, position, reading, draft, job,
                   chain, stood, aged, landed, counts>>

\* The first critical protocol gets a lock unless it has one, and with a new
\* lock every active loop is marked unwinding.
GuardLocks ==
    LET critical == Min(position.critical)
    IN  /\ position # None
        /\ position.critical # {}
        /\ critical \notin locked
        /\ locked' = locked \cup {critical}
        /\ loops' = {IF loop.status = "active"
                       THEN [loop EXCEPT !.status = "unwinding"] ELSE loop : loop \in loops}
        /\ UNCHANGED <<dryRun, proposals, plans, receipts, market, position, reading, draft,
                       job, chain, stood, aged, landed, counts>>

-----------------------------------------------------------------------------

ProposeNext ==
    \E shape \in Shapes :
       \/ StrategistBuild(shape)
       \/ MainPropose(shape)

\* A proposal that validateLoopProposal or the expiry may still look at.
StillValidated(p) ==
    \/ p.status = "open"
    \/ \E i \in DOMAIN plans : plans[i].id = p.id /\ Open(plans[i])
                              /\ (plans[i].status = "accepted" \/ dryRun)
    \/ \E s \in Slots : job[s].pc = "claimed" /\ job[s].proposal.id = p.id

\* Time passes for proposals in the ledger and for the one still to be inserted.
AgeNext ==
    \E what \in {"ttl", "snapshots"} :
       \/ \E i \in DOMAIN proposals : StillValidated(proposals[i]) /\ Age(proposals[i], what)
       \/ draft # None /\ Age(draft, what)

ExecutorNext(s) ==
    \/ \E i \in DOMAIN plans : Claim(s, i)
    \/ Gate(s)
    \/ \E lands, throws \in BOOLEAN : SubmitLeg(s, lands, throws)
    \/ RecordDenied(s)
    \/ RecordOutcome(s)

PipeNext ==
    \/ RateScout
    \/ \E unread \in SUBSET Unreliable, critical \in SUBSET Risky :
            PositionRead(unread, critical)
    \/ PositionWrite
    \/ ProposeNext
    \/ StrategistInsert
    \/ AgeNext
    \/ Coordinator
    \/ \E i \in DOMAIN plans : ClaimLapses(i)
    \/ \E s \in Slots : ExecutorNext(s) \/ Crash(s)
    \/ \E at \in Shared : OthersMove(at[1], at[2])
    \/ GuardClears
    \/ GuardLocks

PipeSpec == PipeInit /\ [][PipeNext]_pipeVars

\* The timers of coordinator, executor and unwind guard keep firing, calls to
\* the chain return, and a claim's TTL passes.  Crashes stop (MaxCrashes);
\* nothing is assumed of the observers and the strategist.
PipeFairness ==
    /\ WF_pipeVars(Coordinator)
    /\ WF_pipeVars(\E i \in DOMAIN plans : ClaimLapses(i))
    /\ \A s \in Slots : WF_pipeVars(ExecutorNext(s))
    /\ WF_pipeVars(GuardClears \/ GuardLocks)

FairPipeSpec == PipeSpec /\ PipeFairness

-----------------------------------------------------------------------------
(* Properties.                                                             *)

\* At most one plan is accepted or executing, whichever roles interleave and
\* however late their updates come (activeLoopOpeningPlans in runCoordinator).
OneOpenPlan == Cardinality({i \in DOMAIN plans : Open(plans[i])}) <= 1

\* No leg of a plan lands twice: a live claim is taken once, and a plan whose
\* executor died is never executed again (the comment of the failureReason in
\* claimAndExecuteAcceptedPlan: "to avoid duplicate transactions").
NoDuplicateLegs == \A leg \in landed : leg.nth = 1

\* One outcome per plan: however claims of a dry run lapse and are taken over, a
\* plan gets one receipt and one loop (the claimedBy and executorRunId guard).
OneReceiptPerPlan ==
    dryRun =>
      /\ \A r, q \in receipts : r.id = q.id => r = q
      /\ \A l, k \in loops : l.id = k.id => l = k

\* A proposal that was decided stays decided and is promoted at most once.
DecidedOnce ==
    \A i, j \in DOMAIN plans : plans[i].id = plans[j].id => i = j

\* A leg of the plan of this id has landed.
Landed(id, asset) == \E leg \in landed : leg.id = id /\ leg.asset = asset

OpenedForPlan(loop) == Landed(loop.id, "debt") /\ Landed(loop.id, "target")

\* The receipt of this loop was written by the coordinator.
Concluded(loop) ==
    \E r \in receipts : r.id = loop.id /\ r.receipt = loop.receipt /\ r.reconciled

\* Debt and target have been on chain, at whatever time and whoever put them there.
OnceStood(loop) ==
    /\ "debt" \in stood[loop.from]
    /\ \E p \in Protocols \ {loop.from} : "target" \in stood[p]

Backed(loop) == OpenedForPlan(loop) \/ (Concluded(loop) /\ OnceStood(loop))

\* A loop the ledger of a live run shows was opened by the executor of its plan,
\* with both legs landed for that plan, or it was concluded by the coordinator, and
\* then debt and target did stand on chain.  More cannot be said of the second:
\* executionAppearsOnChain takes an older snapshot, a position that was repaid
\* since, that others hold, or that a failed run of another plan left.
LoopsAreBacked ==
    \A loop \in loops : ~dryRun => Backed(loop)

\* A loop that is active on a protocol with a critical lock is flagged for
\* unwinding, or the lock clears, or a later snapshot shows no critical health
\* factor: docs/strategies.md section 5.2 has the guard look every minute.
LockedLoopsUnwind ==
    LET exposed == \E loop \in loops : loop.status = "active" /\ loop.from \in locked
    IN  exposed ~> (~exposed \/ position.critical = {})

\* A run of the strategist makes one proposal.
OpenPlan(run) == \E i \in DOMAIN plans : plans[i].id[1] = run /\ Open(plans[i])

\* Every plan that is accepted comes to an outcome: no crash, refusal, pruned
\* proposal or lost claim leaves one open for good, which would block every
\* later plan.
OpenPlansClose == \A run \in Runs : OpenPlan(run) ~> ~OpenPlan(run)
=============================================================================
