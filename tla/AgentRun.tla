------------------------------ MODULE AgentRun ------------------------------
(***************************************************************************)
(* autonomousAgent.ts and the write tools of toolRegistry.ts: one run of   *)
(* the main agent loads its memory, lets the health guard pass, then takes *)
(* rounds of tool calls from the language model, the calls of a round      *)
(* running side by side, and saves at the end.  The daemon starts one run  *)
(* after another and its process may die anywhere.                         *)
(*                                                                         *)
(* A call passes its gate in the same turn of the event loop as the other  *)
(* calls of its round; later steps of different calls interleave.          *)
(***************************************************************************)
EXTENDS HealthGuard

CONSTANTS
    Slots,          \* tool calls of one round
    Configs,        \* deployments; requests: what the language model may ask for;
                    \* prices: the borrow limits they lead to; looping: where the
                    \* executor of the loop strategy borrows
    MaxRuns,        \* bound: runs
    MaxPosts        \* bound: posts that reached X

Request == [kind : ActionKinds, protocol : LendingProtocols, asset : STRING, amount : Nat]

\* A state whose digests are at most last: a live action is named by its digest,
\* a tweet said to be posted has its action marked, and records of one action
\* agree on its tweet.
Sound(s, last) ==
    /\ \A i \in DOMAIN s.actions :
          LET e == s.actions[i]
          IN  /\ ~e.dryRun => e.id[1] = "tx"
              /\ e.id[1] = "tx" => e.id[2] <= last
    /\ \A i, j \in DOMAIN s.actions :
          s.actions[i].id = s.actions[j].id => s.actions[i].tweeted = s.actions[j].tweeted
    /\ \A j \in DOMAIN s.tweets :
          LET t == s.tweets[j]
          IN  t.status = "posted" =>
                 /\ t.about[1] = "tx" /\ t.about[2] <= last
                 /\ \A i \in DOMAIN s.actions :
                       s.actions[i].id = t.about => s.actions[i].tweeted

\* A blob to restore is of an earlier life of this wallet, whose digests are
\* none of those to come.
RestoredState == {s \in AgentState : Sound(s, 0)}

AppConfig ==
    [enabled : BOOLEAN, dryRun : BOOLEAN, keyed : BOOLEAN, treasury : BOOLEAN, posting : BOOLEAN,
     protocols : SUBSET LendingProtocols, allowedProtocols : SUBSET LendingProtocols,
     write : SUBSET LendingProtocols, enablePositionCreation : BOOLEAN, enableBorrow : BOOLEAN,
     allowedAssets : SUBSET STRING, maxSupplyRaw : Int, maxBorrowRaw : Int,
     minHealthFactor : Int, maxToolRounds : Nat, backend : {"file", "walrus"},
     stateBlobId : RestoredState \cup {NoBlob, Foreign}, borrowAsset : STRING,
     loopCollateral : STRING, requests : SUBSET Request,
     shares : [LendingProtocols -> Nat], debt : [LendingProtocols -> Nat],
     limit : [LendingProtocols -> Nat], prices : [LendingProtocols -> SUBSET Nat],
     looping : SUBSET LendingProtocols]

ASSUME AgentAssumption == Configs \subseteq AppConfig /\ {MaxRuns, MaxPosts} \subseteq Nat

VARIABLES
    calls,     \* [Slots -> the tool call running in it]
    cooled,    \* ids of actions older than the cooldown
    posts,     \* history: how many posts reached X
    settled,   \* history: facts that were saved, locally at least
    uploaded,  \* history: facts that a run's last save put on Walrus
    stranded   \* history: saved facts that a run left behind in the cache

promises == <<settled, uploaded, stranded>>
agentVars == <<guardVars, calls, cooled, posts, promises>>

NoCall == [pc |-> "free"]
NoRun == [id |-> 0, phase |-> "idle", round |-> 0, todo |-> <<>>, borrows |-> FALSE, last |-> "none"]

AgentInit ==
    /\ config \in Configs
    /\ cache = NoBlob /\ pointer = NoBlob
    /\ mem = createEmptyAgentState
    /\ run = NoRun
    /\ shares = config.shares /\ debt = config.debt /\ limit = config.limit
    /\ obligations = (IF config.debt["suilend"] > 0 THEN 1 ELSE 0)
    /\ reserveMap = NoContext
    /\ landed = {} /\ posts = 0 /\ cooled = {}
    /\ settled = {} /\ uploaded = {} /\ stranded = {}
    /\ calls = [s \in Slots |-> NoCall]

\* What a saved state keeps: live actions, and which of them were tweeted.
Facts(s) ==
    LET live == {i \in DOMAIN s.actions : ~s.actions[i].dryRun}
    IN  {<<"action", s.actions[i].id>> : i \in live} \cup
        {<<"tweeted", s.actions[i].id>> : i \in {j \in live : s.actions[j].tweeted}} \cup
        {<<"tweeted", s.tweets[i].about>> : i \in {j \in DOMAIN s.tweets : s.tweets[j].status = "posted"}}

\* Every save is in the cache at once.
Settle(s) == settled' = settled \cup Facts(s) /\ UNCHANGED <<uploaded, stranded>>

\* Saved facts that the blob of the next load lacks.
Behind ==
    LET blob == NextBlob(config.backend, config.stateBlobId)
    IN  IF blob = NoBlob THEN {} ELSE settled \ Facts(blob)

\* A run ends with its last upload failed, or in a crash: what the next blob lacks
\* is left behind.  What an earlier run's last save uploaded is not excused, unless
\* the pointer to it was torn.
Strand ==
    /\ UNCHANGED <<config, settled, uploaded>>
    /\ stranded' = stranded \cup (IF pointer' = pointer THEN Behind' \ uploaded ELSE Behind')

-----------------------------------------------------------------------------
(* runOnce, up to the tool loop. *)

\* A tick of the daemon is skipped while a run is going on.
Tick == run.phase = "idle" /\ run.id < MaxRuns

StartRun ==
    /\ Tick
    /\ \E s \in {loadAgentState, resolveBlobId(config.stateBlobId)} \ {NoBlob, Foreign} :
          /\ load(s, config.backend, config.stateBlobId)
          /\ mem' = beginRun(s, run.id + 1)
    /\ run' = [[[NoRun EXCEPT !.id = run.id + 1] EXCEPT !.phase = "guard"] EXCEPT !.todo = Enabled]
    /\ UNCHANGED <<chainVars, reserveMap, config, calls, cooled, posts, promises>>

GuardStep ==
    /\ GuardNext
    /\ IF cache' # cache THEN Settle(mem') ELSE UNCHANGED promises
    /\ UNCHANGED <<calls, cooled, posts>>

-----------------------------------------------------------------------------
(* The tool loop. *)

\* The main agent leaves the collateral to the loop strategy.
shouldPauseMainAgentCollateralSupply(r) ==
    r.kind = "supply" /\ config.loopCollateral = r.asset

\* The part of runLendingWrite before its first await.
LendingGate(r) ==
    /\ ~shouldPauseMainAgentCollateralSupply(r)
    /\ ~shouldSkipWriteAction(mem, config.posting, cooled, r.asset, r.kind)
    /\ r.amount > 0

\* definitions() leaves the wallet's write tools out in treasury mode.  execute
\* would still run them: the language model is taken to call what it is offered.
Offered(r) == ~config.treasury

\* The action post_action_update takes when the model names none or one.
PostTarget(id) ==
    LET i == Find(mem, id)
    IN  /\ i # 0
        /\ LET e == mem.actions[i]
           IN  e.status = "confirmed" /\ ~e.dryRun /\ e.kind = "supply" /\ ~e.tweeted
        /\ config.posting

Started(op) ==
    CASE op.tool = "write" /\ Offered(op.request) /\ LendingGate(op.request) ->
            [pc |-> "preparing", request |-> op.request]
      [] op.tool = "post" /\ PostTarget(op.id) -> [pc |-> "posting", id |-> op.id]
      [] OTHER -> NoCall

Operations ==
    {[tool |-> "none"]} \cup {[tool |-> "write", request |-> r] : r \in config.requests}
    \cup {[tool |-> "post", id |-> mem.actions[i].id] : i \in DOMAIN mem.actions}

\* One answer of the model: its calls all start.  A call that is refused has
\* ended.
ModelCalls ==
    /\ run.phase = "model" /\ run.round < config.maxToolRounds
    /\ \E ops \in [Slots -> Operations] : calls' = [s \in Slots |-> Started(ops[s])]
    /\ run' = [[run EXCEPT !.phase = "tools"] EXCEPT !.round = @ + 1]
    /\ UNCHANGED <<storeVars, chainVars, reserveMap, config, mem, cooled, posts, promises>>

\* Positions, balances, the borrow simulation and the policy; what the balance
\* checks refuse is an operation not taken.
Prepare(s) ==
    /\ calls[s].pc = "preparing"
    /\ LET r == calls[s].request
       IN  \E positions \in IF r.kind = "supply" THEN {NoPositions} ELSE getPositions(r.protocol) :
           \E counted \in IF r.kind = "borrow" THEN Counted(r.protocol, r.amount) ELSE {0} :
           \E projected \in IF r.kind = "borrow" /\ positions # Failed
                            THEN Simulated(r.protocol, positions, counted) ELSE {Infinite} :
              LET allowed == /\ positions # Failed
                             /\ Builds(r.kind, r.protocol, positions)
                             /\ evaluateLendingWrite(r.kind, r.protocol, r.asset, r.amount, projected, config)
              IN  calls' = [calls EXCEPT ![s] =
                     IF allowed
                     THEN [pc |-> "executing", request |-> r, projected |-> projected,
                           counted |-> counted, seen |-> Cardinality(landed),
                           creates |-> r.kind = "supply" /\ CreatesObligation(r.protocol)]
                     ELSE NoCall]
    /\ getContext(calls[s].request.protocol)
    /\ UNCHANGED <<storeVars, chainVars, config, mem, run, cooled, posts, promises>>

WriteAction(r) ==
    [run |-> run.id, protocol |-> r.protocol, kind |-> r.kind, asset |-> r.asset,
     digest |-> Cardinality(landed) + 1, dryRun |-> config.dryRun,
     status |-> IF config.dryRun THEN "planned" ELSE "confirmed"]

\* A dry run plans the action and saves locally.
Plan(s) ==
    /\ calls[s].pc = "executing" /\ config.dryRun
    /\ mem' = recordPositionAction(mem, WriteAction(calls[s].request), TRUE)
    /\ saveAgentState(mem')
    /\ Settle(mem')
    /\ calls' = [calls EXCEPT ![s] = NoCall]
    /\ UNCHANGED <<pointer, chainVars, reserveMap, config, run, cooled, posts>>

\* The transaction, and once its digest is back the record and the start of a
\* durable save.  A transaction that throws ends the call with nothing recorded.
Execute(s, answer) ==
    /\ calls[s].pc = "executing" /\ ~config.dryRun
    /\ LET r == calls[s].request
       IN  /\ signAndExecute(r.kind, r.protocol, r.amount, calls[s].creates,
                             Transaction(r.kind, r.protocol, r.asset, calls[s].creates), answer)
           /\ IF answer = "digest"
              THEN /\ mem' = recordPositionAction(mem, WriteAction(r), config.posting)
                   /\ saveAgentState(mem')
                   /\ Settle(mem')
                   /\ calls' = [calls EXCEPT ![s] = [pc |-> "saving", blob |-> mem']]
              ELSE /\ calls' = [calls EXCEPT ![s] = NoCall]
                   /\ UNCHANGED <<mem, cache, promises>>
    /\ UNCHANGED <<pointer, reserveMap, config, run, cooled, posts>>

\* createPost, never retried.  What is not known to be posted is recorded as
\* failed, with a local save.
Post(s, answer) ==
    /\ calls[s].pc = "posting"
    /\ \/ posts < MaxPosts /\ posts' = posts + 1
       \/ answer = "failed" /\ UNCHANGED posts
    /\ mem' = recordTweet(mem, calls[s].id, answer)
    /\ saveAgentState(mem')
    /\ Settle(mem')
    /\ calls' = [calls EXCEPT ![s] =
          IF answer = "posted" THEN [pc |-> "saving", blob |-> mem'] ELSE NoCall]
    /\ UNCHANGED <<pointer, chainVars, reserveMap, config, run, cooled>>

\* The upload of a durable save ends, in any order with the others.
SaveEnds(s) ==
    /\ calls[s].pc = "saving"
    /\ IF config.backend = "walrus" THEN Uploaded(calls[s].blob) ELSE UNCHANGED storeVars
    /\ calls' = [calls EXCEPT ![s] = NoCall]
    /\ UNCHANGED <<chainVars, reserveMap, config, mem, run, cooled, posts, promises>>

\* Read tools note what they saw and save locally.
ReadTool ==
    /\ run.phase = "tools" /\ cache # mem
    /\ saveAgentState(mem)
    /\ Settle(mem)
    /\ UNCHANGED <<pointer, chainVars, reserveMap, config, mem, run, calls, cooled, posts>>

\* Promise.all: every call of the round has answered.
RoundEnds ==
    /\ run.phase = "tools" /\ \A s \in Slots : calls[s] = NoCall
    /\ run' = [run EXCEPT !.phase = "model"]
    /\ UNCHANGED <<storeVars, chainVars, reserveMap, config, mem, calls, cooled, posts, promises>>

\* With Walrus the run's report is archived, when there is one and it uploads.
finalizeRun(s, archived) == IF archived THEN recordArtifact(s, run.id) ELSE s

\* The model calls no tool, runs out of rounds, or its API throws: the run is
\* closed and saved.
EndRun(archived) ==
    /\ run.phase = "model"
    /\ archived => config.backend = "walrus"
    /\ mem' = finalizeRun(endRun(mem, run.id), archived)
    /\ saveAgentState(mem')
    /\ Settle(mem')
    /\ run' = [run EXCEPT !.phase = "final"]
    /\ UNCHANGED <<pointer, chainVars, reserveMap, config, calls, cooled, posts>>

\* Mutant: the last save is a local one.
LocalOnly ==
    /\ run.phase = "final"
    /\ run' = [NoRun EXCEPT !.id = run.id]
    /\ UNCHANGED <<storeVars, chainVars, reserveMap, config, mem, calls, cooled, posts, promises>>

\* The last save.
FinalSave ==
    /\ run.phase = "final"
    /\ IF config.backend = "walrus" THEN Uploaded(mem) ELSE UNCHANGED storeVars
    /\ IF config.backend = "walrus" /\ pointer' = mem
         THEN /\ uploaded' = uploaded \cup Facts(mem)
              /\ stranded' = stranded \ Facts(mem)
              /\ UNCHANGED settled
         ELSE Strand
    /\ run' = [NoRun EXCEPT !.id = run.id]
    /\ UNCHANGED <<chainVars, reserveMap, config, mem, calls, cooled, posts>>

-----------------------------------------------------------------------------

\* The process dies and the daemon is started again: memory, calls and the SDK
\* context are gone.  A torn pointer sends the next load to the environment's
\* blob.
Crash ==
    /\ run.phase # "idle"
    /\ CrashOverPointer(config.backend = "walrus"
                        /\ (run.phase \in {"saving", "final"} \/ \E s \in Slots : calls[s].pc = "saving"))
    /\ run' = [NoRun EXCEPT !.id = run.id]
    /\ calls' = [s \in Slots |-> NoCall]
    /\ mem' = createEmptyAgentState
    /\ reserveMap' = NoContext
    /\ UNCHANGED <<chainVars, cooled, posts>>
    /\ Strand

CooldownPasses ==
    /\ \E tx \in landed : cooled' = cooled \cup {<<"tx", tx.digest>>} /\ cooled' # cooled
    /\ UNCHANGED <<guardVars, calls, posts, promises>>

Prices ==
    /\ \E protocol \in LendingProtocols :
          \E l \in config.prices[protocol] : PricesMove(protocol, l)
    /\ UNCHANGED <<storeVars, reserveMap, config, mem, run, calls, cooled, posts, promises>>

\* The executor of the loop strategy borrows with the same wallet, from the
\* supervisor's process or a tool call of this one.
ExecutorBorrows(protocol, amount) ==
    /\ protocol \in config.looping
    /\ Lands("borrow", protocol, amount, FALSE,
             [[Transaction("borrow", protocol, config.borrowAsset, FALSE) EXCEPT !.run = 0] EXCEPT !.round = 0])
    /\ UNCHANGED <<storeVars, reserveMap, config, mem, run, calls, cooled, posts, promises>>

CallNext(s) ==
    \/ Prepare(s)
    \/ Plan(s)
    \/ \E answer \in {"digest", "threw"} : Execute(s, answer)
    \/ \E answer \in {"posted", "failed"} : Post(s, answer)
    \/ SaveEnds(s)

AgentNext ==
    \/ StartRun
    \/ GuardStep
    \/ ModelCalls
    \/ \E s \in Slots : CallNext(s)
    \/ ReadTool
    \/ RoundEnds
    \/ \E archived \in BOOLEAN : EndRun(archived)
    \/ FinalSave
    \/ Crash
    \/ CooldownPasses
    \/ Prices
    \/ \E protocol \in config.looping, amount \in 1..config.maxBorrowRaw : ExecutorBorrows(protocol, amount)

AgentSpec == AgentInit /\ [][AgentNext]_agentVars

-----------------------------------------------------------------------------

Transactions ==
    [digest : Nat \ {0}, kind : ActionKinds, protocol : LendingProtocols, asset : STRING,
     coin : STRING, creates : BOOLEAN, run : Nat, round : Nat]

Calls ==
    {NoCall}
    \cup [pc : {"preparing"}, request : Request]
    \cup [pc : {"executing"}, request : Request, projected : Nat \X Nat, counted : Nat,
          seen : Nat, creates : BOOLEAN]
    \cup [pc : {"posting"}, id : ActionIds]
    \cup [pc : {"saving"}, blob : AgentState]

AgentTypeOK ==
    /\ config \in Configs
    /\ run \in [id : 0..MaxRuns, phase : {"idle", "guard", "saving", "model", "tools", "final"},
               round : 0..config.maxToolRounds, todo : Seq(LendingProtocols),
               borrows : BOOLEAN, last : {"none", "alert", "repaid"}]
    /\ calls \in [Slots -> Calls]
    /\ {shares, debt, limit} \subseteq [LendingProtocols -> Nat]
    /\ obligations \in Nat /\ reserveMap \in Nat \cup {NoContext}
    /\ landed \subseteq Transactions /\ IsFiniteSet(landed)
    /\ mem \in AgentState /\ {cache, pointer} \subseteq AgentState \cup {NoBlob}

Owed == settled \ stranded

\* A saved action or tweet is in the memory of every later run, through crashes,
\* failed and overlapping uploads, failed reads and a torn pointer, with two
\* exceptions: MAX_ACTIONS newer actions push an action out, and a Walrus
\* deployment forgets what its cache alone holds when a run crashes or its last
\* upload fails (Strand), although memoryStore.ts says that an outage falls back to
\* the cache: load prefers the older blob and overwrites the cache with it.
NothingSettledForgotten ==
    run.phase # "idle" =>
        /\ \A tx \in landed :
              <<"action", <<"tx", tx.digest>>>> \in Owed =>
                  Find(mem, <<"tx", tx.digest>>) # 0 \/ Len(mem.actions) = MAX_ACTIONS
        /\ \A i \in DOMAIN mem.actions :
              <<"tweeted", mem.actions[i].id>> \in Owed => mem.actions[i].tweeted

ThisRound(tx) == tx.run = run.id /\ tx.round = run.round

\* Memory, or a save that is owed, has the transaction, and the cooldown counts.
Cooling(tx) ==
    /\ <<"tx", tx.digest>> \notin cooled
    /\ <<"action", <<"tx", tx.digest>>>> \in Owed \cup Facts(mem)

PushedOut(tx) == Len(mem.actions) = MAX_ACTIONS /\ Find(mem, <<"tx", tx.digest>>) = 0

\* No supply of a coin gets to its transaction while one that an earlier round or
\* run recorded is within the cooldown and in memory's reach: only calls of one
\* round supply the same coin twice (shouldSkipWriteAction is read before the awaits
\* of runLendingWrite).  The gate compares spellings: a coin spelled in another way
\* passes it, and is stopped by the policy only when the allowlist has one spelling
\* of the coin.
CooldownStep ==
    \A s \in Slots :
        (/\ calls[s].pc = "preparing" /\ calls'[s].pc = "executing"
         /\ calls[s].request.kind = "supply") =>
            \A tx \in landed :
                (/\ tx.kind = "supply" /\ tx.coin = resolveCoinType(calls[s].request.asset)
                 /\ ~ThisRound(tx) /\ Cooling(tx)) =>
                    \/ PushedOut(tx)
                    \/ /\ tx.asset # calls[s].request.asset
                       /\ \/ config.allowedAssets = {}
                          \/ {tx.asset, calls[s].request.asset} \subseteq config.allowedAssets
CooldownAcrossRuns == [][CooldownStep]_agentVars

\* A supply whose tweet a save recorded is never posted again, unless that save was
\* left behind in the cache; before it, a lost answer or two calls of one round may post it twice
\* (handlePostActionUpdate awaits createPost between its check and recordTweet).
TweetStep ==
    \A s \in Slots :
        (calls[s].pc = "free" /\ calls'[s].pc = "posting") => <<"tweeted", calls'[s].id>> \notin Owed
SettledTweetNotRepeated == [][TweetStep]_agentVars

\* When the guard's pass ends, the last critical position it met was repaid or an
\* alert is pending, in the run's memory and in the file, whichever way the repay
\* failed (an alert for an earlier protocol may be gone: a later repay clears it).
LastCriticalAnswered ==
    run.phase = "model" /\ run.round = 0 /\ run.last = "alert" =>
        Tasks(mem, "health_alert") # {} /\ Tasks(loadAgentState, "health_alert") # {}

\* A borrow on Suilend or NAVI lands with the health factor at the floor or above,
\* at the limit it was simulated with and for what the simulation counts it for,
\* unless another borrow landed there since it was simulated: calls of one round and
\* the loop executor do not see each other (runLendingWrite).  NAVI counts it in
\* full.  On Suilend it may end below the floor by its borrow weight, or by all of it
\* when no market prices the coin: the next one is then refused.
BorrowStep ==
    \A s \in Slots :
        (/\ calls[s].pc = "executing" /\ calls[s].request.kind = "borrow"
         /\ calls'[s] # calls[s] /\ landed' # landed) =>
            LET c == calls[s]
                p == calls[s].request.protocol
            IN  \/ p = "scallop"
                \/ HealthyEnough(<<c.projected[1], Weighted(p, debt[p]) + c.counted>>, config)
                \/ \E tx \in landed : tx.kind = "borrow" /\ tx.protocol = p /\ tx.digest > c.seen
BorrowFloorAsCounted == [][BorrowStep]_agentVars

\* The wallet holds a second Suilend obligation, which no read ever looks at, only
\* when supplies of one round both found none (buildSupplyTx, getObligation).
SecondObligationIsParallel ==
    obligations > 1 =>
        \E tx, other \in landed :
            /\ tx # other /\ tx.creates /\ other.creates
            /\ tx.run = other.run /\ tx.round = other.round

\* healthGuard.ts: "auto-repay its largest borrow (live)".
RepayStep ==
    run.phase = "guard" /\ landed' # landed => debt'[Head(run.todo)] = 0
GuardRepaysLargestBorrow == [][RepayStep]_agentVars
=============================================================================
