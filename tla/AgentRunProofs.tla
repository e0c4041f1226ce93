--------------------------- MODULE AgentRunProofs ---------------------------
(***************************************************************************)
(* Theorems about AgentRun, for any number of runs, rounds and calls side  *)
(* by side: what a save keeps is not forgotten unless the cache alone has  *)
(* it when its run ends badly, an alert outlives the guard's pass, and     *)
(* supplies, tweets, borrows and obligations repeat only within one round. *)
(***************************************************************************)
EXTENDS AgentRun, FiniteSetTheorems, SequenceTheorems, TLAPS

Last == Cardinality(landed)

IsState(s) == s \notin {NoBlob, Foreign}

Saving(s) == calls[s].pc = "saving"

\* A record of a transaction says of it what is so.
Truthful(s, txs) ==
    \A tx \in txs : \A i \in DOMAIN s.actions :
       s.actions[i].id = <<"tx", tx.digest>> =>
          /\ ~s.actions[i].dryRun /\ s.actions[i].status = "confirmed"
          /\ s.actions[i].kind = tx.kind /\ s.actions[i].asset = tx.asset

Present(s, id) == \E i \in DOMAIN s.actions : s.actions[i].id = id

Full(s) == Len(s.actions) = MAX_ACTIONS

\* What is in facts is still there, or was pushed out by newer actions.
Keeps(s, facts) ==
    /\ \A fact \in facts : fact[1] = "action" => Present(s, fact[2]) \/ Full(s)
    /\ \A i \in DOMAIN s.actions : <<"tweeted", s.actions[i].id>> \in facts => s.actions[i].tweeted

Digested(id, last) == id[1] = "tx" /\ id[2] \in Int /\ id[2] <= last

\* Tweets that were posted are about transactions.
TweetsDigested(facts, last) ==
    \A fact \in facts : fact[1] = "tweeted" => Digested(fact[2], last)

RoundInv ==
    /\ run.phase # "tools" => \A s \in Slots : calls[s] = NoCall
    /\ run.phase \in {"guard", "saving"} => run.round = 0
    /\ run.phase = "tools" => run.round > 0

DigestInv == \A tx \in landed : tx.digest <= Last

Faithful(s, last, txs) == Sound(s, last) /\ Truthful(s, txs)

\* The states of memory that some later step may read are faithful.
RecordsInv ==
    /\ Faithful(mem, Last, landed)
    /\ \A s \in {cache, pointer, config.stateBlobId} : IsState(s) => Faithful(s, Last, landed)
    /\ \A s \in Slots : Saving(s) => Faithful(calls[s].blob, Last, landed)
    /\ \A s \in Slots : calls[s].pc = "posting" => Digested(calls[s].id, Last)
    /\ TweetsDigested(settled, Last)

\* What a run's last save put on Walrus and nothing left behind since.
Safe == uploaded \ stranded

\* The blob that pointer p names for the next load.
BlobAt(p) ==
    IF config.backend # "walrus" THEN NoBlob
    ELSE normalizeAgentState(IF p # NoBlob THEN p ELSE config.stateBlobId)

\* The blob of the next load keeps what was uploaded, and between two runs all
\* that is owed.
BlobsKeep ==
    /\ BlobAt(pointer) # NoBlob =>
          Keeps(BlobAt(pointer), Safe) /\ (run.phase = "idle" => Keeps(BlobAt(pointer), Owed))
    /\ \A s \in Slots : Saving(s) => Keeps(calls[s].blob, Safe)

KeepsInv ==
    /\ uploaded \subseteq settled
    /\ IF cache = NoBlob THEN settled = {} ELSE Keeps(cache, Owed)
    /\ run.phase # "idle" => Keeps(mem, Owed)
    /\ run.phase = "final" => cache = mem /\ Facts(mem) \subseteq settled
    /\ BlobsKeep

Alerted(s) == IsState(s) /\ Tasks(s, "health_alert") # {}

AlertInv ==
    run.phase \in {"guard", "saving", "model"} /\ run.round = 0 /\ run.last = "alert" =>
       run.borrows /\ Alerted(mem) /\ Alerted(cache)

ObligationInv ==
    /\ SecondObligationIsParallel
    /\ \A s \in Slots :
          calls[s].pc = "executing" /\ calls[s].creates =>
             obligations = 0 \/ \E tx \in landed : tx.creates /\ ThisRound(tx)

\* A borrow on protocol p is among txs, after the first seen.
BorrowedSince(p, txs, seen) ==
    \E tx \in txs : tx.kind = "borrow" /\ tx.protocol = p /\ tx.digest > seen

AtFloor(c, total, deployment) == HealthyEnough(<<c.projected[1], total>>, deployment)

\* A borrow that may execute, over the debts there are.
BorrowAllowed(c, debts, deployment, txs) ==
    \/ c.request.protocol = "scallop"
    \/ AtFloor(c, Weighted(c.request.protocol, debts[c.request.protocol]) + c.counted, deployment)
    \/ BorrowedSince(c.request.protocol, txs, c.seen)

BorrowInv ==
    \A s \in Slots :
       calls[s].pc = "executing" /\ calls[s].request.kind = "borrow" =>
          calls[s].seen <= Last /\ BorrowAllowed(calls[s], debt, config, landed)

\* What the policy lets through is on its allowlist of assets.
AllowedAsset(asset, deployment) == deployment.allowedAssets # {} => asset \in deployment.allowedAssets

AssetInv ==
    /\ \A tx \in landed : tx.kind = "supply" => AllowedAsset(tx.asset, config)
    /\ \A s \in Slots : calls[s].pc = "executing" => AllowedAsset(calls[s].request.asset, config)

\* A supply that passed the gate meets no earlier one of the same spelling.
GateInv ==
    \A s \in Slots :
       calls[s].pc = "preparing" /\ calls[s].request.kind = "supply" =>
          \A tx \in landed :
             tx.kind = "supply" /\ tx.asset = calls[s].request.asset /\ ~ThisRound(tx) /\ Cooling(tx) =>
                PushedOut(tx)

-----------------------------------------------------------------------------
(* The functions of agentMemory.ts.                                        *)

\* unshift and slice keep the newest max entries, the new one first.
IsNewest(T, e, q, max, new) ==
    /\ new \in Seq(T) /\ Len(new) <= max
    /\ \A i \in DOMAIN new : new[i] = e \/ \E j \in DOMAIN q : new[i] = q[j]
    /\ 1 \in DOMAIN new /\ new[1] = e
    /\ Len(q) = max => Len(new) = max
    /\ Len(new) = max \/ \A j \in DOMAIN q : j + 1 \in DOMAIN new /\ new[j + 1] = q[j]

LEMMA NewestIs ==
  ASSUME NEW T, NEW e \in T, NEW q \in Seq(T), NEW max \in Nat \ {0}, Len(q) <= max
  PROVE  IsNewest(T, e, q, max, Newest(e, q, max))
  <1> DEFINE rest == IF Len(q) < max THEN q ELSE SubSeq(q, 1, max - 1)
             new  == <<e>> \o rest
  <1>1. Newest(e, q, max) = new
    BY DEF Newest
  <1>2. /\ rest \in Seq(T) /\ Len(rest) <= max - 1
        /\ \A i \in DOMAIN rest : i \in DOMAIN q /\ rest[i] = q[i]
        /\ Len(q) = max => Len(rest) = max - 1
        /\ Len(q) < max => rest = q
    OBVIOUS
  <1> HIDE DEF rest
  <1>3. /\ new \in Seq(T) /\ Len(new) = Len(rest) + 1 /\ new[1] = e
        /\ \A i \in 1..Len(rest) : new[i + 1] = rest[i]
    BY <1>2
  <1> HIDE DEF new
  <1>4. ASSUME NEW i \in DOMAIN new
        PROVE  new[i] = e \/ \E j \in DOMAIN q : new[i] = q[j]
    <2>1. CASE i = 1
      BY <1>3, <2>1
    <2>2. CASE i # 1
      <3>1. i - 1 \in 1..Len(rest) /\ (i - 1) + 1 = i
        BY <1>2, <1>3, <2>2
      <3>2. i - 1 \in DOMAIN rest /\ new[i] = rest[i - 1]
        BY <1>2, <1>3, <3>1
      <3>3. QED  BY <1>2, <3>2
    <2>3. QED  BY <2>1, <2>2
  <1>5. Len(q) < max => \A j \in DOMAIN q : j + 1 \in DOMAIN new /\ new[j + 1] = q[j]
    BY <1>2, <1>3
  <1>6. Len(q) = max => Len(new) = max
    BY <1>2, <1>3
  <1>7. Len(q) = max \/ Len(q) < max
    OBVIOUS
  <1>8. Len(new) <= max /\ 1 \in DOMAIN new
    BY <1>2, <1>3
  <1>9. QED  BY <1>1, <1>3, <1>4, <1>5, <1>6, <1>7, <1>8 DEF IsNewest

LEMMA EntryType ==
  ASSUME NEW T, NEW q \in Seq(T), NEW i \in DOMAIN q
  PROVE  q[i] \in T
  OBVIOUS

\* A sequence rewritten entry by entry.
IsMap(T, q, m) == m = [i \in DOMAIN q |-> m[i]] /\ \A i \in DOMAIN q : m[i] \in T

LEMMA MapIsSeq ==
  ASSUME NEW T, NEW q \in Seq(T), NEW m, IsMap(T, q, m)
  PROVE  m \in Seq(T) /\ Len(m) = Len(q) /\ DOMAIN m = DOMAIN q
  <1>1. DOMAIN q = 1..Len(q) /\ Len(q) \in Nat
    OBVIOUS
  <1>2. m \in [1..Len(q) -> T]
    BY <1>1 DEF IsMap
  <1>3. QED  BY <1>1, <1>2, IsASeq, LenProperties

LEMMA StateFields ==
  ASSUME NEW s \in AgentState
  PROVE  /\ s.runs \in Seq([run : Nat, ended : BOOLEAN]) /\ Len(s.runs) <= MAX_RUNS
         /\ s.actions \in Seq(ActionRecord) /\ Len(s.actions) <= MAX_ACTIONS
         /\ s.tweets \in Seq([about : ActionIds, status : {"posted", "failed"}])
         /\ Len(s.tweets) <= MAX_TWEETS
         /\ s.pending \subseteq Task
         /\ s.artifacts \in Seq(Nat) /\ Len(s.artifacts) <= MAX_ARTIFACTS
  BY DEF AgentState

LEMMA EmptyState == createEmptyAgentState \in AgentState
  BY MemoryAssumption DEF createEmptyAgentState, AgentState

LEMMA WithRuns ==
  ASSUME NEW s \in AgentState, NEW runs \in Seq([run : Nat, ended : BOOLEAN]), Len(runs) <= MAX_RUNS
  PROVE  [s EXCEPT !.runs = runs] \in AgentState
  BY DEF AgentState

LEMMA WithActions ==
  ASSUME NEW s \in AgentState, NEW actions \in Seq(ActionRecord), Len(actions) <= MAX_ACTIONS
  PROVE  /\ [s EXCEPT !.actions = actions] \in AgentState
         /\ [s EXCEPT !.actions = actions].actions = actions
         /\ [s EXCEPT !.actions = actions].tweets = s.tweets
  BY DEF AgentState

LEMMA WithPending ==
  ASSUME NEW s \in AgentState, NEW pending \in SUBSET Task
  PROVE  /\ [s EXCEPT !.pending = pending] \in AgentState
         /\ [s EXCEPT !.pending = pending].pending = pending
         /\ [s EXCEPT !.pending = pending].actions = s.actions
         /\ [s EXCEPT !.pending = pending].tweets = s.tweets
  BY DEF AgentState

\* What says nothing of actions or tweets.
Noted(s, t) == t.actions = s.actions /\ t.tweets = s.tweets

\* No action is lost but to newer ones.
Lasts(s, t) ==
    /\ Full(s) => Full(t)
    /\ Full(t) \/ \A j \in DOMAIN s.actions : Present(t, s.actions[j].id)

\* An action is added, or takes the place it had.
Recorded(s, t, record) ==
    /\ t.tweets = s.tweets
    /\ \A i \in DOMAIN t.actions :
          t.actions[i] = record \/ \E j \in DOMAIN s.actions : t.actions[i] = s.actions[j]
    /\ Present(s, record.id) =>
          \E j \in DOMAIN s.actions :
             s.actions[j].id = record.id /\ s.actions[j].tweeted = record.tweeted
    /\ Present(t, record.id)
    /\ Lasts(s, t)

SameAction(e, f) ==
    /\ e.id = f.id /\ e.kind = f.kind /\ e.asset = f.asset
    /\ e.dryRun = f.dryRun /\ e.status = f.status

\* A tweet about an action is added, which marks it when it was posted.
Tweeted(s, t, id, status) ==
    /\ DOMAIN t.actions = DOMAIN s.actions
    /\ \A i \in DOMAIN s.actions :
          /\ SameAction(t.actions[i], s.actions[i])
          /\ t.actions[i].tweeted = (s.actions[i].tweeted \/ (status = "posted" /\ s.actions[i].id = id))
    /\ \A j \in DOMAIN t.tweets :
          t.tweets[j] = [about |-> id, status |-> status] \/ \E k \in DOMAIN s.tweets : t.tweets[j] = s.tweets[k]

ActionInput ==
    [run : Nat, protocol : LendingProtocols, kind : ActionKinds, asset : STRING, digest : Int,
     dryRun : BOOLEAN, status : {"planned", "confirmed"}]

LEMMA FindIs ==
  ASSUME NEW s \in AgentState, NEW id
  PROVE  /\ Find(s, id) # 0 => /\ Find(s, id) \in DOMAIN s.actions
                               /\ s.actions[Find(s, id)].id = id
         /\ Find(s, id) # 0 <=> Present(s, id)
  <1>1. DOMAIN s.actions = 1..Len(s.actions) /\ Len(s.actions) \in Nat
    BY StateFields
  <1>2. CASE Present(s, id)
    <2>1. /\ Find(s, id) \in DOMAIN s.actions
          /\ s.actions[Find(s, id)].id = id
      BY <1>2 DEF Find, Present
    <2>2. Find(s, id) # 0
      BY <1>1, <2>1
    <2>3. QED  BY <1>2, <2>1, <2>2
  <1>3. CASE ~Present(s, id)
    BY <1>3 DEF Find, Present
  <1>4. QED  BY <1>2, <1>3

LEMMA ActionIdType ==
  ASSUME NEW a \in ActionInput
  PROVE  /\ ActionId(a) \in ActionIds
         /\ ~a.dryRun => /\ ActionId(a) = <<"tx", a.digest>>
                         /\ ActionId(a)[1] = "tx" /\ ActionId(a)[2] = a.digest
         /\ a.dryRun => ActionId(a)[1] = "dry"
  BY DEF ActionInput, ActionId, ActionIds

\* The entry recordPositionAction makes.
RecordOf(s, a) ==
    [id |-> ActionId(a), kind |-> a.kind, asset |-> a.asset, dryRun |-> a.dryRun, status |-> a.status,
     tweeted |-> Find(s, ActionId(a)) # 0 /\ s.actions[Find(s, ActionId(a))].tweeted]

LEMMA RecordOfType ==
  ASSUME NEW s \in AgentState, NEW a \in ActionInput
  PROVE  RecordOf(s, a) \in ActionRecord
  <1> DEFINE at == Find(s, ActionId(a))
             tweeted == at # 0 /\ s.actions[at].tweeted
  <1>1. tweeted \in BOOLEAN
    OBVIOUS
  <1> HIDE DEF tweeted
  <1>2. ActionId(a) \in ActionIds
    BY ActionIdType
  <1>3. [id |-> ActionId(a), kind |-> a.kind, asset |-> a.asset, dryRun |-> a.dryRun,
         status |-> a.status, tweeted |-> tweeted] \in ActionRecord
    BY <1>1, <1>2 DEF ActionInput, ActionRecord
  <1>4. QED  BY <1>3 DEF RecordOf, tweeted

\* The list of actions recordPositionAction leaves.
ActionsOf(s, a) ==
    LET at == Find(s, ActionId(a))
    IN  IF at # 0 THEN [s.actions EXCEPT ![at] = RecordOf(s, a)]
        ELSE Newest(RecordOf(s, a), s.actions, MAX_ACTIONS)

LEMMA RecordedIs ==
  ASSUME NEW s \in AgentState, NEW a \in ActionInput, NEW posting
  PROVE  LET kept == [s EXCEPT !.actions = ActionsOf(s, a)]
         IN  \/ recordPositionAction(s, a, posting) = kept
             \/ recordPositionAction(s, a, posting) =
                  [kept EXCEPT !.pending = @ \cup {[type |-> "tweet_action", about |-> ActionId(a)]}]
  <1> DEFINE at     == Find(s, ActionId(a))
             record == RecordOf(s, a)
             kept   == [s EXCEPT !.actions =
                          IF at # 0 THEN [@ EXCEPT ![at] = record] ELSE Newest(record, @, MAX_ACTIONS)]
             task   == [type |-> "tweet_action", about |-> record.id]
             queue  == posting /\ a.kind = "supply" /\ a.status = "confirmed" /\ ~a.dryRun /\ ~record.tweeted
  <1>1. recordPositionAction(s, a, posting) =
           IF queue THEN [kept EXCEPT !.pending = @ \cup {task}] ELSE kept
    BY Zenon DEF recordPositionAction, RecordOf
  <1>2. record.id = ActionId(a)
    BY DEF RecordOf
  <1>3. kept = [s EXCEPT !.actions = ActionsOf(s, a)]
    BY Zenon DEF ActionsOf
  <1> HIDE DEF record, kept, queue, at
  <1>4. QED  BY <1>1, <1>2, <1>3, Zenon

LEMMA ActionsOfIs ==
  ASSUME NEW s \in AgentState, NEW a \in ActionInput
  PROVE  /\ ActionsOf(s, a) \in Seq(ActionRecord) /\ Len(ActionsOf(s, a)) <= MAX_ACTIONS
         /\ \A t : t.actions = ActionsOf(s, a) /\ t.tweets = s.tweets => Recorded(s, t, RecordOf(s, a))
  <1> DEFINE id == ActionId(a)
             at == Find(s, id)
             record == RecordOf(s, a)
             new == ActionsOf(s, a)
  <1>1. /\ record \in ActionRecord /\ record.id = id
        /\ record.tweeted = (at # 0 /\ s.actions[at].tweeted)
    BY RecordOfType DEF RecordOf
  <1>2. /\ s.actions \in Seq(ActionRecord) /\ Len(s.actions) <= MAX_ACTIONS
        /\ MAX_ACTIONS \in Nat \ {0}
    BY StateFields, MemoryAssumption
  <1>3. CASE at # 0
    <2>1. at \in DOMAIN s.actions /\ s.actions[at].id = id
      BY <1>3, FindIs
    <2>2. new = [s.actions EXCEPT ![at] = record]
      BY <1>3 DEF ActionsOf
    <2>3. /\ new \in Seq(ActionRecord) /\ Len(new) = Len(s.actions)
          /\ DOMAIN new = DOMAIN s.actions /\ new[at] = record
          /\ \A i \in DOMAIN s.actions : i # at => new[i] = s.actions[i]
      BY <1>1, <1>2, <2>1, <2>2
    <2>4. s.actions[at].tweeted = record.tweeted
      <3>1. s.actions[at] \in ActionRecord
        BY <1>2, <2>1
      <3>2. s.actions[at].tweeted \in BOOLEAN
        BY <3>1 DEF ActionRecord
      <3>3. QED  BY <1>1, <1>3, <3>2
    <2> HIDE DEF new, record, at, id
    <2>5. ASSUME NEW t, t.actions = new, t.tweets = s.tweets
          PROVE  Recorded(s, t, record)
      <3>1. \A i \in DOMAIN t.actions : t.actions[i] = record \/ t.actions[i] = s.actions[i]
        BY <2>3, <2>5
      <3>2. \A j \in DOMAIN s.actions : t.actions[j].id = s.actions[j].id
        BY <1>1, <2>1, <2>3, <2>5
      <3>3. \A j \in DOMAIN s.actions : Present(t, s.actions[j].id)
        BY <2>3, <2>5, <3>2 DEF Present
      <3>4. Full(s) => Full(t)
        BY <2>3, <2>5 DEF Full
      <3>5. Present(t, record.id)
        BY <2>1, <2>3, <2>5 DEF Present
      <3>6. s.actions[at].id = record.id /\ s.actions[at].tweeted = record.tweeted
        BY <1>1, <2>1, <2>4
      <3>7. QED  BY <2>1, <2>3, <2>5, <3>1, <3>3, <3>4, <3>5, <3>6 DEF Recorded, Lasts
    <2>6. Len(new) <= MAX_ACTIONS
      BY <1>2, <2>3
    <2>7. QED  BY <2>3, <2>5, <2>6 DEF new, record
  <1>4. CASE at = 0
    <2>1. new = Newest(record, s.actions, MAX_ACTIONS)
      BY <1>4 DEF ActionsOf
    <2>2. ~Present(s, id)
      BY <1>4, FindIs
    <2> HIDE DEF new, record, at, id
    <2>3. IsNewest(ActionRecord, record, s.actions, MAX_ACTIONS, new)
      BY <1>1, <1>2, <2>1, NewestIs
    <2>4. ASSUME NEW t, t.actions = new, t.tweets = s.tweets
          PROVE  Recorded(s, t, record)
      <3>1. ~Full(t) => \A j \in DOMAIN s.actions : Present(t, s.actions[j].id)
        BY <2>3, <2>4 DEF IsNewest, Full, Present
      <3>2. Full(s) => Full(t)
        BY <2>3, <2>4 DEF IsNewest, Full
      <3>3. Present(t, record.id)
        BY <2>3, <2>4 DEF IsNewest, Present
      <3>4. ~Present(s, record.id)
        BY <1>1, <2>2
      <3>5. QED  BY <2>3, <2>4, <3>1, <3>2, <3>3, <3>4 DEF IsNewest, Recorded, Lasts
    <2>5. QED  BY <2>3, <2>4 DEF new, record, IsNewest
  <1>5. QED  BY <1>3, <1>4

LEMMA RecordPositionActionIs ==
  ASSUME NEW s \in AgentState, NEW a \in ActionInput, NEW posting
  PROVE  /\ recordPositionAction(s, a, posting) \in AgentState
         /\ Recorded(s, recordPositionAction(s, a, posting), RecordOf(s, a))
  <1> DEFINE kept == [s EXCEPT !.actions = ActionsOf(s, a)]
             task == [type |-> "tweet_action", about |-> ActionId(a)]
             more == [kept EXCEPT !.pending = @ \cup {task}]
  <1>1. /\ kept \in AgentState /\ kept.actions = ActionsOf(s, a) /\ kept.tweets = s.tweets
    BY ActionsOfIs, WithActions
  <1>2. task \in Task
    BY ActionIdType DEF Task
  <1>3. recordPositionAction(s, a, posting) = kept \/ recordPositionAction(s, a, posting) = more
    BY RecordedIs
  <1> HIDE DEF kept, task
  <1>4. kept.pending \cup {task} \in SUBSET Task
    BY <1>1, <1>2, StateFields
  <1>5. /\ more \in AgentState
        /\ more.actions = ActionsOf(s, a) /\ more.tweets = s.tweets
    BY <1>1, <1>4, WithPending
  <1> HIDE DEF more
  <1>6. QED  BY <1>1, <1>3, <1>5, ActionsOfIs

LEMMA RecordTweetIs ==
  ASSUME NEW s \in AgentState, NEW id \in ActionIds, NEW status \in {"posted", "failed"}
  PROVE  /\ recordTweet(s, id, status) \in AgentState
         /\ Tweeted(s, recordTweet(s, id, status), id, status)
  <1> DEFINE tweet  == [about |-> id, status |-> status]
             tweets == Newest(tweet, s.tweets, MAX_TWEETS)
             noted  == [s EXCEPT !.tweets = tweets]
             mark   == [i \in DOMAIN s.actions |->
                           IF s.actions[i].id = id THEN [s.actions[i] EXCEPT !.tweeted = TRUE] ELSE s.actions[i]]
             task   == [type |-> "tweet_action", about |-> id]
             marked == [[noted EXCEPT !.actions = mark] EXCEPT !.pending = @ \ {task}]
  <1>1. IsNewest([about : ActionIds, status : {"posted", "failed"}], tweet, s.tweets, MAX_TWEETS, tweets)
    BY StateFields, MemoryAssumption, NewestIs
  <1> HIDE DEF tweets
  <1>2. /\ noted \in AgentState /\ noted.actions = s.actions /\ noted.tweets = tweets
        /\ noted.pending = s.pending
    BY <1>1 DEF IsNewest, AgentState
  <1>3. noted.actions = s.actions => recordTweet(s, id, status) = IF status # "posted" THEN noted ELSE marked
    BY Zenon DEF recordTweet, tweets
  <1>4. \A i \in DOMAIN s.actions :
           /\ mark[i] \in ActionRecord
           /\ SameAction(mark[i], s.actions[i])
           /\ mark[i].tweeted = (s.actions[i].tweeted \/ s.actions[i].id = id)
    <2> SUFFICES ASSUME NEW i \in DOMAIN s.actions
                 PROVE  /\ mark[i] \in ActionRecord
                        /\ SameAction(mark[i], s.actions[i])
                        /\ mark[i].tweeted = (s.actions[i].tweeted \/ s.actions[i].id = id)
      OBVIOUS
    <2>1. s.actions[i] \in ActionRecord
      BY StateFields
    <2>2. CASE s.actions[i].id = id
      <3>1. mark[i] = [s.actions[i] EXCEPT !.tweeted = TRUE]
        BY <2>2
      <3>2. QED  BY <2>1, <3>1 DEF ActionRecord, SameAction
    <2>3. CASE s.actions[i].id # id
      <3>1. mark[i] = s.actions[i]
        BY <2>3
      <3>2. s.actions[i].tweeted \in BOOLEAN
        BY <2>1 DEF ActionRecord
      <3>3. s.actions[i].tweeted = (s.actions[i].tweeted \/ s.actions[i].id = id)
        BY <2>3, <3>2
      <3>4. mark[i].tweeted = (s.actions[i].tweeted \/ s.actions[i].id = id)
        BY <3>1, <3>3, Zenon
      <3>5. mark[i] \in ActionRecord /\ SameAction(mark[i], s.actions[i])
        BY <2>1, <3>1 DEF SameAction
      <3>6. QED  BY <3>4, <3>5, Zenon
    <2>4. QED  BY <2>2, <2>3
  <1>5. /\ mark \in Seq(ActionRecord) /\ Len(mark) <= MAX_ACTIONS
        /\ DOMAIN mark = DOMAIN s.actions
    <2>1. \A i \in DOMAIN s.actions : mark[i] \in ActionRecord
      BY <1>4
    <2>2. mark = [i \in DOMAIN s.actions |-> mark[i]]
      OBVIOUS
    <2> HIDE DEF mark
    <2>3. IsMap(ActionRecord, s.actions, mark)
      BY <2>1, <2>2 DEF IsMap
    <2>4. QED  BY <2>3, StateFields, MapIsSeq
  <1> HIDE DEF noted, mark
  <1>6. /\ marked \in AgentState /\ marked.actions = mark /\ marked.tweets = tweets
    <2>1. /\ [noted EXCEPT !.actions = mark] \in AgentState
          /\ [noted EXCEPT !.actions = mark].actions = mark
          /\ [noted EXCEPT !.actions = mark].tweets = tweets
      BY <1>2, <1>5, WithActions
    <2>2. [noted EXCEPT !.actions = mark].pending \ {task} \in SUBSET Task
      BY <2>1, StateFields
    <2>3. QED  BY <2>1, <2>2, WithPending
  <1>7. \A j \in DOMAIN tweets :
           tweets[j] = tweet \/ \E k \in DOMAIN s.tweets : tweets[j] = s.tweets[k]
    BY <1>1 DEF IsNewest
  <1> HIDE DEF marked
  <1>8. CASE status = "posted"
    <2>1. recordTweet(s, id, status) = marked
      BY <1>2, <1>3, <1>8
    <2>2. QED  BY <1>4, <1>5, <1>6, <1>7, <1>8, <2>1 DEF Tweeted
  <1>9. CASE status # "posted"
    <2>1. recordTweet(s, id, status) = noted
      BY <1>2, <1>3, <1>9
    <2>2. ASSUME NEW i \in DOMAIN s.actions
          PROVE  s.actions[i].tweeted = (s.actions[i].tweeted \/ (status = "posted" /\ s.actions[i].id = id))
      <3>1. s.actions[i] \in ActionRecord
        BY StateFields
      <3>2. s.actions[i].tweeted \in BOOLEAN
        BY <3>1 DEF ActionRecord
      <3>3. QED  BY <1>9, <3>2
    <2>3. QED  BY <1>2, <1>7, <2>1, <2>2 DEF Tweeted, SameAction
  <1>10. QED  BY <1>8, <1>9

LEMMA BeginRunIs ==
  ASSUME NEW s \in AgentState, NEW r \in Nat
  PROVE  beginRun(s, r) \in AgentState /\ Noted(s, beginRun(s, r))
  <1>1. IsNewest([run : Nat, ended : BOOLEAN], [run |-> r, ended |-> FALSE], s.runs, MAX_RUNS,
                 Newest([run |-> r, ended |-> FALSE], s.runs, MAX_RUNS))
    BY StateFields, MemoryAssumption, NewestIs
  <1>2. QED  BY <1>1 DEF IsNewest, beginRun, AgentState, Noted

LEMMA EndRunIs ==
  ASSUME NEW s \in AgentState, NEW r \in Nat
  PROVE  endRun(s, r) \in AgentState /\ Noted(s, endRun(s, r))
  <1> DEFINE runs == [i \in DOMAIN s.runs |->
                         IF s.runs[i].run = r THEN [run |-> r, ended |-> TRUE] ELSE s.runs[i]]
  <1>1. s.runs \in Seq([run : Nat, ended : BOOLEAN]) /\ Len(s.runs) <= MAX_RUNS
    BY StateFields
  <1>2. \A i \in DOMAIN s.runs : runs[i] \in [run : Nat, ended : BOOLEAN]
    <2> SUFFICES ASSUME NEW i \in DOMAIN s.runs
                 PROVE  runs[i] \in [run : Nat, ended : BOOLEAN]
      OBVIOUS
    <2>1. s.runs[i] \in [run : Nat, ended : BOOLEAN]
      BY <1>1, EntryType
    <2>2. QED  BY <2>1
  <1>3. runs \in Seq([run : Nat, ended : BOOLEAN]) /\ Len(runs) <= MAX_RUNS
    <2>1. runs = [i \in DOMAIN s.runs |-> runs[i]]
      OBVIOUS
    <2> HIDE DEF runs
    <2>2. IsMap([run : Nat, ended : BOOLEAN], s.runs, runs)
      BY <1>2, <2>1 DEF IsMap
    <2>3. QED  BY <1>1, <2>2, MapIsSeq
  <1>4. endRun(s, r) = [s EXCEPT !.runs = runs]
    BY Zenon DEF endRun
  <1> HIDE DEF runs
  <1>5. QED  BY <1>3, <1>4 DEF AgentState, Noted

LEMMA RecordArtifactIs ==
  ASSUME NEW s \in AgentState, NEW r \in Nat
  PROVE  recordArtifact(s, r) \in AgentState /\ Noted(s, recordArtifact(s, r))
  <1>1. IsNewest(Nat, r, s.artifacts, MAX_ARTIFACTS, Newest(r, s.artifacts, MAX_ARTIFACTS))
    BY StateFields, MemoryAssumption, NewestIs
  <1>2. QED  BY <1>1 DEF IsNewest, recordArtifact, AgentState, Noted

LEMMA ClearHealthAlertIs ==
  ASSUME NEW s \in AgentState
  PROVE  clearHealthAlert(s) \in AgentState /\ Noted(s, clearHealthAlert(s))
  <1>1. s.pending \ Tasks(s, "health_alert") \in SUBSET Task
    BY StateFields
  <1>2. QED  BY <1>1, WithPending DEF clearHealthAlert, Noted

LEMMA QueueHealthAlertIs ==
  ASSUME NEW s \in AgentState, NEW p \in LendingProtocols
  PROVE  /\ queueHealthAlert(s, p) \in AgentState /\ Noted(s, queueHealthAlert(s, p))
         /\ Tasks(queueHealthAlert(s, p), "health_alert") # {}
  <1> DEFINE alert   == [type |-> "health_alert", about |-> p]
             cleared == clearHealthAlert(s)
  <1>1. cleared \in AgentState /\ Noted(s, cleared)
    BY ClearHealthAlertIs
  <1>2. alert \in Task
    BY DEF Task
  <1>3. cleared.pending \cup {alert} \in SUBSET Task
    BY <1>1, <1>2, StateFields
  <1>4. queueHealthAlert(s, p) = [cleared EXCEPT !.pending = cleared.pending \cup {alert}]
    BY Zenon DEF queueHealthAlert
  <1> HIDE DEF cleared
  <1>5. /\ queueHealthAlert(s, p) \in AgentState
        /\ queueHealthAlert(s, p).pending = cleared.pending \cup {alert}
        /\ Noted(cleared, queueHealthAlert(s, p))
    BY <1>1, <1>3, <1>4, WithPending DEF Noted
  <1>6. alert \in Tasks(queueHealthAlert(s, p), "health_alert")
    BY <1>5 DEF Tasks
  <1>7. QED  BY <1>1, <1>5, <1>6 DEF Noted

-----------------------------------------------------------------------------
(* What these functions do to the soundness of a state, to its truth, and  *)
(* to what it keeps.                                                       *)

\* The entry of a plan, or of the transaction after the first last.
NewEntry(record, last) ==
    \/ record.dryRun /\ record.id[1] = "dry"
    \/ ~record.dryRun /\ record.id = <<"tx", last + 1>>

LEMMA NewEntryIs ==
  ASSUME NEW record, NEW last \in Nat, NewEntry(record, last)
  PROVE  /\ ~record.dryRun => record.id[1] = "tx"
         /\ \A next \in Nat : last < next => (record.id[1] = "tx" => record.id[2] <= next)
         /\ record.dryRun => record.id[1] # "tx"
         /\ ~Digested(record.id, last)
  <1>1. CASE record.dryRun /\ record.id[1] = "dry"
    BY <1>1 DEF Digested
  <1>2. CASE ~record.dryRun /\ record.id = <<"tx", last + 1>>
    <2>1. record.id[1] = "tx" /\ record.id[2] = last + 1
      BY <1>2
    <2>2. QED  BY <1>2, <2>1 DEF Digested
  <1>3. QED  BY <1>1, <1>2 DEF NewEntry

LEMMA EntryIdType ==
  ASSUME NEW s \in AgentState
  PROVE  /\ \A i \in DOMAIN s.actions :
               s.actions[i].id \in ActionIds /\ (s.actions[i].id[1] = "tx" => s.actions[i].id[2] \in Int)
         /\ \A j \in DOMAIN s.tweets :
               s.tweets[j].about \in ActionIds /\ (s.tweets[j].about[1] = "tx" => s.tweets[j].about[2] \in Int)
  <1>1. \A id \in ActionIds : id[1] = "tx" => id[2] \in Int
    BY DEF ActionIds
  <1>2. ASSUME NEW i \in DOMAIN s.actions
        PROVE  s.actions[i].id \in ActionIds
    <2>1. s.actions \in Seq(ActionRecord)
      BY StateFields
    <2>2. s.actions[i] \in ActionRecord
      BY <2>1, EntryType
    <2>3. QED  BY <2>2 DEF ActionRecord
  <1>3. ASSUME NEW j \in DOMAIN s.tweets
        PROVE  s.tweets[j].about \in ActionIds
    <2>1. s.tweets \in Seq([about : ActionIds, status : {"posted", "failed"}])
      BY StateFields
    <2>2. s.tweets[j] \in [about : ActionIds, status : {"posted", "failed"}]
      BY <2>1, EntryType
    <2>3. QED  BY <2>2
  <1>4. QED  BY <1>1, <1>2, <1>3

LEMMA SoundNoted ==
  ASSUME NEW s, NEW t, NEW last, Sound(s, last), Noted(s, t)
  PROVE  Sound(t, last)
  BY DEF Sound, Noted

LEMMA SoundLater ==
  ASSUME NEW s \in AgentState, NEW last \in Int, NEW next \in Int, last <= next, Sound(s, last)
  PROVE  Sound(s, next)
  <1>1. ASSUME NEW i \in DOMAIN s.actions
        PROVE  /\ ~s.actions[i].dryRun => s.actions[i].id[1] = "tx"
               /\ s.actions[i].id[1] = "tx" => s.actions[i].id[2] <= next
    BY EntryIdType DEF Sound
  <1>2. ASSUME NEW j \in DOMAIN s.tweets, s.tweets[j].status = "posted"
        PROVE  /\ s.tweets[j].about[1] = "tx" /\ s.tweets[j].about[2] <= next
               /\ \A i \in DOMAIN s.actions :
                     s.actions[i].id = s.tweets[j].about => s.actions[i].tweeted
    BY <1>2, EntryIdType DEF Sound
  <1>3. \A i, j \in DOMAIN s.actions :
           s.actions[i].id = s.actions[j].id => s.actions[i].tweeted = s.actions[j].tweeted
    BY DEF Sound
  <1>4. QED  BY <1>1, <1>2, <1>3 DEF Sound

LEMMA SoundRecorded ==
  ASSUME NEW s \in AgentState, NEW t, NEW record, NEW last \in Nat, NEW next \in Nat,
         Sound(s, last), Recorded(s, t, record), NewEntry(record, last),
         last <= next, ~record.dryRun => last < next
  PROVE  Sound(t, next)
  <1>1. ASSUME NEW i \in DOMAIN t.actions
        PROVE  /\ ~t.actions[i].dryRun => t.actions[i].id[1] = "tx"
               /\ t.actions[i].id[1] = "tx" => t.actions[i].id[2] <= next
    <2>1. CASE t.actions[i] = record
      BY <2>1, NewEntryIs
    <2>2. CASE \E j \in DOMAIN s.actions : t.actions[i] = s.actions[j]
      BY <2>2, EntryIdType DEF Sound
    <2>3. QED  BY <2>1, <2>2 DEF Recorded
  <1>2. ASSUME NEW j \in DOMAIN t.tweets, t.tweets[j].status = "posted"
        PROVE  /\ t.tweets[j].about[1] = "tx" /\ t.tweets[j].about[2] <= next
               /\ \A i \in DOMAIN t.actions :
                     t.actions[i].id = t.tweets[j].about => t.actions[i].tweeted
    <2>1. t.tweets = s.tweets
      BY DEF Recorded
    <2>2. /\ Digested(t.tweets[j].about, last) /\ t.tweets[j].about[2] \in Int
          /\ \A i \in DOMAIN s.actions :
                s.actions[i].id = t.tweets[j].about => s.actions[i].tweeted
      BY <1>2, <2>1, EntryIdType DEF Sound, Digested
    <2>3. record.id # t.tweets[j].about
      BY <2>2, NewEntryIs
    <2>4. \A i \in DOMAIN t.actions : t.actions[i].id = t.tweets[j].about => t.actions[i].tweeted
      BY <2>2, <2>3 DEF Recorded
    <2>5. QED  BY <2>2, <2>4 DEF Digested
  <1>3. ASSUME NEW i \in DOMAIN t.actions, NEW j \in DOMAIN t.actions,
               t.actions[i].id = t.actions[j].id
        PROVE  t.actions[i].tweeted = t.actions[j].tweeted
    <2>1. \A k \in DOMAIN s.actions : s.actions[k].id = record.id => s.actions[k].tweeted = record.tweeted
      BY DEF Sound, Recorded, Present
    <2>2. CASE t.actions[i] = record
      BY <1>3, <2>1, <2>2 DEF Recorded
    <2>3. CASE t.actions[j] = record
      BY <1>3, <2>1, <2>3 DEF Recorded
    <2>4. CASE t.actions[i] # record /\ t.actions[j] # record
      <3>1. PICK k \in DOMAIN s.actions : t.actions[i] = s.actions[k]
        BY <2>4 DEF Recorded
      <3>2. PICK l \in DOMAIN s.actions : t.actions[j] = s.actions[l]
        BY <2>4 DEF Recorded
      <3>3. QED  BY <1>3, <3>1, <3>2 DEF Sound
    <2>5. QED  BY <2>2, <2>3, <2>4
  <1>4. QED  BY <1>1, <1>2, <1>3 DEF Sound

LEMMA SoundTweeted ==
  ASSUME NEW s, NEW t, NEW id, NEW status, NEW last, Sound(s, last),
         Tweeted(s, t, id, status), Digested(id, last)
  PROVE  Sound(t, last)
  <1>1. \A i \in DOMAIN t.actions :
           /\ i \in DOMAIN s.actions /\ SameAction(t.actions[i], s.actions[i])
           /\ t.actions[i].tweeted = (s.actions[i].tweeted \/ (status = "posted" /\ s.actions[i].id = id))
    BY DEF Tweeted
  <1>2. ASSUME NEW i \in DOMAIN t.actions
        PROVE  /\ ~t.actions[i].dryRun => t.actions[i].id[1] = "tx"
               /\ t.actions[i].id[1] = "tx" => t.actions[i].id[2] <= last
    BY <1>1 DEF Sound, SameAction
  <1>3. ASSUME NEW j \in DOMAIN t.tweets, t.tweets[j].status = "posted"
        PROVE  /\ t.tweets[j].about[1] = "tx" /\ t.tweets[j].about[2] <= last
               /\ \A i \in DOMAIN t.actions :
                     t.actions[i].id = t.tweets[j].about => t.actions[i].tweeted
    <2>1. CASE t.tweets[j] = [about |-> id, status |-> status]
      <3>1. t.tweets[j].about = id /\ status = "posted"
        BY <1>3, <2>1
      <3>2. QED  BY <1>1, <3>1 DEF Digested, SameAction
    <2>2. ASSUME NEW k \in DOMAIN s.tweets, t.tweets[j] = s.tweets[k]
          PROVE  /\ t.tweets[j].about[1] = "tx" /\ t.tweets[j].about[2] <= last
                 /\ \A i \in DOMAIN t.actions :
                       t.actions[i].id = t.tweets[j].about => t.actions[i].tweeted
      <3>1. /\ t.tweets[j].about[1] = "tx" /\ t.tweets[j].about[2] <= last
            /\ \A i \in DOMAIN s.actions : s.actions[i].id = t.tweets[j].about => s.actions[i].tweeted
        BY <1>3, <2>2 DEF Sound
      <3>2. ASSUME NEW i \in DOMAIN t.actions, t.actions[i].id = t.tweets[j].about
            PROVE  t.actions[i].tweeted
        <4>1. s.actions[i].tweeted
          BY <1>1, <3>1, <3>2 DEF SameAction
        <4>2. QED  BY <1>1, <4>1
      <3>3. QED  BY <3>1, <3>2
    <2>3. QED  BY <2>1, <2>2 DEF Tweeted
  <1>4. \A i, j \in DOMAIN t.actions :
           t.actions[i].id = t.actions[j].id => t.actions[i].tweeted = t.actions[j].tweeted
    BY <1>1 DEF Sound, SameAction
  <1>5. QED  BY <1>2, <1>3, <1>4 DEF Sound

LEMMA TruthfulNoted ==
  ASSUME NEW s, NEW t, NEW txs, Truthful(s, txs), Noted(s, t)
  PROVE  Truthful(t, txs)
  BY DEF Truthful, Noted

\* A transaction that lands is none of those a sound state has.
LEMMA TruthfulLater ==
  ASSUME NEW s \in AgentState, NEW txs, NEW tx, NEW last \in Nat, tx.digest = last + 1,
         Truthful(s, txs), Sound(s, last)
  PROVE  Truthful(s, txs \cup {tx})
  <1>1. ASSUME NEW i \in DOMAIN s.actions
        PROVE  s.actions[i].id # <<"tx", tx.digest>>
    <2>1. s.actions[i].id[1] = "tx" => s.actions[i].id[2] \in Int /\ s.actions[i].id[2] <= last
      BY EntryIdType DEF Sound
    <2>2. QED  BY <2>1
  <1>2. QED  BY <1>1 DEF Truthful

\* The entry says of the transaction it names what is so.
Describes(record, tx) ==
    /\ ~record.dryRun /\ record.status = "confirmed"
    /\ record.kind = tx.kind /\ record.asset = tx.asset

LEMMA TruthfulRecorded ==
  ASSUME NEW s, NEW t, NEW txs, NEW record, Truthful(s, txs), Recorded(s, t, record),
         \A tx \in txs : record.id = <<"tx", tx.digest>> => Describes(record, tx)
  PROVE  Truthful(t, txs)
  <1> SUFFICES ASSUME NEW tx \in txs, NEW i \in DOMAIN t.actions,
                      t.actions[i].id = <<"tx", tx.digest>>
               PROVE  Describes(t.actions[i], tx)
    BY DEF Truthful, Describes
  <1>1. CASE t.actions[i] = record
    BY <1>1
  <1>2. CASE \E j \in DOMAIN s.actions : t.actions[i] = s.actions[j]
    BY <1>2 DEF Truthful, Describes
  <1>3. QED  BY <1>1, <1>2 DEF Recorded

LEMMA TruthfulTweeted ==
  ASSUME NEW s, NEW t, NEW txs, NEW id, NEW status, Truthful(s, txs), Tweeted(s, t, id, status)
  PROVE  Truthful(t, txs)
  BY DEF Truthful, Tweeted, SameAction

LEMMA KeepsNoted ==
  ASSUME NEW s, NEW t, NEW facts, Keeps(s, facts), Noted(s, t)
  PROVE  Keeps(t, facts)
  BY DEF Keeps, Noted, Present, Full

LEMMA KeepsRecorded ==
  ASSUME NEW s, NEW t, NEW facts, NEW record, NEW last \in Nat, Keeps(s, facts),
         Recorded(s, t, record), NewEntry(record, last), TweetsDigested(facts, last)
  PROVE  Keeps(t, facts)
  <1>1. ASSUME NEW fact \in facts, fact[1] = "action"
        PROVE  Present(t, fact[2]) \/ Full(t)
    BY <1>1 DEF Keeps, Recorded, Lasts, Present
  <1>2. <<"tweeted", record.id>> \notin facts
    <2>1. SUFFICES ASSUME <<"tweeted", record.id>> \in facts
                   PROVE  FALSE
      OBVIOUS
    <2>2. Digested(<<"tweeted", record.id>>[2], last)
      BY <2>1 DEF TweetsDigested
    <2>3. QED  BY <2>2, NewEntryIs
  <1>3. ASSUME NEW i \in DOMAIN t.actions, <<"tweeted", t.actions[i].id>> \in facts
        PROVE  t.actions[i].tweeted
    BY <1>2, <1>3 DEF Keeps, Recorded
  <1>4. QED  BY <1>1, <1>3 DEF Keeps

LEMMA KeepsTweeted ==
  ASSUME NEW s, NEW t, NEW facts, NEW id, NEW status, Keeps(s, facts), s \in AgentState,
         t \in AgentState, Tweeted(s, t, id, status)
  PROVE  Keeps(t, facts)
  <1>1. Len(t.actions) = Len(s.actions)
    <2>1. s.actions \in Seq(ActionRecord) /\ t.actions \in Seq(ActionRecord)
      BY StateFields
    <2>2. QED  BY <2>1, LenProperties DEF Tweeted
  <1>2. QED  BY <1>1 DEF Keeps, Tweeted, SameAction, Present, Full

\* What a state says of tweets, by the record or by the list of tweets.
LEMMA TweetFacts ==
  ASSUME NEW s, NEW id
  PROVE  <<"tweeted", id>> \in Facts(s) <=>
            \/ \E i \in DOMAIN s.actions : /\ s.actions[i].id = id /\ ~s.actions[i].dryRun
                                           /\ s.actions[i].tweeted
            \/ \E j \in DOMAIN s.tweets : s.tweets[j].about = id /\ s.tweets[j].status = "posted"
  BY DEF Facts

LEMMA ActionFacts ==
  ASSUME NEW s, NEW id
  PROVE  <<"action", id>> \in Facts(s) <=>
            \E i \in DOMAIN s.actions : s.actions[i].id = id /\ ~s.actions[i].dryRun
  BY DEF Facts

LEMMA FactKinds ==
  ASSUME NEW s, NEW fact \in Facts(s)
  PROVE  fact = <<"action", fact[2]>> \/ fact = <<"tweeted", fact[2]>>
  BY DEF Facts

LEMMA FactsDigested ==
  ASSUME NEW s \in AgentState, NEW last, Sound(s, last)
  PROVE  TweetsDigested(Facts(s), last)
  <1> SUFFICES ASSUME NEW fact \in Facts(s), fact[1] = "tweeted"
               PROVE  Digested(fact[2], last)
    BY DEF TweetsDigested
  <1>1. <<"tweeted", fact[2]>> \in Facts(s)
    BY FactKinds
  <1>2. CASE \E i \in DOMAIN s.actions : s.actions[i].id = fact[2] /\ ~s.actions[i].dryRun
    BY <1>2, EntryIdType DEF Sound, Digested
  <1>3. CASE \E j \in DOMAIN s.tweets : s.tweets[j].about = fact[2] /\ s.tweets[j].status = "posted"
    BY <1>3, EntryIdType DEF Sound, Digested
  <1>4. QED  BY <1>1, <1>2, <1>3, TweetFacts

LEMMA DigestedLater ==
  ASSUME NEW last \in Int, NEW next \in Int, last <= next
  PROVE  /\ \A id : Digested(id, last) => Digested(id, next)
         /\ \A facts : TweetsDigested(facts, last) => TweetsDigested(facts, next)
  BY DEF Digested, TweetsDigested

\* A sound state keeps what it says.
LEMMA KeepsFacts ==
  ASSUME NEW s, NEW facts, NEW last, Keeps(s, facts), Sound(s, last)
  PROVE  Keeps(s, facts \cup Facts(s))
  <1>1. ASSUME NEW fact \in Facts(s), fact[1] = "action"
        PROVE  Present(s, fact[2])
    <2>1. <<"action", fact[2]>> \in Facts(s)
      BY <1>1, FactKinds
    <2>2. QED  BY <2>1, ActionFacts DEF Present
  <1>2. ASSUME NEW i \in DOMAIN s.actions, <<"tweeted", s.actions[i].id>> \in Facts(s)
        PROVE  s.actions[i].tweeted
    <2>1. CASE \E j \in DOMAIN s.tweets :
                  s.tweets[j].about = s.actions[i].id /\ s.tweets[j].status = "posted"
      BY <2>1 DEF Sound
    <2>2. CASE \E j \in DOMAIN s.actions : s.actions[j].id = s.actions[i].id /\ s.actions[j].tweeted
      BY <2>2 DEF Sound
    <2>3. QED  BY <1>2, <2>1, <2>2, TweetFacts
  <1>3. QED  BY <1>1, <1>2 DEF Keeps

LEMMA KeepsFewer ==
  ASSUME NEW s, NEW facts, NEW fewer, fewer \subseteq facts, Keeps(s, facts)
  PROVE  Keeps(s, fewer)
  BY DEF Keeps

\* Nothing is said of old transactions that was not said before.
Ages(s, t, last) ==
    /\ Full(s) => Full(t)
    /\ \A d \in Nat : d <= last =>
          /\ Present(t, <<"tx", d>>) => Present(s, <<"tx", d>>)
          /\ <<"action", <<"tx", d>>>> \in Facts(t) => <<"action", <<"tx", d>>>> \in Facts(s)

LEMMA AgesNoted ==
  ASSUME NEW s, NEW t, NEW u, NEW last, Ages(s, t, last), Noted(t, u)
  PROVE  Ages(s, u, last)
  BY ActionFacts DEF Ages, Noted, Full, Present

LEMMA AgesRecorded ==
  ASSUME NEW s, NEW t, NEW record, NEW last \in Nat, Recorded(s, t, record), NewEntry(record, last)
  PROVE  Ages(s, t, last)
  <1>1. ASSUME NEW d \in Nat, d <= last
        PROVE  record.id # <<"tx", d>>
    <2>1. <<"tx", d>>[1] = "tx" /\ <<"tx", d>>[2] = d
      OBVIOUS
    <2>2. Digested(<<"tx", d>>, last)
      BY <1>1, <2>1 DEF Digested
    <2>3. QED  BY <2>2, NewEntryIs
  <1>2. \A d \in Nat : d <= last => (Present(t, <<"tx", d>>) => Present(s, <<"tx", d>>))
    BY <1>1 DEF Recorded, Present
  <1>3. \A d \in Nat : d <= last =>
           (<<"action", <<"tx", d>>>> \in Facts(t) => <<"action", <<"tx", d>>>> \in Facts(s))
    <2> SUFFICES ASSUME NEW d \in Nat, d <= last, <<"action", <<"tx", d>>>> \in Facts(t)
                 PROVE  <<"action", <<"tx", d>>>> \in Facts(s)
      OBVIOUS
    <2> DEFINE id == <<"tx", d>>
    <2>1. record.id # id
      BY <1>1
    <2> HIDE DEF id
    <2>2. PICK i \in DOMAIN t.actions : t.actions[i].id = id /\ ~t.actions[i].dryRun
      BY ActionFacts DEF id
    <2>3. \E j \in DOMAIN s.actions : t.actions[i] = s.actions[j]
      BY <2>1, <2>2 DEF Recorded
    <2>4. <<"action", id>> \in Facts(s)
      BY <2>2, <2>3, ActionFacts
    <2>5. QED  BY <2>4 DEF id
  <1>4. QED  BY <1>2, <1>3 DEF Ages, Recorded, Lasts

LEMMA AgesTweeted ==
  ASSUME NEW s \in AgentState, NEW t \in AgentState, NEW id, NEW status, NEW last, Tweeted(s, t, id, status)
  PROVE  Ages(s, t, last)
  <1>1. Len(t.actions) = Len(s.actions)
    <2>1. s.actions \in Seq(ActionRecord) /\ t.actions \in Seq(ActionRecord)
      BY StateFields
    <2>2. QED  BY <2>1, LenProperties DEF Tweeted
  <1>2. \A i \in DOMAIN t.actions : i \in DOMAIN s.actions /\ SameAction(t.actions[i], s.actions[i])
    BY DEF Tweeted
  <1>3. \A tx : Present(t, tx) => Present(s, tx)
    BY <1>2 DEF Present, SameAction
  <1>4. \A tx : <<"action", tx>> \in Facts(t) => <<"action", tx>> \in Facts(s)
    BY <1>2, ActionFacts DEF SameAction
  <1>5. QED  BY <1>1, <1>3, <1>4 DEF Ages, Full

-----------------------------------------------------------------------------
(* Type correctness.                                                       *)

ChainTypeOK ==
    /\ {shares, debt, limit} \subseteq [LendingProtocols -> Nat]
    /\ obligations \in Nat
    /\ landed \subseteq Transactions /\ IsFiniteSet(landed)

RunType ==
    [id : 0..MaxRuns, phase : {"idle", "guard", "saving", "model", "tools", "final"},
     round : 0..config.maxToolRounds, todo : Seq(LendingProtocols),
     borrows : BOOLEAN, last : {"none", "alert", "repaid"}]

StoreTypeOK == mem \in AgentState /\ {cache, pointer} \subseteq AgentState \cup {NoBlob}

LEMMA AgentTypeParts ==
  AgentTypeOK <=> /\ config \in Configs /\ run \in RunType /\ calls \in [Slots -> Calls]
                  /\ ChainTypeOK /\ reserveMap \in Nat \cup {NoContext} /\ StoreTypeOK
  BY DEF AgentTypeOK, RunType, ChainTypeOK, StoreTypeOK

\* The same of the next state.
TypeInParts ==
    config \in Configs /\ run \in RunType /\ calls \in [Slots -> Calls]
    /\ ChainTypeOK /\ reserveMap \in Nat \cup {NoContext} /\ StoreTypeOK

LEMMA TypeParts ==
  /\ AgentTypeOK => TypeInParts
  /\ TypeInParts' => AgentTypeOK'
  BY AgentTypeParts, PTL DEF TypeInParts

LEMMA ConfigType ==
  ASSUME NEW c \in Configs
  PROVE  /\ c.dryRun \in BOOLEAN /\ c.posting \in BOOLEAN /\ c.backend \in {"file", "walrus"}
         /\ c.minHealthFactor \in Int /\ c.maxToolRounds \in Nat
         /\ c.stateBlobId \in RestoredState \cup {NoBlob, Foreign}
         /\ c.borrowAsset \in STRING /\ c.requests \subseteq Request
         /\ c.prices \in [LendingProtocols -> SUBSET Nat] /\ c.looping \subseteq LendingProtocols
         /\ c.maxBorrowRaw \in Int
         /\ c.shares \in [LendingProtocols -> Nat] /\ c.debt \in [LendingProtocols -> Nat]
         /\ c.limit \in [LendingProtocols -> Nat]
  BY AgentAssumption DEF AppConfig

\* Rounding down never exceeds what it rounds.
LEMMA QuotientBound ==
  ASSUME NEW a \in Nat, NEW b \in Nat \ {0}, NEW c \in Nat, a <= b * c
  PROVE  a \div b \in Nat /\ a \div b <= c
  <1> DEFINE q == a \div b
  <1>1. q \in Nat /\ b * q <= a
    OBVIOUS
  <1> HIDE DEF q
  <1>2. b * q <= b * c
    <2>1. b * q \in Nat /\ b * c \in Nat
      BY <1>1
    <2>2. QED  BY <1>1, <2>1
  <1>3. ~(q >= c + 1)
    <2>1. SUFFICES ASSUME q >= c + 1
                   PROVE  FALSE
      OBVIOUS
    <2>2. b * q >= b * (c + 1)
      BY <1>1, <2>1
    <2>3. b * (c + 1) = b * c + b
      OBVIOUS
    <2>4. b * c \in Nat /\ b * q \in Nat
      BY <1>1
    <2>5. QED  BY <1>2, <2>2, <2>3, <2>4
  <1>4. QED  BY <1>1, <1>3 DEF q

\* A withdraw never redeems more shares than there are.
LEMMA RedeemedBound ==
  ASSUME ChainTypeOK, NEW p \in LendingProtocols, NEW amount \in Nat
  PROVE  Redeemed(p, amount) \in Nat /\ Redeemed(p, amount) <= shares[p]
  <1> DEFINE held == shares[p]
             deposited == held * UnitsPerShare
  <1>1. held \in Nat /\ UnitsPerShare \in Nat \ {0}
    BY ClientsAssumption DEF ChainTypeOK
  <1>2. deposited \in Nat
    BY <1>1
  <1>3. amount < deposited => /\ deposited \in Nat \ {0}
                              /\ amount * held \in Nat /\ amount * held <= deposited * held
    BY <1>1, <1>2
  <1>4. amount < deposited => /\ amount <= UnitsPerShare * held
    BY <1>1
  <1> HIDE DEF held
  <1>5. underlyingToCtokenValue(amount, held, deposited) \in 0..held
    <2>1. CASE amount >= deposited
      BY <1>1, <2>1 DEF underlyingToCtokenValue
    <2>2. CASE amount < deposited
      <3>1. (amount * held) \div deposited \in 0..held
        <4> HIDE DEF deposited
        <4>1. QED  BY <1>1, <1>2, <1>3, <2>2, QuotientBound
      <3>2. QED  BY <1>2, <2>2, <3>1 DEF underlyingToCtokenValue
    <2>3. QED  BY <1>2, <2>1, <2>2
  <1>6. underlyingToSCoinAmount(amount, held, deposited) \in 0..held
    <2>1. CASE deposited <= 0 \/ amount >= deposited
      BY <1>1, <2>1 DEF underlyingToSCoinAmount
    <2>2. CASE ~(deposited <= 0 \/ amount >= deposited)
      <3>1. (amount * held) \div deposited \in 0..held
        <4> HIDE DEF deposited
        <4>1. QED  BY <1>1, <1>2, <1>3, <2>2, QuotientBound
      <3>2. ~((amount * held) \div deposited > held)
        BY <1>1, <3>1
      <3>3. underlyingToSCoinAmount(amount, held, deposited) = (amount * held) \div deposited
        <4> HIDE DEF deposited
        <4>1. QED  BY <2>2, <3>2, Zenon DEF underlyingToSCoinAmount
      <3>4. QED  BY <3>1, <3>3
    <2>3. QED  BY <1>2, <2>1, <2>2
  <1>7. (IF amount >= deposited THEN held ELSE amount \div UnitsPerShare) \in 0..held
    <2>1. amount < deposited => amount \div UnitsPerShare \in 0..held
      BY <1>1, <1>4, QuotientBound
    <2>2. QED  BY <1>1, <1>2, <2>1
  <1>8. Redeemed(p, amount) \in {underlyingToCtokenValue(amount, held, deposited),
                                 underlyingToSCoinAmount(amount, held, deposited),
                                 IF amount >= deposited THEN held ELSE amount \div UnitsPerShare}
    BY DEF Redeemed, LendingProtocols, held
  <1>9. QED  BY <1>1, <1>5, <1>6, <1>7, <1>8 DEF held

LEMMA LandsType ==
  ASSUME ChainTypeOK, NEW kind \in ActionKinds, NEW p \in LendingProtocols, NEW amount \in Nat,
         NEW creates \in BOOLEAN, NEW tx \in Transactions, Lands(kind, p, amount, creates, tx)
  PROVE  ChainTypeOK'
  <1>1. /\ shares \in [LendingProtocols -> Nat] /\ debt \in [LendingProtocols -> Nat]
        /\ limit' = limit /\ limit \in [LendingProtocols -> Nat]
        /\ obligations' = obligations + (IF creates THEN 1 ELSE 0) /\ obligations \in Nat
        /\ landed' = landed \cup {tx} /\ landed \subseteq Transactions /\ IsFiniteSet(landed)
    BY DEF ChainTypeOK, Lands
  <1>2. debt' \in [LendingProtocols -> Nat]
    <2> DEFINE d == CASE kind = "borrow" -> debt[p] + amount
                      [] kind = "repay"  -> IF amount > debt[p] THEN 0 ELSE debt[p] - amount
                      [] OTHER           -> debt[p]
    <2>1. d \in Nat
      BY <1>1 DEF ActionKinds
    <2>2. debt' = [debt EXCEPT ![p] = d]
      BY Zenon DEF Lands
    <2> HIDE DEF d
    <2>3. QED  BY <1>1, <2>1, <2>2
  <1>3. shares' \in [LendingProtocols -> Nat]
    <2> DEFINE h == CASE kind = "supply"   -> shares[p] + amount \div UnitsPerShare
                      [] kind = "withdraw" -> shares[p] - Redeemed(p, amount)
                      [] OTHER             -> shares[p]
    <2>1. amount \div UnitsPerShare \in Nat
      BY ClientsAssumption
    <2>2. shares[p] \in Nat /\ Redeemed(p, amount) \in Nat /\ Redeemed(p, amount) <= shares[p]
      BY <1>1, RedeemedBound
    <2>3. h \in Nat
      BY <2>1, <2>2 DEF ActionKinds
    <2>4. shares' = [shares EXCEPT ![p] = h]
      BY Zenon DEF Lands
    <2> HIDE DEF h
    <2>5. QED  BY <1>1, <2>3, <2>4
  <1>4. obligations' \in Nat
    BY <1>1
  <1>5. landed' \subseteq Transactions /\ IsFiniteSet(landed')
    BY <1>1, FS_AddElement
  <1>6. QED  BY <1>1, <1>2, <1>3, <1>4, <1>5 DEF ChainTypeOK

LEMMA WeightedType ==
  ASSUME NEW p, NEW raw \in Nat
  PROVE  Weighted(p, raw) \in Nat
  BY ClientsAssumption DEF Weighted

LEMMA CountedType ==
  ASSUME NEW p, NEW amount \in Nat, NEW counted \in Counted(p, amount)
  PROVE  counted \in Nat
  BY DEF Counted

PositionsType ==
    [health : Nat \X Nat, obligation : BOOLEAN, borrows : Seq(Nat \cup {Unparsable})]

LEMMA PositionsAre ==
  ASSUME ChainTypeOK, reserveMap \in Nat \cup {NoContext}, NEW p \in LendingProtocols,
         NEW positions \in getPositions(p), positions # Failed
  PROVE  positions \in PositionsType
  <1>1. /\ debt[p] \in Nat /\ limit[p] \in Nat /\ limit["suilend"] \in Nat
        /\ SuilendLimit \in Nat
    BY DEF ChainTypeOK, LendingProtocols, SuilendLimit
  <1>2. NoPositions \in PositionsType
    BY DEF NoPositions, Infinite, PositionsType
  <1>3. ASSUME NEW amount \in Nat \cup {Unparsable}, NEW raw \in Nat
        PROVE  Borrow(amount, raw) \in Seq(Nat \cup {Unparsable})
    <2>1. <<>> \in Seq(Nat \cup {Unparsable}) /\ <<amount>> \in Seq(Nat \cup {Unparsable})
      OBVIOUS
    <2>2. QED  BY <2>1, Zenon DEF Borrow
  <1>4. \A health \in Nat \X Nat, obligation \in BOOLEAN, borrows \in Seq(Nat \cup {Unparsable}) :
           [health |-> health, obligation |-> obligation, borrows |-> borrows] \in PositionsType
    BY DEF PositionsType
  <1>5. CASE p = "suilend"
    <2>1. positions \in SuilendPositions
      BY <1>5 DEF getPositions
    <2> DEFINE coins == (2 * debt["suilend"] + UnitsPerCoin) \div (2 * UnitsPerCoin)
    <2>2. coins \in Nat
      BY <1>1, <1>5, ClientsAssumption
    <2>3. Borrow(coins, debt["suilend"]) \in Seq(Nat \cup {Unparsable})
      BY <1>1, <1>3, <1>5, <2>2
    <2>4. toObligationResponse(debt["suilend"]) =
             [health |-> <<SuilendLimit, Weighted("suilend", debt["suilend"])>>, obligation |-> TRUE,
              borrows |-> Borrow(coins, debt["suilend"])]
      BY Zenon DEF toObligationResponse
    <2> HIDE DEF coins
    <2>5. toObligationResponse(debt["suilend"]) \in PositionsType
      <3>1. Weighted("suilend", debt["suilend"]) \in Nat
        BY <1>1, <1>5, WeightedType
      <3>2. <<SuilendLimit, Weighted("suilend", debt["suilend"])>> \in Nat \X Nat
        BY <1>1, <3>1
      <3>3. QED  BY <1>4, <2>3, <2>4, <3>2
    <2>6. QED  BY <1>2, <2>1, <2>5 DEF SuilendPositions
  <1>6. CASE p = "navi"
    <2>1. positions \in NaviPositions
      BY <1>6 DEF getPositions
    <2>2. debt["navi"] * NaviPrecision \in Nat
      BY <1>1, <1>6, ClientsAssumption
    <2>3. Borrow(debt["navi"] * NaviPrecision, debt["navi"]) \in Seq(Nat \cup {Unparsable})
      BY <1>1, <1>3, <1>6, <2>2
    <2>4. PICK health \in {<<limit["navi"], debt["navi"]>>, Infinite} :
             positions = [health |-> health, obligation |-> FALSE,
                          borrows |-> Borrow(debt["navi"] * NaviPrecision, debt["navi"])]
      BY <2>1 DEF NaviPositions
    <2>5. health \in Nat \X Nat
      BY <1>1, <1>6 DEF Infinite
    <2>6. QED  BY <1>4, <2>3, <2>4, <2>5
  <1>7. CASE p = "scallop"
    <2> DEFINE coins == IF debt["scallop"] % UnitsPerCoin = 0
                        THEN debt["scallop"] \div UnitsPerCoin ELSE Unparsable
    <2>1. positions \in {NoPositions,
             [health |-> <<limit["scallop"], debt["scallop"]>>, obligation |-> TRUE,
              borrows |-> Borrow(coins, debt["scallop"])]}
      BY <1>7, Zenon DEF getPositions, ScallopPositions
    <2>2. coins \in Nat \cup {Unparsable}
      BY <1>1, <1>7, ClientsAssumption
    <2> HIDE DEF coins
    <2>3. Borrow(coins, debt["scallop"]) \in Seq(Nat \cup {Unparsable})
      BY <1>1, <1>3, <1>7, <2>2
    <2>4. [health |-> <<limit["scallop"], debt["scallop"]>>, obligation |-> TRUE,
           borrows |-> Borrow(coins, debt["scallop"])] \in PositionsType
      BY <1>1, <1>4, <1>7, <2>3
    <2>5. QED  BY <1>2, <2>1, <2>4
  <1>8. QED  BY <1>5, <1>6, <1>7 DEF LendingProtocols

LEMMA SimulatedType ==
  ASSUME ChainTypeOK, NEW p \in LendingProtocols, NEW positions \in PositionsType,
         NEW counted \in Nat, NEW projected \in Simulated(p, positions, counted)
  PROVE  projected \in Nat \X Nat
  <1>1. /\ limit["navi"] \in Nat /\ debt["navi"] \in Nat
        /\ positions.health \in Nat \X Nat
    BY DEF ChainTypeOK, LendingProtocols, PositionsType
  <1>2. positions.health[1] \in Nat /\ positions.health[2] \in Nat
    BY <1>1
  <1>3. QED
    BY <1>1, <1>2
    DEF Simulated, OverPositions, NaviSimulated

LEMMA TransactionType ==
  ASSUME AgentTypeOK, NEW kind \in ActionKinds, NEW p \in LendingProtocols,
         NEW asset \in STRING, NEW creates \in BOOLEAN
  PROVE  /\ Transaction(kind, p, asset, creates) \in Transactions
         /\ Transaction(kind, p, asset, creates).digest = Last + 1
         /\ Last \in Nat
  <1>1. Last \in Nat
    BY FS_CardinalityType DEF AgentTypeOK, Last
  <1>2. run.id \in Nat /\ run.round \in Nat
    BY AgentAssumption, ConfigType DEF AgentTypeOK
  <1>3. resolveCoinType(asset) \in STRING
    BY ClientsAssumption DEF resolveCoinType
  <1>4. QED  BY <1>1, <1>2, <1>3 DEF Transaction, Transactions, Last

LEMMA ActionTypes ==
  ASSUME AgentTypeOK, NEW p \in LendingProtocols, NEW asset \in STRING
  PROVE  /\ RepayAction(p, asset) \in ActionInput
         /\ \A r \in Request : WriteAction(r) \in ActionInput
  <1>1. Last \in Nat /\ run.id \in Nat /\ config.dryRun \in BOOLEAN
    BY FS_CardinalityType, AgentAssumption, ConfigType DEF AgentTypeOK, Last
  <1>2. "repay" \in ActionKinds
    BY DEF ActionKinds
  <1>3. RepayAction(p, asset) \in ActionInput
    BY <1>1, <1>2 DEF RepayAction, ActionInput, Last
  <1>4. \A r \in Request : WriteAction(r) \in ActionInput
    BY <1>1 DEF WriteAction, ActionInput, Last, Request
  <1>5. QED  BY <1>3, <1>4

\* What a turn of the guard does: nothing, an alert, or a repay that landed.
GuardPassed ==
    /\ \E seen \in BOOLEAN :
          /\ run.borrows => seen
          /\ run' = [[run EXCEPT !.todo = Tail(@)] EXCEPT !.borrows = seen]
    /\ UNCHANGED <<storeVars, chainVars, mem>>

GuardAnswered(verdict) ==
    run' = [[[[run EXCEPT !.todo = Tail(@)] EXCEPT !.borrows = TRUE] EXCEPT !.last = verdict]
              EXCEPT !.phase = IF verdict = "repaid" THEN "saving" ELSE "guard"]

RepayLands(p, amount) ==
    /\ ~config.dryRun
    /\ Lands("repay", p, amount, FALSE, Transaction("repay", p, config.borrowAsset, FALSE))

GuardAlerts(p, amount) ==
    /\ \E m \in {mem, recordPositionAction(mem, RepayAction(p, config.borrowAsset), TRUE)} :
          /\ m # mem => config.dryRun
          /\ mem' = queueHealthAlert(m, p)
    /\ cache' = mem' /\ pointer' = pointer
    /\ RepayLands(p, amount) \/ UNCHANGED chainVars

GuardRepays(p, amount) ==
    /\ RepayLands(p, amount)
    /\ mem' = clearHealthAlert(recordPositionAction(mem, RepayAction(p, config.borrowAsset), TRUE))
    /\ cache' = mem' /\ pointer' = pointer

LEMMA RepayCriticalIs ==
  ASSUME NEW p, NEW positions \in PositionsType, positions.borrows # <<>>, NEW verdict,
         repayCritical(p, positions, verdict)
  PROVE  \E amount \in Nat :
            \/ verdict = "alert" /\ GuardAlerts(p, amount)
            \/ verdict = "repaid" /\ GuardRepays(p, amount)
  <1> DEFINE amount  == Head(positions.borrows)
             refused == ~evaluateLendingWrite("repay", p, config.borrowAsset, amount, Infinite, config)
             tx      == Transaction("repay", p, config.borrowAsset, FALSE)
             record  == RepayAction(p, config.borrowAsset)
  <1>1. amount \in Nat \cup {Unparsable}
    BY HeadTailProperties DEF PositionsType
  <1>2. ~refused => amount \in Nat
    BY <1>1 DEF evaluateLendingWrite, Bounds
  <1>3. \/ /\ refused /\ ~config.dryRun /\ verdict = "alert"
           /\ Alert(p)
           /\ UNCHANGED chainVars
        \/ /\ config.dryRun /\ verdict = "alert"
           /\ mem' = queueHealthAlert(recordPositionAction(mem, record, TRUE), p)
           /\ saveAgentState(mem')
           /\ UNCHANGED <<pointer, chainVars>>
        \/ /\ ~refused /\ ~config.dryRun /\ verdict = "repaid"
           /\ Builds("repay", p, positions)
           /\ signAndExecute("repay", p, amount, FALSE, tx, "digest")
           /\ mem' = clearHealthAlert(recordPositionAction(mem, record, TRUE))
           /\ saveAgentState(mem')
           /\ UNCHANGED pointer
        \/ /\ ~refused /\ ~config.dryRun /\ verdict = "alert"
           /\ signAndExecute("repay", p, amount, FALSE, tx, "threw")
           /\ Alert(p)
    BY Zenon DEF repayCritical
  <1> HIDE DEF amount, refused
  <1>4. CASE refused /\ ~config.dryRun /\ verdict = "alert" /\ Alert(p) /\ UNCHANGED chainVars
    <2>1. GuardAlerts(p, 0)
      BY <1>4 DEF GuardAlerts, Alert, saveAgentState
    <2>2. QED  BY <1>4, <2>1
  <1>5. CASE /\ config.dryRun /\ verdict = "alert"
             /\ mem' = queueHealthAlert(recordPositionAction(mem, record, TRUE), p)
             /\ saveAgentState(mem')
             /\ UNCHANGED <<pointer, chainVars>>
    <2>1. GuardAlerts(p, 0)
      BY <1>5 DEF GuardAlerts, saveAgentState
    <2>2. QED  BY <1>5, <2>1
  <1>6. CASE /\ ~refused /\ ~config.dryRun /\ verdict = "repaid"
             /\ signAndExecute("repay", p, amount, FALSE, tx, "digest")
             /\ mem' = clearHealthAlert(recordPositionAction(mem, record, TRUE))
             /\ saveAgentState(mem')
             /\ UNCHANGED pointer
    <2>1. RepayLands(p, amount)
      BY <1>6 DEF signAndExecute, RepayLands
    <2>2. GuardRepays(p, amount)
      BY <1>6, <2>1 DEF GuardRepays, saveAgentState
    <2>3. QED  BY <1>2, <1>6, <2>2
  <1>7. CASE /\ ~refused /\ ~config.dryRun /\ verdict = "alert"
             /\ signAndExecute("repay", p, amount, FALSE, tx, "threw")
             /\ Alert(p)
    <2>1. RepayLands(p, amount) \/ UNCHANGED chainVars
      BY <1>7 DEF signAndExecute, RepayLands
    <2>2. GuardAlerts(p, amount)
      BY <1>7, <2>1 DEF GuardAlerts, Alert, saveAgentState
    <2>3. QED  BY <1>2, <1>7, <2>2
  <1>8. QED  BY <1>3, <1>4, <1>5, <1>6, <1>7

LEMMA GuardProtocolIs ==
  ASSUME AgentTypeOK, GuardProtocol
  PROVE  /\ run.phase = "guard" /\ config' = config /\ reserveMap' \in Nat \cup {NoContext}
         /\ \/ GuardPassed
            \/ \E p \in LendingProtocols, amount \in Nat :
                  \/ GuardAnswered("alert") /\ GuardAlerts(p, amount)
                  \/ GuardAnswered("repaid") /\ GuardRepays(p, amount)
  <1> DEFINE p    == Head(run.todo)
             rest == [run EXCEPT !.todo = Tail(@)]
  <1>1. run.phase = "guard" /\ run.todo # <<>> /\ config' = config
    BY DEF GuardProtocol
  <1>2. p \in LendingProtocols
    BY <1>1, HeadTailProperties DEF AgentTypeOK
  <1>3. PICK positions \in getPositions(p) :
           /\ IF positions # Failed THEN getContext(p) ELSE UNCHANGED reserveMap
           /\ \/ /\ ~(positions # Failed /\ evaluateHealthGuard(positions, config))
                 /\ run' = [rest EXCEPT !.borrows = @ \/ (positions # Failed /\ positions.borrows # <<>>)]
                 /\ UNCHANGED <<storeVars, chainVars, mem>>
              \/ \E verdict \in {"alert", "repaid"} :
                    /\ positions # Failed /\ evaluateHealthGuard(positions, config)
                    /\ run' = [[[rest EXCEPT !.borrows = TRUE] EXCEPT !.last = verdict]
                                 EXCEPT !.phase = IF verdict = "repaid" THEN "saving" ELSE "guard"]
                    /\ repayCritical(p, positions, verdict)
    BY Zenon DEF GuardProtocol
  <1>4. ChainTypeOK /\ reserveMap \in Nat \cup {NoContext} /\ run \in RunType
    BY AgentTypeParts
  <1>5. reserveMap' \in Nat \cup {NoContext}
    <2>1. SuilendLimit \in Nat
      BY <1>4 DEF SuilendLimit, ChainTypeOK, LendingProtocols
    <2>2. QED  BY <1>3, <1>4, <2>1 DEF getContext
  <1> HIDE DEF p
  <1>6. CASE /\ run' = [rest EXCEPT !.borrows = @ \/ (positions # Failed /\ positions.borrows # <<>>)]
             /\ UNCHANGED <<storeVars, chainVars, mem>>
    <2> DEFINE seen == run.borrows \/ (positions # Failed /\ positions.borrows # <<>>)
    <2>1. run.borrows \in BOOLEAN
      BY <1>4 DEF RunType
    <2>2. seen \in BOOLEAN /\ (run.borrows => seen)
      BY <2>1
    <2>3. rest.borrows = run.borrows
      BY <1>4 DEF RunType
    <2>4. run' = [rest EXCEPT !.borrows = seen]
      BY <1>6, <2>3
    <2> HIDE DEF seen
    <2>5. GuardPassed
      BY <1>6, <2>2, <2>4 DEF GuardPassed
    <2>6. QED  BY <1>1, <1>5, <2>5
  <1>7. ASSUME NEW verdict \in {"alert", "repaid"},
               positions # Failed, evaluateHealthGuard(positions, config),
               run' = [[[rest EXCEPT !.borrows = TRUE] EXCEPT !.last = verdict]
                         EXCEPT !.phase = IF verdict = "repaid" THEN "saving" ELSE "guard"],
               repayCritical(p, positions, verdict)
        PROVE  \E q \in LendingProtocols, amount \in Nat :
                  \/ GuardAnswered("alert") /\ GuardAlerts(q, amount)
                  \/ GuardAnswered("repaid") /\ GuardRepays(q, amount)
    <2>1. positions \in PositionsType
      BY <1>2, <1>3, <1>4, <1>7, PositionsAre
    <2>2. positions.borrows # <<>>
      BY <1>7 DEF evaluateHealthGuard
    <2>3. GuardAnswered(verdict)
      BY <1>7 DEF GuardAnswered
    <2>4. PICK amount \in Nat :
             \/ verdict = "alert" /\ GuardAlerts(p, amount)
             \/ verdict = "repaid" /\ GuardRepays(p, amount)
      BY <1>7, <2>1, <2>2, RepayCriticalIs
    <2>5. QED  BY <1>2, <2>3, <2>4
  <1>8. QED  BY <1>1, <1>3, <1>5, <1>6, <1>7

LEMMA NextBlobIs ==
  /\ NextBlob(config.backend, config.stateBlobId) = BlobAt(pointer)
  /\ config' = config => NextBlob(config.backend, config.stateBlobId)' = BlobAt(pointer')
  BY DEF BlobAt, NextBlob, resolveBlobId, normalizeAgentState

\* What a run starts from: the blob it names, or the file.
StartsFrom(s) ==
    /\ s \in AgentState /\ mem' = beginRun(s, run.id + 1) /\ pointer' = pointer
    /\ \/ s = BlobAt(pointer) /\ s # NoBlob /\ cache' = s
       \/ s = loadAgentState /\ cache' = cache

LEMMA StartRunIs ==
  ASSUME AgentTypeOK, StartRun
  PROVE  /\ run.phase = "idle" /\ run.id < MaxRuns /\ \E s : StartsFrom(s)
         /\ run' = [[[NoRun EXCEPT !.id = run.id + 1] EXCEPT !.phase = "guard"] EXCEPT !.todo = Enabled]
         /\ UNCHANGED <<chainVars, reserveMap, config, calls, cooled, posts, promises>>
  <1>1. PICK s \in {loadAgentState, resolveBlobId(config.stateBlobId)} \ {NoBlob, Foreign} :
           load(s, config.backend, config.stateBlobId) /\ mem' = beginRun(s, run.id + 1)
    BY DEF StartRun
  <1>2. config.stateBlobId \in AgentState \cup {NoBlob, Foreign}
    BY ConfigType DEF AgentTypeOK, RestoredState
  <1>3. {loadAgentState, resolveBlobId(config.stateBlobId)} \subseteq AgentState \cup {NoBlob, Foreign}
    BY <1>2, EmptyState
    DEF AgentTypeOK, loadAgentState, resolveBlobId, normalizeAgentState
  <1>4. s \in AgentState
    BY <1>1, <1>3
  <1>6. StartsFrom(s)
    BY <1>1, <1>4, NextBlobIs DEF load, LoadBlob, LoadCache, storeVars, StartsFrom
  <1>7. QED  BY <1>6 DEF StartRun, Tick

LEMMA EnabledType == Enabled \in Seq(LendingProtocols)
  <1> DEFINE IfOn(p) == IF config.enabled /\ p \in config.protocols \cap config.allowedProtocols
                        THEN <<p>> ELSE <<>>
  <1>1. ASSUME NEW p \in LendingProtocols
        PROVE  IfOn(p) \in Seq(LendingProtocols)
    <2>1. <<p>> \in Seq(LendingProtocols) /\ <<>> \in Seq(LendingProtocols)
      OBVIOUS
    <2>2. QED  BY <2>1, Zenon
  <1>2. Enabled = IfOn("suilend") \o IfOn("navi") \o IfOn("scallop")
    BY Zenon DEF Enabled
  <1> HIDE DEF IfOn
  <1>3. {"suilend", "navi", "scallop"} = LendingProtocols
    BY DEF LendingProtocols
  <1>4. /\ IfOn("suilend") \in Seq(LendingProtocols) /\ IfOn("navi") \in Seq(LendingProtocols)
        /\ IfOn("scallop") \in Seq(LendingProtocols)
    BY <1>1, <1>3
  <1>5. QED  BY <1>2, <1>4, ConcatProperties

LEMMA CallTypes ==
  ASSUME NEW c \in Calls
  PROVE  /\ c.pc \in {"free", "preparing", "executing", "posting", "saving"}
         /\ c.pc \in {"preparing", "executing"} => c.request \in Request
         /\ c.pc = "executing" => /\ c.projected \in Nat \X Nat /\ c.counted \in Nat
                                  /\ c.seen \in Nat /\ c.creates \in BOOLEAN
         /\ c.pc = "posting" => c.id \in ActionIds
         /\ c.pc = "saving" => c.blob \in AgentState
  BY DEF Calls, NoCall

LEMMA NoRunType ==
  ASSUME run \in RunType, config \in Configs
  PROVE  [NoRun EXCEPT !.id = run.id] \in RunType
  <1>1. config.maxToolRounds \in Nat
    BY ConfigType
  <1>2. NoRun \in RunType
    <2>1. <<>> \in Seq(LendingProtocols)
      OBVIOUS
    <2>2. QED  BY <1>1, <2>1, AgentAssumption DEF NoRun, RunType
  <1>3. run.id \in 0..MaxRuns
    BY DEF RunType
  <1>4. QED  BY <1>2, <1>3 DEF RunType

LEMMA StartRunType == AgentTypeOK /\ StartRun => AgentTypeOK'
  <1> SUFFICES ASSUME AgentTypeOK, StartRun
               PROVE  AgentTypeOK'
    OBVIOUS
  <1>1. /\ run.id < MaxRuns /\ run.id \in 0..MaxRuns /\ MaxRuns \in Nat
        /\ run' = [[[NoRun EXCEPT !.id = run.id + 1] EXCEPT !.phase = "guard"] EXCEPT !.todo = Enabled]
        /\ UNCHANGED <<chainVars, reserveMap, config, calls>>
    BY StartRunIs, AgentAssumption DEF AgentTypeOK
  <1>2. config.maxToolRounds \in Nat
    BY ConfigType DEF AgentTypeOK
  <1>3. run' \in RunType'
    <2>1. [NoRun EXCEPT !.id = run.id] \in RunType
      BY AgentTypeParts, NoRunType
    <2>2. [NoRun EXCEPT !.id = run.id + 1] \in RunType
      BY <1>1, <2>1 DEF RunType, NoRun
    <2>3. run' \in RunType
      BY <1>1, <2>2, EnabledType DEF RunType
    <2>4. QED  BY <1>1, <2>3 DEF RunType
  <1>4. PICK s : StartsFrom(s)
    BY StartRunIs
  <1>5. StoreTypeOK'
    <2>1. mem' \in AgentState
      BY <1>1, <1>4, BeginRunIs DEF StartsFrom
    <2>2. QED  BY <1>4, <2>1, AgentTypeParts DEF StartsFrom, StoreTypeOK
  <1>6. ChainTypeOK'
    BY <1>1, AgentTypeParts DEF ChainTypeOK, chainVars
  <1>7. /\ config' \in Configs /\ calls' \in [Slots -> Calls] /\ reserveMap' \in Nat \cup {NoContext}
    BY <1>1, AgentTypeParts
  <1>8. QED  BY <1>3, <1>5, <1>6, <1>7, TypeParts DEF TypeInParts

LEMMA RepayLandsType ==
  ASSUME AgentTypeOK, NEW p \in LendingProtocols, NEW amount \in Nat, RepayLands(p, amount)
  PROVE  ChainTypeOK'
  <1>1. ChainTypeOK /\ config.borrowAsset \in STRING /\ "repay" \in ActionKinds /\ FALSE \in BOOLEAN
    BY AgentTypeParts, ConfigType DEF ActionKinds
  <1>2. Transaction("repay", p, config.borrowAsset, FALSE) \in Transactions
    BY <1>1, TransactionType
  <1>3. Lands("repay", p, amount, FALSE, Transaction("repay", p, config.borrowAsset, FALSE))
    BY DEF RepayLands
  <1>4. QED  BY <1>1, <1>2, <1>3, LandsType

LEMMA RepayRecordType ==
  ASSUME AgentTypeOK, NEW p \in LendingProtocols
  PROVE  recordPositionAction(mem, RepayAction(p, config.borrowAsset), TRUE) \in AgentState
  BY ActionTypes, ConfigType, RecordPositionActionIs DEF AgentTypeOK

LEMMA RunTurnType ==
  ASSUME run \in RunType, run.todo # <<>>, NEW seen \in BOOLEAN, NEW last \in {"none", "alert", "repaid"}
  PROVE  /\ [[run EXCEPT !.todo = Tail(@)] EXCEPT !.borrows = seen] \in RunType
         /\ \A phase \in {"guard", "saving"} :
               [[[[run EXCEPT !.todo = Tail(@)] EXCEPT !.borrows = seen] EXCEPT !.last = last]
                  EXCEPT !.phase = phase] \in RunType
  <1>1. Tail(run.todo) \in Seq(LendingProtocols)
    BY HeadTailProperties DEF RunType
  <1>2. [run EXCEPT !.todo = Tail(@)] \in RunType
    BY <1>1 DEF RunType
  <1>3. [[run EXCEPT !.todo = Tail(@)] EXCEPT !.borrows = seen] \in RunType
    BY <1>2 DEF RunType
  <1>4. [[[run EXCEPT !.todo = Tail(@)] EXCEPT !.borrows = seen] EXCEPT !.last = last] \in RunType
    BY <1>3 DEF RunType
  <1>5. QED  BY <1>3, <1>4 DEF RunType

LEMMA GuardProtocolType == AgentTypeOK /\ GuardProtocol /\ calls' = calls => AgentTypeOK'
  <1> SUFFICES ASSUME AgentTypeOK, GuardProtocol, calls' = calls
               PROVE  AgentTypeOK'
    OBVIOUS
  <1>1. TypeInParts /\ config' = config /\ reserveMap' \in Nat \cup {NoContext} /\ run.todo # <<>>
    BY TypeParts, GuardProtocolIs DEF GuardProtocol
  <1>2. RunType' = RunType
    BY <1>1 DEF RunType
  <1>3. CASE GuardPassed
    <2>1. run' \in RunType
      BY <1>1, <1>3, RunTurnType DEF GuardPassed, TypeInParts
    <2>2. ChainTypeOK' /\ StoreTypeOK'
      BY <1>1, <1>3 DEF GuardPassed, TypeInParts, ChainTypeOK, StoreTypeOK, chainVars, storeVars
    <2>3. QED  BY <1>1, <1>2, <2>1, <2>2, TypeParts DEF TypeInParts
  <1>4. ASSUME NEW p \in LendingProtocols, NEW amount \in Nat,
               GuardAnswered("alert"), GuardAlerts(p, amount)
        PROVE  AgentTypeOK'
    <2>1. run' \in RunType
      BY <1>1, <1>4, RunTurnType DEF GuardAnswered, TypeInParts
    <2>2. mem' \in AgentState /\ cache' = mem' /\ pointer' = pointer
      <3>1. PICK m \in {mem, recordPositionAction(mem, RepayAction(p, config.borrowAsset), TRUE)} :
               mem' = queueHealthAlert(m, p)
        BY <1>4 DEF GuardAlerts
      <3>2. m \in AgentState
        BY RepayRecordType DEF AgentTypeOK
      <3>3. QED  BY <1>4, <3>1, <3>2, QueueHealthAlertIs DEF GuardAlerts
    <2>3. StoreTypeOK'
      BY <1>1, <2>2 DEF StoreTypeOK, TypeInParts
    <2>4. ChainTypeOK'
      <3>1. RepayLands(p, amount) \/ UNCHANGED chainVars
        BY <1>4 DEF GuardAlerts
      <3>2. UNCHANGED chainVars => ChainTypeOK'
        BY <1>1 DEF TypeInParts, ChainTypeOK, chainVars
      <3>3. QED  BY <3>1, <3>2, RepayLandsType
    <2>5. QED  BY <1>1, <1>2, <1>4, <2>1, <2>3, <2>4, TypeParts DEF TypeInParts
  <1>5. ASSUME NEW p \in LendingProtocols, NEW amount \in Nat,
               GuardAnswered("repaid"), GuardRepays(p, amount)
        PROVE  AgentTypeOK'
    <2>1. run' \in RunType
      BY <1>1, <1>5, RunTurnType DEF GuardAnswered, TypeInParts
    <2>2. mem' \in AgentState /\ cache' = mem' /\ pointer' = pointer
      BY <1>5, RepayRecordType, ClearHealthAlertIs DEF GuardRepays
    <2>3. StoreTypeOK'
      BY <1>1, <2>2 DEF StoreTypeOK, TypeInParts
    <2>4. ChainTypeOK'
      BY <1>5, RepayLandsType DEF GuardRepays
    <2>5. QED  BY <1>1, <1>2, <1>5, <2>1, <2>3, <2>4, TypeParts DEF TypeInParts
  <1>6. QED  BY <1>3, <1>4, <1>5, GuardProtocolIs

\* The upload of the repay's save, or its failure.
GuardUploads == cache' = cache /\ (pointer' = pointer \/ (config.backend = "walrus" /\ pointer' = mem))

LEMMA GuardSavedIs ==
  ASSUME GuardSaved
  PROVE  /\ run.phase = "saving" /\ run' = [run EXCEPT !.phase = "guard"] /\ GuardUploads
         /\ UNCHANGED <<chainVars, reserveMap, config, mem>>
  BY DEF GuardSaved, GuardUploads, Uploaded, storeVars

LEMMA GuardSavedType == AgentTypeOK /\ GuardSaved /\ calls' = calls => AgentTypeOK'
  <1> SUFFICES ASSUME AgentTypeOK, GuardSaved, calls' = calls
               PROVE  AgentTypeOK'
    OBVIOUS
  <1>1. TypeInParts /\ UNCHANGED <<chainVars, reserveMap, config, mem>>
    BY TypeParts, GuardSavedIs
  <1>2. run' \in RunType'
    BY <1>1, GuardSavedIs DEF TypeInParts, RunType
  <1>3. StoreTypeOK'
    BY <1>1, GuardSavedIs DEF TypeInParts, StoreTypeOK, GuardUploads
  <1>4. ChainTypeOK'
    BY <1>1 DEF TypeInParts, ChainTypeOK, chainVars
  <1>5. QED  BY <1>1, <1>2, <1>3, <1>4, TypeParts DEF TypeInParts

\* When the pass ends, an alert is cleared or nothing is.
LEMMA GuardEndsIs ==
  ASSUME GuardEnds
  PROVE  /\ run.phase = "guard" /\ run' = [run EXCEPT !.phase = "model"]
         /\ mem' = mem \/ (~run.borrows /\ mem' = clearHealthAlert(mem))
         /\ UNCHANGED <<storeVars, chainVars, reserveMap, config>>
  BY DEF GuardEnds

LEMMA GuardEndsType == AgentTypeOK /\ GuardEnds /\ calls' = calls => AgentTypeOK'
  <1> SUFFICES ASSUME AgentTypeOK, GuardEnds, calls' = calls
               PROVE  AgentTypeOK'
    OBVIOUS
  <1>1. TypeInParts /\ UNCHANGED <<storeVars, chainVars, reserveMap, config>>
    BY TypeParts, GuardEndsIs
  <1>2. run' \in RunType'
    BY <1>1, GuardEndsIs DEF TypeInParts, RunType
  <1>3. StoreTypeOK'
    BY <1>1, GuardEndsIs, ClearHealthAlertIs DEF TypeInParts, StoreTypeOK, storeVars
  <1>4. ChainTypeOK'
    BY <1>1 DEF TypeInParts, ChainTypeOK, chainVars
  <1>5. QED  BY <1>1, <1>2, <1>3, <1>4, TypeParts DEF TypeInParts

\* What a call of the model starts as.
StartedAs(c) ==
    \/ c = NoCall
    \/ /\ c.pc = "preparing" /\ c = [pc |-> "preparing", request |-> c.request]
       /\ c.request \in config.requests /\ LendingGate(c.request)
    \/ /\ c.pc = "posting" /\ c = [pc |-> "posting", id |-> c.id]
       /\ PostTarget(c.id) /\ \E i \in DOMAIN mem.actions : c.id = mem.actions[i].id

LEMMA ModelCallsIs ==
  ASSUME ModelCalls
  PROVE  /\ run.phase = "model" /\ run.round < config.maxToolRounds
         /\ run' = [[run EXCEPT !.phase = "tools"] EXCEPT !.round = @ + 1]
         /\ calls' = [s \in Slots |-> calls'[s]]
         /\ \A s \in Slots : StartedAs(calls'[s])
         /\ UNCHANGED <<storeVars, chainVars, reserveMap, config, mem, cooled, posts, promises>>
  <1>1. PICK ops \in [Slots -> Operations] : calls' = [s \in Slots |-> Started(ops[s])]
    BY DEF ModelCalls
  <1>2. ASSUME NEW op \in Operations
        PROVE  StartedAs(Started(op))
    <2>1. CASE op.tool = "write" /\ Offered(op.request) /\ LendingGate(op.request)
      <3>1. op.request \in config.requests
        BY <2>1 DEF Operations
      <3>2. Started(op) = [pc |-> "preparing", request |-> op.request]
        BY <2>1 DEF Started
      <3>3. QED  BY <2>1, <3>1, <3>2 DEF StartedAs
    <2>2. CASE ~(op.tool = "write" /\ Offered(op.request) /\ LendingGate(op.request))
      <3>1. CASE op.tool = "post" /\ PostTarget(op.id)
        <4>1. \E i \in DOMAIN mem.actions : op.id = mem.actions[i].id
          BY <3>1 DEF Operations
        <4>2. Started(op) = [pc |-> "posting", id |-> op.id]
          BY <2>2, <3>1 DEF Started
        <4>3. QED  BY <3>1, <4>1, <4>2 DEF StartedAs
      <3>2. CASE ~(op.tool = "post" /\ PostTarget(op.id))
        <4>1. Started(op) = NoCall
          BY <2>2, <3>2 DEF Started
        <4>2. QED  BY <4>1 DEF StartedAs
      <3>3. QED  BY <3>1, <3>2
    <2>3. QED  BY <2>1, <2>2
  <1>3. \A s \in Slots : calls'[s] = Started(ops[s]) /\ ops[s] \in Operations
    BY <1>1
  <1>4. \A s \in Slots : StartedAs(calls'[s])
    BY <1>2, <1>3
  <1>5. calls' = [s \in Slots |-> calls'[s]]
    BY <1>1
  <1>6. QED  BY <1>4, <1>5 DEF ModelCalls

LEMMA StartedType ==
  ASSUME AgentTypeOK, NEW c, StartedAs(c)
  PROVE  c \in Calls
  <1>1. \A i \in DOMAIN mem.actions : mem.actions[i].id \in ActionIds
    BY EntryIdType DEF AgentTypeOK
  <1>2. config.requests \subseteq Request
    BY ConfigType DEF AgentTypeOK
  <1>3. CASE c = NoCall
    BY <1>3 DEF Calls
  <1>4. CASE c = [pc |-> "preparing", request |-> c.request] /\ c.request \in config.requests
    <2>1. \A r \in Request : [pc |-> "preparing", request |-> r] \in Calls
      BY DEF Calls
    <2>2. QED  BY <1>2, <1>4, <2>1
  <1>5. CASE c = [pc |-> "posting", id |-> c.id] /\ \E i \in DOMAIN mem.actions : c.id = mem.actions[i].id
    <2>1. \A id \in ActionIds : [pc |-> "posting", id |-> id] \in Calls
      BY DEF Calls
    <2>2. QED  BY <1>1, <1>5, <2>1
  <1>6. QED  BY <1>3, <1>4, <1>5 DEF StartedAs

LEMMA ModelCallsType == AgentTypeOK /\ ModelCalls => AgentTypeOK'
  <1> SUFFICES ASSUME AgentTypeOK, ModelCalls
               PROVE  AgentTypeOK'
    OBVIOUS
  <1>1. TypeInParts /\ UNCHANGED <<storeVars, chainVars, reserveMap, config, mem>>
    BY TypeParts, ModelCallsIs
  <1>2. run' \in RunType'
    <2>1. run \in RunType /\ config' = config /\ config.maxToolRounds \in Nat
      BY <1>1, ConfigType DEF TypeInParts
    <2>2. run.round + 1 \in 0..config.maxToolRounds
      BY <2>1, ModelCallsIs DEF RunType
    <2>3. [run EXCEPT !.phase = "tools"] \in RunType /\ [run EXCEPT !.phase = "tools"].round = run.round
      BY <2>1 DEF RunType
    <2>4. [[run EXCEPT !.phase = "tools"] EXCEPT !.round = @ + 1] \in RunType
      BY <2>2, <2>3 DEF RunType
    <2>5. QED  BY <2>1, <2>4, ModelCallsIs DEF RunType
  <1>3. calls' \in [Slots -> Calls]
    BY ModelCallsIs, StartedType
  <1>4. StoreTypeOK' /\ ChainTypeOK'
    BY <1>1 DEF TypeInParts, StoreTypeOK, ChainTypeOK, storeVars, chainVars
  <1>5. QED  BY <1>1, <1>2, <1>3, <1>4, TypeParts DEF TypeInParts

\* What the checks of a call may read, and the call past them.
PositionsRead(r) == IF r.kind = "supply" THEN {NoPositions} ELSE getPositions(r.protocol)
CountsRead(r) == IF r.kind = "borrow" THEN Counted(r.protocol, r.amount) ELSE {0}
Projections(r, positions, counted) ==
    IF r.kind = "borrow" /\ positions # Failed THEN Simulated(r.protocol, positions, counted) ELSE {Infinite}
PassesChecks(r, positions, projected) ==
    /\ positions # Failed
    /\ Builds(r.kind, r.protocol, positions)
    /\ evaluateLendingWrite(r.kind, r.protocol, r.asset, r.amount, projected, config)
ReadyCall(r, counted, projected) ==
    [pc |-> "executing", request |-> r, projected |-> projected, counted |-> counted, seen |-> Last,
     creates |-> r.kind = "supply" /\ CreatesObligation(r.protocol)]

PreparedAs(r, c) ==
    \E positions \in PositionsRead(r), counted \in CountsRead(r) :
    \E projected \in Projections(r, positions, counted) :
       PassesChecks(r, positions, projected) /\ c = ReadyCall(r, counted, projected)

LEMMA PrepareIs ==
  ASSUME NEW s \in Slots, Prepare(s)
  PROVE  /\ calls[s].pc = "preparing" /\ getContext(calls[s].request.protocol)
         /\ \E c : /\ calls' = [calls EXCEPT ![s] = c]
                   /\ c = NoCall \/ PreparedAs(calls[s].request, c)
         /\ UNCHANGED <<storeVars, chainVars, config, mem, run, cooled, posts, promises>>
  <1> DEFINE r == calls[s].request
  <1>1. PICK positions \in PositionsRead(r), counted \in CountsRead(r) :
        \E projected \in Projections(r, positions, counted) :
           calls' = [calls EXCEPT ![s] =
                        IF PassesChecks(r, positions, projected)
                        THEN ReadyCall(r, counted, projected) ELSE NoCall]
    BY Zenon DEF Prepare, PositionsRead, CountsRead, Projections, PassesChecks, ReadyCall, Last
  <1>2. PICK projected \in Projections(r, positions, counted) :
           calls' = [calls EXCEPT ![s] =
                        IF PassesChecks(r, positions, projected)
                        THEN ReadyCall(r, counted, projected) ELSE NoCall]
    BY <1>1
  <1>3. CASE PassesChecks(r, positions, projected)
    <2>1. calls' = [calls EXCEPT ![s] = ReadyCall(r, counted, projected)]
      BY <1>2, <1>3
    <2>2. PreparedAs(r, ReadyCall(r, counted, projected))
      BY <1>1, <1>2, <1>3, Zenon DEF PreparedAs
    <2>3. QED  BY <2>1, <2>2 DEF Prepare
  <1>4. CASE ~PassesChecks(r, positions, projected)
    <2>1. calls' = [calls EXCEPT ![s] = NoCall]
      BY <1>2, <1>4
    <2>2. QED  BY <2>1 DEF Prepare
  <1>5. QED  BY <1>3, <1>4

LEMMA PreparedType ==
  ASSUME AgentTypeOK, NEW r \in Request, NEW c, PreparedAs(r, c)
  PROVE  c \in Calls /\ c.pc = "executing" /\ c.request = r
  <1>1. PICK positions \in PositionsRead(r), counted \in CountsRead(r) :
        \E projected \in Projections(r, positions, counted) :
           positions # Failed /\ c = ReadyCall(r, counted, projected)
    BY Zenon DEF PreparedAs, PassesChecks
  <1>2. PICK projected \in Projections(r, positions, counted) :
           positions # Failed /\ c = ReadyCall(r, counted, projected)
    BY <1>1
  <1>3. r.protocol \in LendingProtocols /\ r.amount \in Nat /\ Last \in Nat
    BY FS_CardinalityType DEF Request, AgentTypeOK, Last
  <1>4. counted \in Nat
    BY <1>3, CountedType DEF CountsRead
  <1>5. projected \in Nat \X Nat
    <2>1. CASE r.kind = "borrow"
      <3>1. positions \in getPositions(r.protocol)
        BY <2>1 DEF PositionsRead
      <3>2. positions \in PositionsType
        BY <1>2, <1>3, <3>1, PositionsAre, AgentTypeParts
      <3>3. projected \in Simulated(r.protocol, positions, counted)
        BY <1>2, <2>1 DEF Projections
      <3>4. QED  BY <1>3, <1>4, <3>2, <3>3, SimulatedType, AgentTypeParts
    <2>2. CASE r.kind # "borrow"
      BY <1>2, <2>2 DEF Infinite, Projections
    <2>3. QED  BY <2>1, <2>2
  <1> DEFINE creates == r.kind = "supply" /\ CreatesObligation(r.protocol)
  <1>6. creates \in BOOLEAN
    OBVIOUS
  <1>7. c = [pc |-> "executing", request |-> r, projected |-> projected, counted |-> counted,
             seen |-> Last, creates |-> creates]
    BY <1>2 DEF ReadyCall
  <1> HIDE DEF creates
  <1>8. c \in Calls
    BY <1>3, <1>4, <1>5, <1>6, <1>7 DEF Calls
  <1>9. QED  BY <1>7, <1>8

LEMMA PrepareType == \A s \in Slots : AgentTypeOK /\ Prepare(s) => AgentTypeOK'
  <1> SUFFICES ASSUME NEW s \in Slots, AgentTypeOK, Prepare(s)
               PROVE  AgentTypeOK'
    OBVIOUS
  <1>1. TypeInParts /\ UNCHANGED <<storeVars, chainVars, config, mem, run>>
    BY TypeParts, PrepareIs
  <1>2. calls[s] \in Calls /\ calls[s].request \in Request
    BY <1>1, CallTypes, PrepareIs DEF TypeInParts
  <1>3. PICK c : /\ calls' = [calls EXCEPT ![s] = c]
                 /\ c = NoCall \/ PreparedAs(calls[s].request, c)
    BY PrepareIs
  <1>4. NoCall \in Calls
    BY DEF Calls
  <1>5. calls' \in [Slots -> Calls]
    BY <1>1, <1>2, <1>3, <1>4, PreparedType DEF TypeInParts
  <1>6. reserveMap' \in Nat \cup {NoContext}
    <2>1. SuilendLimit \in Nat
      BY <1>1 DEF SuilendLimit, ChainTypeOK, LendingProtocols, TypeInParts
    <2>2. QED  BY <1>1, <2>1, PrepareIs DEF getContext, TypeInParts
  <1>7. StoreTypeOK' /\ ChainTypeOK' /\ run' \in RunType'
    BY <1>1 DEF TypeInParts, StoreTypeOK, ChainTypeOK, RunType, storeVars, chainVars
  <1>8. QED  BY <1>1, <1>5, <1>6, <1>7, TypeParts DEF TypeInParts

\* The end of an execution: a plan, a digest, or an exception, after which the
\* transaction may have landed all the same.
WriteLands(c) ==
    /\ ~config.dryRun
    /\ Lands(c.request.kind, c.request.protocol, c.request.amount, c.creates,
             Transaction(c.request.kind, c.request.protocol, c.request.asset, c.creates))

LEMMA PlanIs ==
  ASSUME NEW s \in Slots, Plan(s)
  PROVE  /\ calls[s].pc = "executing" /\ config.dryRun
         /\ mem' = recordPositionAction(mem, WriteAction(calls[s].request), TRUE)
         /\ cache' = mem' /\ Settle(mem')
         /\ calls' = [calls EXCEPT ![s] = NoCall]
         /\ UNCHANGED <<pointer, chainVars, reserveMap, config, run, cooled, posts>>
  BY DEF Plan, saveAgentState

LEMMA ExecuteIs ==
  ASSUME NEW s \in Slots, NEW answer \in {"digest", "threw"}, Execute(s, answer)
  PROVE  /\ calls[s].pc = "executing" /\ ~config.dryRun
         /\ \/ /\ WriteLands(calls[s])
               /\ mem' = recordPositionAction(mem, WriteAction(calls[s].request), config.posting)
               /\ cache' = mem' /\ Settle(mem')
               /\ calls' = [calls EXCEPT ![s] = [pc |-> "saving", blob |-> mem']]
            \/ /\ WriteLands(calls[s]) \/ UNCHANGED chainVars
               /\ calls' = [calls EXCEPT ![s] = NoCall]
               /\ UNCHANGED <<mem, cache, promises>>
         /\ UNCHANGED <<pointer, reserveMap, config, run, cooled, posts>>
  <1>1. CASE answer = "digest"
    BY <1>1 DEF Execute, signAndExecute, WriteLands, saveAgentState
  <1>2. CASE answer = "threw"
    BY <1>2 DEF Execute, signAndExecute, WriteLands, saveAgentState
  <1>3. QED  BY <1>1, <1>2

LEMMA WriteLandsType ==
  ASSUME AgentTypeOK, NEW c \in Calls, c.pc = "executing", WriteLands(c)
  PROVE  ChainTypeOK'
  <1>1. c.request \in Request /\ c.creates \in BOOLEAN /\ ChainTypeOK
    BY CallTypes, AgentTypeParts
  <1>2. /\ c.request.kind \in ActionKinds /\ c.request.protocol \in LendingProtocols
        /\ c.request.asset \in STRING /\ c.request.amount \in Nat
    BY <1>1 DEF Request
  <1>3. Transaction(c.request.kind, c.request.protocol, c.request.asset, c.creates) \in Transactions
    BY <1>1, <1>2, TransactionType
  <1>4. QED  BY <1>1, <1>2, <1>3, LandsType DEF WriteLands

LEMMA WriteRecordType ==
  ASSUME AgentTypeOK, NEW r \in Request, NEW posting
  PROVE  recordPositionAction(mem, WriteAction(r), posting) \in AgentState
  <1>1. r.protocol \in LendingProtocols /\ r.asset \in STRING
    BY DEF Request
  <1>2. WriteAction(r) \in ActionInput
    BY <1>1, ActionTypes
  <1>3. QED  BY <1>2, RecordPositionActionIs DEF AgentTypeOK

LEMMA PlanType == \A s \in Slots : AgentTypeOK /\ Plan(s) => AgentTypeOK'
  <1> SUFFICES ASSUME NEW s \in Slots, AgentTypeOK, Plan(s)
               PROVE  AgentTypeOK'
    OBVIOUS
  <1>1. TypeInParts /\ UNCHANGED <<pointer, chainVars, reserveMap, config, run>>
    BY TypeParts, PlanIs
  <1>2. calls[s] \in Calls /\ calls[s].request \in Request /\ NoCall \in Calls
    BY <1>1, CallTypes, PlanIs DEF TypeInParts, Calls
  <1>3. mem' \in AgentState /\ cache' = mem'
    BY <1>2, PlanIs, WriteRecordType
  <1>4. calls' \in [Slots -> Calls]
    BY <1>1, <1>2, PlanIs DEF TypeInParts
  <1>5. StoreTypeOK' /\ ChainTypeOK' /\ run' \in RunType'
    BY <1>1, <1>3 DEF TypeInParts, StoreTypeOK, ChainTypeOK, RunType, chainVars
  <1>6. QED  BY <1>1, <1>4, <1>5, TypeParts DEF TypeInParts

LEMMA ExecuteType ==
  \A s \in Slots, answer \in {"digest", "threw"} : AgentTypeOK /\ Execute(s, answer) => AgentTypeOK'
  <1> SUFFICES ASSUME NEW s \in Slots, NEW answer \in {"digest", "threw"}, AgentTypeOK, Execute(s, answer)
               PROVE  AgentTypeOK'
    OBVIOUS
  <1>1. TypeInParts /\ UNCHANGED <<pointer, reserveMap, config, run>> /\ calls[s].pc = "executing"
    BY TypeParts, ExecuteIs
  <1>2. calls[s] \in Calls /\ calls[s].request \in Request /\ NoCall \in Calls
    BY <1>1, CallTypes DEF TypeInParts, Calls
  <1>3. run' \in RunType'
    BY <1>1 DEF TypeInParts, RunType
  <1>4. WriteLands(calls[s]) \/ UNCHANGED chainVars => ChainTypeOK'
    BY <1>1, <1>2, WriteLandsType DEF TypeInParts, ChainTypeOK, chainVars
  <1>5. CASE /\ WriteLands(calls[s])
             /\ mem' = recordPositionAction(mem, WriteAction(calls[s].request), config.posting)
             /\ cache' = mem'
             /\ calls' = [calls EXCEPT ![s] = [pc |-> "saving", blob |-> mem']]
    <2>1. mem' \in AgentState
      BY <1>2, <1>5, WriteRecordType
    <2>2. StoreTypeOK'
      BY <1>1, <1>5, <2>1 DEF TypeInParts, StoreTypeOK
    <2>3. [pc |-> "saving", blob |-> mem'] \in Calls
      BY <2>1 DEF Calls
    <2>4. calls' \in [Slots -> Calls]
      BY <1>1, <1>5, <2>3 DEF TypeInParts
    <2>5. QED  BY <1>1, <1>3, <1>4, <1>5, <2>2, <2>4, TypeParts DEF TypeInParts
  <1>6. CASE /\ WriteLands(calls[s]) \/ UNCHANGED chainVars
             /\ calls' = [calls EXCEPT ![s] = NoCall]
             /\ UNCHANGED <<mem, cache>>
    <2>1. StoreTypeOK'
      BY <1>1, <1>6 DEF TypeInParts, StoreTypeOK
    <2>2. calls' \in [Slots -> Calls]
      BY <1>1, <1>2, <1>6 DEF TypeInParts
    <2>3. QED  BY <1>1, <1>3, <1>4, <1>6, <2>1, <2>2, TypeParts DEF TypeInParts
  <1>7. QED  BY <1>5, <1>6, ExecuteIs

LEMMA PostIs ==
  ASSUME NEW s \in Slots, NEW answer \in {"posted", "failed"}, Post(s, answer)
  PROVE  /\ calls[s].pc = "posting" /\ mem' = recordTweet(mem, calls[s].id, answer)
         /\ cache' = mem' /\ Settle(mem')
         /\ \/ calls' = [calls EXCEPT ![s] = [pc |-> "saving", blob |-> mem']]
            \/ calls' = [calls EXCEPT ![s] = NoCall]
         /\ UNCHANGED <<pointer, chainVars, reserveMap, config, run, cooled>>
  BY DEF Post, saveAgentState

LEMMA PostType ==
  \A s \in Slots, answer \in {"posted", "failed"} : AgentTypeOK /\ Post(s, answer) => AgentTypeOK'
  <1> SUFFICES ASSUME NEW s \in Slots, NEW answer \in {"posted", "failed"}, AgentTypeOK, Post(s, answer)
               PROVE  AgentTypeOK'
    OBVIOUS
  <1>1. TypeInParts /\ UNCHANGED <<pointer, chainVars, reserveMap, config, run>>
    BY TypeParts, PostIs
  <1>2. calls[s] \in Calls /\ calls[s].id \in ActionIds /\ NoCall \in Calls
    BY <1>1, CallTypes, PostIs DEF TypeInParts, Calls
  <1>3. mem' \in AgentState /\ cache' = mem'
    BY <1>1, <1>2, PostIs, RecordTweetIs DEF TypeInParts, StoreTypeOK
  <1>4. [pc |-> "saving", blob |-> mem'] \in Calls
    BY <1>3 DEF Calls
  <1>5. calls' \in [Slots -> Calls]
    BY <1>1, <1>2, <1>4, PostIs DEF TypeInParts
  <1>6. StoreTypeOK' /\ ChainTypeOK' /\ run' \in RunType'
    BY <1>1, <1>3 DEF TypeInParts, StoreTypeOK, ChainTypeOK, RunType, chainVars
  <1>7. QED  BY <1>1, <1>5, <1>6, TypeParts DEF TypeInParts

LEMMA SaveEndsIs ==
  ASSUME NEW s \in Slots, SaveEnds(s)
  PROVE  /\ calls[s].pc = "saving" /\ cache' = cache
         /\ pointer' = pointer \/ (config.backend = "walrus" /\ pointer' = calls[s].blob)
         /\ calls' = [calls EXCEPT ![s] = NoCall]
         /\ UNCHANGED <<chainVars, reserveMap, config, mem, run, cooled, posts, promises>>
  BY DEF SaveEnds, Uploaded, storeVars

LEMMA SaveEndsType == \A s \in Slots : AgentTypeOK /\ SaveEnds(s) => AgentTypeOK'
  <1> SUFFICES ASSUME NEW s \in Slots, AgentTypeOK, SaveEnds(s)
               PROVE  AgentTypeOK'
    OBVIOUS
  <1>1. TypeInParts /\ UNCHANGED <<chainVars, reserveMap, config, mem, run>>
    BY TypeParts, SaveEndsIs
  <1>2. calls[s] \in Calls /\ calls[s].blob \in AgentState /\ NoCall \in Calls
    BY <1>1, CallTypes, SaveEndsIs DEF TypeInParts, Calls
  <1>3. calls' \in [Slots -> Calls]
    BY <1>1, <1>2, SaveEndsIs DEF TypeInParts
  <1>4. StoreTypeOK' /\ ChainTypeOK' /\ run' \in RunType'
    BY <1>1, <1>2, SaveEndsIs DEF TypeInParts, StoreTypeOK, ChainTypeOK, RunType, chainVars
  <1>5. QED  BY <1>1, <1>3, <1>4, TypeParts DEF TypeInParts

LEMMA ReadToolType == AgentTypeOK /\ ReadTool => AgentTypeOK'
  <1> SUFFICES ASSUME AgentTypeOK, ReadTool
               PROVE  AgentTypeOK'
    OBVIOUS
  <1>1. TypeInParts /\ UNCHANGED <<pointer, chainVars, reserveMap, config, mem, run, calls>> /\ cache' = mem
    BY TypeParts DEF ReadTool, saveAgentState
  <1>2. StoreTypeOK' /\ ChainTypeOK' /\ run' \in RunType'
    BY <1>1 DEF TypeInParts, StoreTypeOK, ChainTypeOK, RunType, chainVars
  <1>3. QED  BY <1>1, <1>2, TypeParts DEF TypeInParts

LEMMA RoundEndsType == AgentTypeOK /\ RoundEnds => AgentTypeOK'
  <1> SUFFICES ASSUME AgentTypeOK, RoundEnds
               PROVE  AgentTypeOK'
    OBVIOUS
  <1>1. /\ TypeInParts /\ UNCHANGED <<storeVars, chainVars, reserveMap, config, mem, calls>>
        /\ run' = [run EXCEPT !.phase = "model"]
    BY TypeParts DEF RoundEnds
  <1>2. StoreTypeOK' /\ ChainTypeOK' /\ run' \in RunType'
    BY <1>1 DEF TypeInParts, StoreTypeOK, ChainTypeOK, RunType, chainVars, storeVars
  <1>3. QED  BY <1>1, <1>2, TypeParts DEF TypeInParts

LEMMA RunEndIs ==
  ASSUME AgentTypeOK, NEW archived \in BOOLEAN, EndRun(archived)
  PROVE  /\ run.phase = "model" /\ run' = [run EXCEPT !.phase = "final"]
         /\ mem' \in AgentState /\ Noted(mem, mem') /\ cache' = mem' /\ Settle(mem')
         /\ UNCHANGED <<pointer, chainVars, reserveMap, config, calls, cooled, posts>>
  <1>1. run.id \in Nat /\ mem \in AgentState
    BY AgentAssumption DEF AgentTypeOK
  <1>2. endRun(mem, run.id) \in AgentState /\ Noted(mem, endRun(mem, run.id))
    BY <1>1, EndRunIs
  <1>3. mem' \in AgentState /\ Noted(mem, mem')
    BY <1>1, <1>2, RecordArtifactIs DEF EndRun, finalizeRun, Noted
  <1>4. QED  BY <1>3 DEF EndRun, saveAgentState

LEMMA EndRunType == \A archived \in BOOLEAN : AgentTypeOK /\ EndRun(archived) => AgentTypeOK'
  <1> SUFFICES ASSUME NEW archived \in BOOLEAN, AgentTypeOK, EndRun(archived)
               PROVE  AgentTypeOK'
    OBVIOUS
  <1>1. /\ TypeInParts /\ UNCHANGED <<pointer, chainVars, reserveMap, config, calls>>
        /\ run' = [run EXCEPT !.phase = "final"] /\ mem' \in AgentState /\ cache' = mem'
    BY TypeParts, RunEndIs
  <1>2. StoreTypeOK' /\ ChainTypeOK' /\ run' \in RunType'
    BY <1>1 DEF TypeInParts, StoreTypeOK, ChainTypeOK, RunType, chainVars
  <1>3. QED  BY <1>1, <1>2, TypeParts DEF TypeInParts

\* Saved facts that a blob lacks, and what a run leaves behind of them.
Lacked(blob) == IF blob = NoBlob THEN {} ELSE settled \ Facts(blob)

StrandsBy(blob) ==
    /\ settled' = settled /\ uploaded' = uploaded
    /\ stranded' = stranded \cup (IF pointer' = pointer THEN Lacked(blob) \ uploaded ELSE Lacked(blob))

LEMMA StrandIs ==
  ASSUME Strand
  PROVE  config' = config /\ StrandsBy(BlobAt(pointer'))
  <1>1. config' = config /\ settled' = settled /\ uploaded' = uploaded
    BY DEF Strand
  <1> DEFINE blob == BlobAt(pointer')
  <1>2. NextBlob(config.backend, config.stateBlobId)' = blob
    BY <1>1, NextBlobIs
  <1> HIDE DEF blob
  <1>3. Behind' = IF blob = NoBlob THEN {} ELSE settled' \ Facts(blob)
    BY <1>2 DEF Behind
  <1>4. StrandsBy(blob)
    BY <1>1, <1>3 DEF Strand, StrandsBy, Lacked
  <1>5. QED  BY <1>1, <1>4 DEF blob

LEMMA FinalSaveIs ==
  ASSUME FinalSave
  PROVE  /\ run.phase = "final" /\ run' = [NoRun EXCEPT !.id = run.id] /\ cache' = cache
         /\ \/ /\ config.backend = "walrus" /\ pointer' = mem /\ settled' = settled
               /\ uploaded' = uploaded \cup Facts(mem) /\ stranded' = stranded \ Facts(mem)
            \/ pointer' = pointer /\ StrandsBy(BlobAt(pointer'))
         /\ UNCHANGED <<chainVars, reserveMap, config, mem, calls, cooled, posts>>
  <1>1. /\ run.phase = "final" /\ run' = [NoRun EXCEPT !.id = run.id] /\ cache' = cache
        /\ pointer' = pointer \/ (config.backend = "walrus" /\ pointer' = mem)
        /\ UNCHANGED <<chainVars, reserveMap, config, mem, calls, cooled, posts>>
    BY DEF FinalSave, Uploaded, storeVars
  <1>2. CASE config.backend = "walrus" /\ pointer' = mem
    BY <1>1, <1>2 DEF FinalSave
  <1>3. CASE ~(config.backend = "walrus" /\ pointer' = mem)
    BY <1>1, <1>3, StrandIs DEF FinalSave
  <1>4. QED  BY <1>2, <1>3

LEMMA FinalSaveType == AgentTypeOK /\ FinalSave => AgentTypeOK'
  <1> SUFFICES ASSUME AgentTypeOK, FinalSave
               PROVE  AgentTypeOK'
    OBVIOUS
  <1>1. TypeInParts /\ UNCHANGED <<chainVars, reserveMap, config, mem, calls>>
    BY TypeParts, FinalSaveIs
  <1>2. run' \in RunType'
    BY <1>1, NoRunType, FinalSaveIs DEF TypeInParts, RunType
  <1>3. StoreTypeOK' /\ ChainTypeOK'
    BY <1>1, FinalSaveIs DEF TypeInParts, StoreTypeOK, ChainTypeOK, chainVars
  <1>4. QED  BY <1>1, <1>2, <1>3, TypeParts DEF TypeInParts

LEMMA CrashIs ==
  ASSUME Crash
  PROVE  /\ run.phase # "idle" /\ run' = [NoRun EXCEPT !.id = run.id] /\ cache' = cache
         /\ pointer' = pointer \/ pointer' = NoBlob
         /\ StrandsBy(BlobAt(pointer'))
         /\ calls' = [s \in Slots |-> NoCall] /\ mem' = createEmptyAgentState /\ reserveMap' = NoContext
         /\ UNCHANGED <<chainVars, config, cooled, posts>>
  <1>1. config' = config /\ StrandsBy(BlobAt(pointer'))
    BY StrandIs DEF Crash
  <1>2. QED  BY <1>1 DEF Crash, CrashOverPointer

LEMMA CrashType == AgentTypeOK /\ Crash => AgentTypeOK'
  <1> SUFFICES ASSUME AgentTypeOK, Crash
               PROVE  AgentTypeOK'
    OBVIOUS
  <1>1. TypeInParts /\ UNCHANGED <<chainVars, config>>
    BY TypeParts, CrashIs
  <1>2. run' \in RunType'
    BY <1>1, NoRunType, CrashIs DEF TypeInParts, RunType
  <1>3. StoreTypeOK' /\ ChainTypeOK'
    BY <1>1, CrashIs, EmptyState DEF TypeInParts, StoreTypeOK, ChainTypeOK, chainVars
  <1>4. calls' \in [Slots -> Calls] /\ reserveMap' \in Nat \cup {NoContext}
    BY CrashIs DEF Calls
  <1>5. QED  BY <1>1, <1>2, <1>3, <1>4, TypeParts DEF TypeInParts

LEMMA PricesType == AgentTypeOK /\ Prices => AgentTypeOK'
  <1> SUFFICES ASSUME AgentTypeOK, Prices
               PROVE  AgentTypeOK'
    OBVIOUS
  <1>1. TypeInParts /\ UNCHANGED <<storeVars, config, mem, run, calls>>
    BY TypeParts DEF Prices
  <1>2. PICK p \in LendingProtocols : \E l \in config.prices[p] : PricesMove(p, l)
    BY DEF Prices
  <1>3. limit' \in [LendingProtocols -> Nat]
    <2>1. PICK l \in config.prices[p] : limit' = [limit EXCEPT ![p] = l]
      BY <1>2 DEF PricesMove
    <2>2. l \in Nat
      BY <1>1, <2>1, ConfigType DEF TypeInParts
    <2>3. QED  BY <1>1, <2>1, <2>2 DEF TypeInParts, ChainTypeOK
  <1>4. ChainTypeOK' /\ reserveMap' = reserveMap
    BY <1>1, <1>2, <1>3 DEF PricesMove, TypeInParts, ChainTypeOK
  <1>5. StoreTypeOK' /\ run' \in RunType'
    BY <1>1 DEF TypeInParts, StoreTypeOK, RunType, storeVars
  <1>6. QED  BY <1>1, <1>4, <1>5, TypeParts DEF TypeInParts

\* The transaction of the loop strategy's executor.
ExecutorTx(p) ==
    [[Transaction("borrow", p, config.borrowAsset, FALSE) EXCEPT !.run = 0] EXCEPT !.round = 0]

LEMMA ExecutorBorrowsIs ==
  ASSUME AgentTypeOK, NEW p \in config.looping, NEW amount \in 1..config.maxBorrowRaw,
         ExecutorBorrows(p, amount)
  PROVE  /\ p \in LendingProtocols /\ amount \in Nat
         /\ Lands("borrow", p, amount, FALSE, ExecutorTx(p))
         /\ ExecutorTx(p) \in Transactions /\ ExecutorTx(p).digest = Last + 1
         /\ ExecutorTx(p).kind = "borrow" /\ ExecutorTx(p).protocol = p /\ ~ExecutorTx(p).creates
         /\ UNCHANGED <<storeVars, reserveMap, config, mem, run, calls, cooled, posts, promises>>
  <1>1. /\ config.looping \subseteq LendingProtocols /\ config.borrowAsset \in STRING
        /\ config.maxBorrowRaw \in Int
    BY ConfigType DEF AgentTypeOK
  <1>2. p \in LendingProtocols /\ amount \in Nat
    BY <1>1
  <1> DEFINE base == Transaction("borrow", p, config.borrowAsset, FALSE)
  <1>3. "borrow" \in ActionKinds /\ FALSE \in BOOLEAN
    BY DEF ActionKinds
  <1>4. base \in Transactions /\ base.digest = Last + 1
    BY <1>1, <1>2, <1>3, TransactionType
  <1>5. base.kind = "borrow" /\ base.protocol = p /\ base.creates = FALSE
    BY DEF Transaction
  <1> HIDE DEF base
  <1>6. [base EXCEPT !.run = 0] \in Transactions
    BY <1>4 DEF Transactions
  <1>7. [[base EXCEPT !.run = 0] EXCEPT !.round = 0] \in Transactions
    BY <1>6 DEF Transactions
  <1>8. LET tx == [[base EXCEPT !.run = 0] EXCEPT !.round = 0]
        IN  tx.digest = base.digest /\ tx.kind = base.kind /\ tx.protocol = base.protocol
            /\ tx.creates = base.creates
    BY <1>4 DEF Transactions
  <1>9. ExecutorTx(p) = [[base EXCEPT !.run = 0] EXCEPT !.round = 0]
    BY DEF ExecutorTx, base
  <1>10. /\ Lands("borrow", p, amount, FALSE, ExecutorTx(p))
         /\ UNCHANGED <<storeVars, reserveMap, config, mem, run, calls, cooled, posts, promises>>
    BY DEF ExecutorBorrows, ExecutorTx
  <1>11. QED  BY <1>2, <1>4, <1>5, <1>7, <1>8, <1>9, <1>10

LEMMA ExecutorBorrowsType ==
  AgentTypeOK => \A p \in config.looping, amount \in 1..config.maxBorrowRaw :
     ExecutorBorrows(p, amount) => AgentTypeOK'
  <1> SUFFICES ASSUME AgentTypeOK, NEW p \in config.looping, NEW amount \in 1..config.maxBorrowRaw,
                      ExecutorBorrows(p, amount)
               PROVE  AgentTypeOK'
    OBVIOUS
  <1>1. TypeInParts /\ UNCHANGED <<storeVars, reserveMap, config, mem, run, calls>>
    BY TypeParts, ExecutorBorrowsIs
  <1>2. ChainTypeOK'
    <2>1. "borrow" \in ActionKinds /\ FALSE \in BOOLEAN /\ ChainTypeOK
      BY <1>1 DEF ActionKinds, TypeInParts
    <2>2. QED  BY <2>1, ExecutorBorrowsIs, LandsType
  <1>3. StoreTypeOK' /\ run' \in RunType'
    BY <1>1 DEF TypeInParts, StoreTypeOK, RunType, storeVars
  <1>4. QED  BY <1>1, <1>2, <1>3, TypeParts DEF TypeInParts

LEMMA StutterType == AgentTypeOK /\ UNCHANGED <<guardVars, calls>> => AgentTypeOK'
  BY DEF AgentTypeOK, guardVars, storeVars, chainVars

LEMMA InitAgentTypeOK == AgentInit => AgentTypeOK
  <1> SUFFICES ASSUME AgentInit
               PROVE  AgentTypeOK
    OBVIOUS
  <1>1. /\ config \in Configs /\ shares = config.shares /\ debt = config.debt /\ limit = config.limit
        /\ obligations \in Nat /\ landed = {} /\ reserveMap = NoContext
        /\ calls = [s \in Slots |-> NoCall] /\ run = NoRun
    BY DEF AgentInit
  <1>2. ChainTypeOK
    BY <1>1, ConfigType, FS_EmptySet DEF ChainTypeOK
  <1>3. StoreTypeOK
    BY EmptyState DEF AgentInit, StoreTypeOK
  <1>4. run \in RunType
    <2>1. <<>> \in Seq(LendingProtocols)
      OBVIOUS
    <2>2. QED  BY <1>1, <2>1, ConfigType, AgentAssumption DEF NoRun, RunType
  <1>5. calls \in [Slots -> Calls]
    BY <1>1 DEF Calls
  <1>6. QED  BY <1>1, <1>2, <1>3, <1>4, <1>5, AgentTypeParts

LEMMA NextAgentTypeOK == AgentTypeOK /\ [AgentNext]_agentVars => AgentTypeOK'
  <1>1. AgentTypeOK /\ GuardStep => AgentTypeOK'
    BY GuardProtocolType, GuardSavedType, GuardEndsType DEF GuardStep, GuardNext
  <1>2. \A s \in Slots : AgentTypeOK /\ CallNext(s) => AgentTypeOK'
    BY PrepareType, PlanType, ExecuteType, PostType, SaveEndsType DEF CallNext
  <1>3. AgentTypeOK /\ (CooldownPasses \/ UNCHANGED agentVars) => AgentTypeOK'
    BY StutterType DEF CooldownPasses, agentVars
  <1>4. QED
    BY <1>1, <1>2, <1>3, StartRunType, ModelCallsType, ReadToolType, RoundEndsType, EndRunType,
       FinalSaveType, CrashType, PricesType, ExecutorBorrowsType
    DEF AgentNext

\* Every variable of the main agent keeps its type, and its lists their bounds.
THEOREM AgentTypeCorrect == AgentSpec => []AgentTypeOK
  BY InitAgentTypeOK, NextAgentTypeOK, PTL DEF AgentSpec

-----------------------------------------------------------------------------
(* Calls run only in the rounds of tool calls.                             *)

LEMMA ActiveCall ==
  ASSUME RoundInv, NEW s \in Slots, calls[s].pc # "free"
  PROVE  run.phase = "tools"
  BY DEF RoundInv, NoCall

LEMMA CallKeepsRound ==
  \A s \in Slots : AgentTypeOK /\ RoundInv /\ CallNext(s) =>
     RoundInv' /\ run' = run /\ run.phase = "tools" /\ config' = config
  <1> SUFFICES ASSUME NEW s \in Slots, AgentTypeOK, RoundInv, CallNext(s)
               PROVE  RoundInv' /\ run' = run /\ run.phase = "tools" /\ config' = config
    OBVIOUS
  <1>1. run' = run /\ calls[s].pc # "free" /\ config' = config
    BY PrepareIs, PlanIs, ExecuteIs, PostIs, SaveEndsIs DEF CallNext
  <1>2. run.phase = "tools"
    BY <1>1, ActiveCall
  <1>3. QED  BY <1>1, <1>2 DEF RoundInv

LEMMA NextRoundInv == AgentTypeOK /\ RoundInv /\ [AgentNext]_agentVars => RoundInv'
  <1> SUFFICES ASSUME AgentTypeOK, RoundInv, [AgentNext]_agentVars
               PROVE  RoundInv'
    OBVIOUS
  <1>0. run \in RunType
    BY AgentTypeParts
  <1>1. CASE StartRun
    <2>1. run'.phase = "guard" /\ run'.round = 0
      BY <1>1, StartRunIs DEF NoRun
    <2>2. QED  BY <1>1, <2>1, StartRunIs DEF RoundInv
  <1>2. CASE GuardStep
    <2>1. calls' = calls
      BY <1>2 DEF GuardStep
    <2>2. /\ run.phase \in {"guard", "saving"} /\ run'.round = run.round
          /\ run'.phase \in {"guard", "saving", "model"}
      <3>1. CASE GuardProtocol
        BY <1>0, <3>1, GuardProtocolIs DEF GuardPassed, GuardAnswered, RunType
      <3>2. CASE GuardEnds
        BY <1>0, <3>2, GuardEndsIs DEF RunType
      <3>3. CASE GuardSaved
        BY <1>0, <3>3, GuardSavedIs DEF RunType
      <3>4. QED  BY <1>2, <3>1, <3>2, <3>3 DEF GuardStep, GuardNext
    <2>3. QED  BY <2>1, <2>2 DEF RoundInv
  <1>3. CASE ModelCalls
    <2>1. run'.phase = "tools" /\ run'.round > 0
      <3>1. run.round \in Nat
        BY <1>0, ConfigType DEF RunType, AgentTypeOK
      <3>2. run' = [[run EXCEPT !.phase = "tools"] EXCEPT !.round = @ + 1]
        BY <1>3, ModelCallsIs
      <3>3. run'.round = run.round + 1 /\ run'.phase = "tools"
        BY <1>0, <3>2 DEF RunType
      <3>4. QED  BY <3>1, <3>3
    <2>2. QED  BY <2>1 DEF RoundInv
  <1>4. CASE \E s \in Slots : CallNext(s)
    BY <1>4, CallKeepsRound
  <1>5. CASE ReadTool
    BY <1>5 DEF ReadTool, RoundInv
  <1>6. CASE RoundEnds
    <2>1. run'.phase = "model" /\ calls' = calls /\ \A s \in Slots : calls[s] = NoCall
      BY <1>0, <1>6 DEF RoundEnds, RunType
    <2>2. QED  BY <2>1 DEF RoundInv
  <1>7. CASE \E archived \in BOOLEAN : EndRun(archived)
    <2>1. run.phase = "model" /\ run'.phase = "final" /\ calls' = calls
      BY <1>0, <1>7, RunEndIs DEF RunType
    <2>2. QED  BY <2>1 DEF RoundInv
  <1>8. CASE FinalSave
    <2>1. run.phase = "final" /\ run'.phase = "idle" /\ calls' = calls
      BY <1>0, <1>8, FinalSaveIs DEF RunType, NoRun
    <2>2. QED  BY <2>1 DEF RoundInv
  <1>9. CASE Crash
    <2>1. run'.phase = "idle" /\ calls' = [s \in Slots |-> NoCall]
      BY <1>0, <1>9, CrashIs DEF RunType, NoRun
    <2>2. QED  BY <2>1 DEF RoundInv
  <1>10. CASE \/ Prices
              \/ \E p \in config.looping, amount \in 1..config.maxBorrowRaw : ExecutorBorrows(p, amount)
    BY <1>10 DEF Prices, ExecutorBorrows, RoundInv
  <1>11. CASE CooldownPasses \/ UNCHANGED agentVars
    BY <1>11 DEF CooldownPasses, guardVars, agentVars, RoundInv
  <1>12. QED
    BY <1>1, <1>2, <1>3, <1>4, <1>5, <1>6, <1>7, <1>8, <1>9, <1>10, <1>11 DEF AgentNext

LEMMA RoundCorrect == AgentSpec => []RoundInv
  <1>1. AgentInit => RoundInv
    BY DEF AgentInit, RoundInv, NoRun
  <1>2. QED  BY <1>1, NextRoundInv, AgentTypeCorrect, PTL DEF AgentSpec

-----------------------------------------------------------------------------
(* What lands.                                                             *)

\* A transaction is added, the next one in number.
Landing(tx) == landed' = landed \cup {tx} /\ tx \in Transactions /\ tx.digest = Last + 1

LEMMA RepayLandsIs ==
  ASSUME AgentTypeOK, NEW p \in LendingProtocols, NEW amount \in Nat, RepayLands(p, amount)
  PROVE  \E tx : /\ Landing(tx) /\ tx.kind = "repay" /\ tx.protocol = p /\ ~tx.creates
                 /\ tx.asset = config.borrowAsset /\ obligations' = obligations
                 /\ ~config.dryRun /\ ThisRound(tx)
  <1> DEFINE tx == Transaction("repay", p, config.borrowAsset, FALSE)
  <1>1. config.borrowAsset \in STRING /\ "repay" \in ActionKinds /\ FALSE \in BOOLEAN /\ obligations \in Nat
    BY ConfigType DEF AgentTypeOK, ActionKinds
  <1>2. tx \in Transactions /\ tx.digest = Last + 1
    BY <1>1, TransactionType
  <1>3. landed' = landed \cup {tx} /\ obligations' = obligations + 0 /\ ~config.dryRun
    BY DEF RepayLands, Lands
  <1>4. /\ tx.run = run.id /\ tx.round = run.round /\ tx.kind = "repay" /\ tx.protocol = p
        /\ tx.creates = FALSE /\ tx.asset = config.borrowAsset
    BY DEF Transaction
  <1> HIDE DEF tx
  <1>5. Landing(tx) /\ ThisRound(tx)
    BY <1>2, <1>3, <1>4 DEF Landing, ThisRound
  <1>6. QED  BY <1>1, <1>3, <1>4, <1>5

LEMMA WriteLandsIs ==
  ASSUME AgentTypeOK, NEW c \in Calls, c.pc = "executing", WriteLands(c)
  PROVE  \E tx : /\ Landing(tx) /\ tx.kind = c.request.kind /\ tx.protocol = c.request.protocol
                 /\ tx.creates = c.creates /\ tx.asset = c.request.asset /\ ThisRound(tx)
                 /\ obligations' = obligations + (IF c.creates THEN 1 ELSE 0)
                 /\ debt' = [debt EXCEPT ![c.request.protocol] = debt'[c.request.protocol]]
                 /\ c.request.kind = "borrow" =>
                       debt'[c.request.protocol] = debt[c.request.protocol] + c.request.amount
                 /\ c.request.kind # "borrow" => debt'[c.request.protocol] \in 0..debt[c.request.protocol]
  <1> DEFINE r  == c.request
             tx == Transaction(r.kind, r.protocol, r.asset, c.creates)
  <1>1. r \in Request /\ c.creates \in BOOLEAN
    BY CallTypes
  <1>2. /\ r.kind \in ActionKinds /\ r.protocol \in LendingProtocols /\ r.asset \in STRING /\ r.amount \in Nat
        /\ debt \in [LendingProtocols -> Nat]
    BY <1>1 DEF Request, AgentTypeOK
  <1>3. tx \in Transactions /\ tx.digest = Last + 1
    BY <1>1, <1>2, TransactionType
  <1>4. landed' = landed \cup {tx} /\ obligations' = obligations + (IF c.creates THEN 1 ELSE 0)
    BY DEF WriteLands, Lands
  <1>5. debt' = [debt EXCEPT ![r.protocol] =
          CASE r.kind = "borrow" -> debt[r.protocol] + r.amount
            [] r.kind = "repay"  -> IF r.amount > debt[r.protocol] THEN 0 ELSE debt[r.protocol] - r.amount
            [] OTHER             -> debt[r.protocol]]
    BY Zenon DEF WriteLands, Lands
  <1>6. debt' = [debt EXCEPT ![r.protocol] = debt'[r.protocol]]
    BY <1>2, <1>5
  <1>7. r.kind = "borrow" => debt'[r.protocol] = debt[r.protocol] + r.amount
    BY <1>2, <1>5
  <1>8. r.kind # "borrow" => debt'[r.protocol] \in 0..debt[r.protocol]
    <2>1. debt[r.protocol] \in Nat
      BY <1>2
    <2>2. QED  BY <1>2, <1>5, <2>1
  <1>9. /\ tx.run = run.id /\ tx.round = run.round /\ tx.kind = r.kind /\ tx.protocol = r.protocol
        /\ tx.creates = c.creates /\ tx.asset = r.asset
    BY DEF Transaction
  <1> HIDE DEF tx, r
  <1>10. Landing(tx) /\ ThisRound(tx)
    BY <1>3, <1>4, <1>9 DEF Landing, ThisRound
  <1>11. QED  BY <1>4, <1>6, <1>7, <1>8, <1>9, <1>10 DEF r

LEMMA ExecutorLandsIs ==
  ASSUME AgentTypeOK, NEW p \in config.looping, NEW amount \in 1..config.maxBorrowRaw,
         ExecutorBorrows(p, amount)
  PROVE  \E tx : /\ Landing(tx) /\ tx.kind = "borrow" /\ tx.protocol = p /\ ~tx.creates
                 /\ p \in LendingProtocols /\ obligations' = obligations
                 /\ debt' = [debt EXCEPT ![p] = debt[p] + amount]
  <1>1. /\ p \in LendingProtocols /\ Lands("borrow", p, amount, FALSE, ExecutorTx(p))
        /\ ExecutorTx(p) \in Transactions /\ ExecutorTx(p).digest = Last + 1
        /\ ExecutorTx(p).kind = "borrow" /\ ExecutorTx(p).protocol = p /\ ~ExecutorTx(p).creates
    BY ExecutorBorrowsIs
  <1>2. obligations \in Nat
    BY DEF AgentTypeOK
  <1>3. landed' = landed \cup {ExecutorTx(p)} /\ obligations' = obligations + 0
    BY <1>1 DEF Lands
  <1>4. debt' = [debt EXCEPT ![p] = debt[p] + amount]
    BY <1>1 DEF Lands
  <1>5. QED  BY <1>1, <1>2, <1>3, <1>4 DEF Landing

LEMMA LandingCounts ==
  ASSUME AgentTypeOK, DigestInv, NEW tx, Landing(tx)
  PROVE  Last \in Nat /\ Last' = Last + 1 /\ tx \notin landed /\ DigestInv'
  <1>1. IsFiniteSet(landed) /\ Last \in Nat
    BY FS_CardinalityType DEF AgentTypeOK, Last
  <1>2. tx \notin landed
    BY <1>1 DEF DigestInv, Landing
  <1>3. Last' = Last + 1
    BY <1>1, <1>2, FS_AddElement DEF Landing, Last
  <1>4. \A old \in landed : old.digest \in Nat
    BY DEF AgentTypeOK, Transactions
  <1>5. QED  BY <1>1, <1>2, <1>3, <1>4 DEF DigestInv, Landing

LEMMA LastGrows ==
  ASSUME AgentTypeOK, DigestInv, landed' = landed \/ \E tx : Landing(tx)
  PROVE  Last \in Nat /\ Last' \in Nat /\ Last <= Last' /\ (landed' = landed => Last' = Last)
  <1>1. Last \in Nat /\ (landed' = landed => Last' = Last)
    BY FS_CardinalityType DEF AgentTypeOK, Last
  <1>2. QED  BY <1>1, LandingCounts

\* A step lands nothing, a repay of the guard, a call's write, or the executor's
\* borrow.
LEMMA LandedStep ==
  AgentTypeOK /\ [AgentNext]_agentVars =>
     landed' = landed \/ \E tx : Landing(tx)
  <1> SUFFICES ASSUME AgentTypeOK, [AgentNext]_agentVars
               PROVE  landed' = landed \/ \E tx : Landing(tx)
    OBVIOUS
  <1>1. CASE GuardStep
    <2>1. CASE GuardProtocol
      BY <2>1, GuardProtocolIs, RepayLandsIs DEF GuardPassed, GuardAlerts, GuardRepays, chainVars
    <2>2. CASE GuardEnds
      BY <2>2, GuardEndsIs DEF chainVars
    <2>3. CASE GuardSaved
      BY <2>3, GuardSavedIs DEF chainVars
    <2>4. QED  BY <1>1, <2>1, <2>2, <2>3 DEF GuardStep, GuardNext
  <1>2. ASSUME NEW s \in Slots, CallNext(s)
        PROVE  landed' = landed \/ \E tx : Landing(tx)
    <2>1. calls[s] \in Calls
      BY DEF AgentTypeOK
    <2>2. ASSUME NEW answer \in {"digest", "threw"}, Execute(s, answer)
          PROVE  landed' = landed \/ \E tx : Landing(tx)
      BY <2>1, <2>2, ExecuteIs, WriteLandsIs DEF chainVars
    <2>3. QED  BY <1>2, <2>2, PrepareIs, PlanIs, PostIs, SaveEndsIs DEF CallNext, chainVars
  <1>3. CASE \E archived \in BOOLEAN : EndRun(archived)
    BY <1>3, RunEndIs DEF chainVars
  <1>4. CASE StartRun \/ ModelCalls \/ FinalSave \/ Crash
    BY <1>4, StartRunIs, ModelCallsIs, FinalSaveIs, CrashIs DEF chainVars
  <1>5. CASE ReadTool \/ RoundEnds \/ Prices \/ CooldownPasses \/ UNCHANGED agentVars
    BY <1>5 DEF ReadTool, RoundEnds, Prices, PricesMove, CooldownPasses, guardVars, agentVars, chainVars
  <1>6. CASE \E p \in config.looping, amount \in 1..config.maxBorrowRaw : ExecutorBorrows(p, amount)
    BY <1>6, ExecutorLandsIs
  <1>7. QED  BY <1>1, <1>2, <1>3, <1>4, <1>5, <1>6 DEF AgentNext

LEMMA DigestsCorrect == AgentSpec => []DigestInv
  <1>1. AgentInit => DigestInv
    BY DEF AgentInit, DigestInv
  <1>2. AgentTypeOK /\ DigestInv /\ [AgentNext]_agentVars => DigestInv'
    <2> SUFFICES ASSUME AgentTypeOK, DigestInv, [AgentNext]_agentVars
                 PROVE  DigestInv'
      OBVIOUS
    <2>1. landed' = landed => DigestInv'
      BY DEF DigestInv, Last
    <2>2. QED  BY <2>1, LandedStep, LandingCounts
  <1>3. QED  BY <1>1, <1>2, AgentTypeCorrect, PTL DEF AgentSpec

-----------------------------------------------------------------------------
(* The guard's alert.                                                      *)

LEMMA NextAlertInv == AgentTypeOK /\ RoundInv /\ AlertInv /\ [AgentNext]_agentVars => AlertInv'
  <1> SUFFICES ASSUME AgentTypeOK, RoundInv, AlertInv, [AgentNext]_agentVars,
                      run'.phase \in {"guard", "saving", "model"}, run'.round = 0, run'.last = "alert"
               PROVE  (run.borrows /\ Alerted(mem) /\ Alerted(cache))'
    BY DEF AlertInv
  <1>0. run \in RunType
    BY AgentTypeParts
  <1>1. ASSUME run' = run, mem' = mem, cache' = cache
        PROVE  (run.borrows /\ Alerted(mem) /\ Alerted(cache))'
    BY <1>1 DEF AlertInv, Alerted
  <1>2. ~StartRun
    BY StartRunIs DEF NoRun
  <1>3. CASE GuardProtocol
    <2>1. run.phase = "guard" /\ run.round = 0
      BY <1>3, GuardProtocolIs DEF RoundInv
    <2>2. CASE GuardPassed
      <3>1. run'.last = run.last /\ (run.borrows => run'.borrows)
        BY <1>0, <2>2 DEF GuardPassed, RunType
      <3>2. mem' = mem /\ cache' = cache
        BY <2>2 DEF GuardPassed, storeVars
      <3>3. QED  BY <2>1, <3>1, <3>2 DEF AlertInv, Alerted
    <2>3. ASSUME NEW p \in LendingProtocols, NEW amount \in Nat,
                 GuardAnswered("alert"), GuardAlerts(p, amount)
          PROVE  (run.borrows /\ Alerted(mem) /\ Alerted(cache))'
      <3>1. PICK m \in {mem, recordPositionAction(mem, RepayAction(p, config.borrowAsset), TRUE)} :
               mem' = queueHealthAlert(m, p)
        BY <2>3 DEF GuardAlerts
      <3>2. m \in AgentState
        BY RepayRecordType, ConfigType DEF AgentTypeOK
      <3>3. mem' \in AgentState /\ Tasks(mem', "health_alert") # {} /\ cache' = mem'
        BY <2>3, <3>1, <3>2, QueueHealthAlertIs DEF GuardAlerts
      <3>4. run'.borrows
        BY <1>0, <2>3 DEF GuardAnswered, RunType
      <3>5. QED  BY <3>3, <3>4, StoreAssumption DEF Alerted, IsState
    <2>4. ~GuardAnswered("repaid")
      BY <1>0 DEF GuardAnswered, RunType
    <2>5. QED  BY <1>3, <2>2, <2>3, <2>4, GuardProtocolIs
  <1>4. CASE GuardEnds
    <2>1. run.phase = "guard" /\ run.round = 0 /\ run.last = "alert" /\ run'.borrows = run.borrows
      BY <1>0, <1>4, GuardEndsIs DEF RunType, RoundInv
    <2>2. mem' = mem /\ cache' = cache
      BY <1>4, <2>1, GuardEndsIs DEF AlertInv, storeVars
    <2>3. QED  BY <2>1, <2>2 DEF AlertInv, Alerted
  <1>5. ~ModelCalls
    BY <1>0, ModelCallsIs DEF RunType
  <1>6. ASSUME NEW s \in Slots, CallNext(s)
        PROVE  FALSE
    BY <1>6, CallKeepsRound DEF RoundInv
  <1>7. ~ReadTool
    BY DEF ReadTool, RoundInv
  <1>8. ~RoundEnds
    BY <1>0 DEF RoundEnds, RunType, RoundInv
  <1>9. ~(\E archived \in BOOLEAN : EndRun(archived)) /\ ~FinalSave /\ ~Crash
    BY <1>0, RunEndIs, FinalSaveIs, CrashIs DEF RunType, NoRun
  <1>10. CASE \/ Prices \/ CooldownPasses \/ UNCHANGED agentVars
              \/ \E p \in config.looping, amount \in 1..config.maxBorrowRaw : ExecutorBorrows(p, amount)
    BY <1>1, <1>10 DEF Prices, CooldownPasses, ExecutorBorrows, guardVars, agentVars, storeVars
  <1>11. CASE GuardSaved
    <2>1. /\ run.phase = "saving" /\ run'.round = run.round /\ run'.last = run.last
          /\ run'.borrows = run.borrows /\ mem' = mem /\ cache' = cache
      BY <1>0, <1>11, GuardSavedIs DEF RunType, GuardUploads
    <2>2. QED  BY <2>1 DEF AlertInv, Alerted
  <1>12. QED
    BY <1>2, <1>3, <1>4, <1>5, <1>6, <1>7, <1>8, <1>9, <1>10, <1>11 DEF AgentNext, GuardStep, GuardNext

\* When the guard's pass ends with the last critical position left to the
\* operator, its alert is pending in memory and in the file: nothing between the
\* alert and the end of the pass takes it away (healthGuard.ts).
THEOREM AlertsAnswered == AgentSpec => []LastCriticalAnswered
  <1>1. AgentInit => AlertInv
    BY DEF AgentInit, AlertInv, NoRun
  <1>2. AlertInv => LastCriticalAnswered
    <2> SUFFICES ASSUME AlertInv, run.phase = "model", run.round = 0, run.last = "alert"
                 PROVE  Tasks(mem, "health_alert") # {} /\ Tasks(loadAgentState, "health_alert") # {}
      BY DEF LastCriticalAnswered
    <2>1. Alerted(mem) /\ Alerted(cache)
      BY DEF AlertInv
    <2>2. loadAgentState = cache
      BY <2>1 DEF Alerted, IsState, loadAgentState, normalizeAgentState
    <2>3. QED  BY <2>1, <2>2 DEF Alerted
  <1>3. QED  BY <1>1, <1>2, NextAlertInv, AgentTypeCorrect, RoundCorrect, PTL DEF AgentSpec

-----------------------------------------------------------------------------
(* What a step does to the transactions and to the calls that wait to      *)
(* execute: nothing is ever taken from the first, and only Prepare adds to *)
(* the second.                                                             *)

\* A step in which no call executes.
Quiet ==
    /\ landed \subseteq landed' /\ obligations' = obligations
    /\ \A tx \in landed' : tx \in landed \/ tx.kind # "supply"
    /\ \A s \in Slots : calls[s].pc = "executing" => landed' = landed
    /\ \A s \in Slots : calls'[s].pc = "executing" =>
          \/ calls'[s] = calls[s] /\ debt' = debt /\ run' = run
          \/ /\ PreparedAs(calls[s].request, calls'[s]) /\ calls[s].request \in Request
             /\ debt' = debt /\ landed' = landed
    /\ config' = config

\* One in which the loop strategy's executor borrows.
Beside ==
    /\ \E p \in LendingProtocols : \E tx :
          /\ Landing(tx) /\ tx.kind = "borrow" /\ tx.protocol = p /\ ~tx.creates
          /\ debt' = [debt EXCEPT ![p] = debt'[p]]
    /\ obligations' = obligations
    /\ UNCHANGED <<calls, config, run>>

\* One in which a call executes, or is dropped.
Executes(s) ==
    /\ calls[s].pc = "executing" /\ calls[s] \in Calls
    /\ \E c : c.pc # "executing" /\ calls' = [calls EXCEPT ![s] = c]
    /\ WriteLands(calls[s]) \/ UNCHANGED chainVars
    /\ UNCHANGED <<config, run>>

LEMMA QuietOrExecutes ==
  AgentTypeOK /\ RoundInv /\ [AgentNext]_agentVars => Quiet \/ Beside \/ \E s \in Slots : Executes(s)
  <1> SUFFICES ASSUME AgentTypeOK, RoundInv, [AgentNext]_agentVars
               PROVE  Quiet \/ Beside \/ \E s \in Slots : Executes(s)
    OBVIOUS
  <1>0. calls \in [Slots -> Calls] /\ obligations \in Nat
    BY DEF AgentTypeOK
  <1>1. ASSUME UNCHANGED chainVars, \A s \in Slots : calls'[s].pc # "executing", config' = config
        PROVE  Quiet
    BY <1>1 DEF Quiet, chainVars
  <1>2. ASSUME UNCHANGED <<landed, obligations, debt, config, run>>,
               \A s \in Slots : calls'[s].pc = "executing" => calls'[s] = calls[s]
        PROVE  Quiet
    BY <1>2 DEF Quiet
  <1>3. CASE GuardProtocol /\ calls' = calls
    <2>1. \A s \in Slots : calls'[s].pc # "executing"
      BY <1>3, GuardProtocolIs DEF RoundInv, NoCall
    <2>2. UNCHANGED chainVars \/ \E p \in LendingProtocols, amount \in Nat : RepayLands(p, amount)
      BY <1>3, GuardProtocolIs DEF GuardPassed, GuardAlerts, GuardRepays
    <2>3. /\ landed \subseteq landed' /\ obligations' = obligations
          /\ \A tx \in landed' : tx \in landed \/ tx.kind # "supply"
      BY <2>2, RepayLandsIs DEF Landing, chainVars
    <2>4. \A s \in Slots : calls[s].pc # "executing"
      BY <1>3, <2>1
    <2>5. QED  BY <1>3, <2>1, <2>3, <2>4, GuardProtocolIs DEF Quiet
  <1>4. CASE StartRun
    <2>1. \A s \in Slots : calls'[s].pc # "executing"
      BY <1>4, StartRunIs DEF RoundInv, NoCall
    <2>2. QED  BY <1>1, <1>4, <2>1, StartRunIs
  <1>5. CASE GuardEnds /\ calls' = calls
    <2>1. \A s \in Slots : calls'[s].pc # "executing"
      BY <1>5, GuardEndsIs DEF RoundInv, NoCall
    <2>2. QED  BY <1>1, <1>5, <2>1, GuardEndsIs
  <1>6. CASE ModelCalls
    <2>1. \A s \in Slots : calls'[s].pc # "executing"
      BY <1>6, ModelCallsIs DEF StartedAs, NoCall
    <2>2. QED  BY <1>1, <1>6, <2>1, ModelCallsIs
  <1>7. ASSUME NEW s \in Slots, Prepare(s)
        PROVE  Quiet
    <2>1. /\ calls[s].pc = "preparing" /\ UNCHANGED <<chainVars, config, run>>
          /\ calls[s].request \in Request
      BY <1>0, <1>7, PrepareIs, CallTypes
    <2>2. PICK c : /\ calls' = [calls EXCEPT ![s] = c]
                   /\ c = NoCall \/ PreparedAs(calls[s].request, c)
      BY <1>7, PrepareIs
    <2>3. /\ calls'[s] = c
          /\ \A x \in Slots : x # s => calls'[x] = calls[x]
      BY <1>0, <2>2
    <2>4. QED  BY <2>1, <2>2, <2>3 DEF Quiet, NoCall, chainVars
  <1>8. ASSUME NEW s \in Slots, Plan(s)
        PROVE  Quiet
    <2>0. calls' = [calls EXCEPT ![s] = NoCall] /\ NoCall.pc # "executing"
      BY <1>8, PlanIs DEF NoCall
    <2>1. \A x \in Slots : calls'[x].pc = "executing" => calls'[x] = calls[x]
      BY <1>0, <2>0
    <2>2. QED  BY <1>2, <1>8, <2>1, PlanIs DEF chainVars
  <1>9. ASSUME NEW s \in Slots, NEW answer \in {"digest", "threw"}, Execute(s, answer)
        PROVE  Executes(s)
    <2>1. [pc |-> "saving", blob |-> mem'].pc # "executing" /\ NoCall.pc # "executing"
      BY DEF NoCall
    <2>2. QED  BY <1>0, <1>9, <2>1, ExecuteIs DEF Executes
  <1>10. ASSUME NEW s \in Slots, NEW answer \in {"posted", "failed"}, Post(s, answer)
         PROVE  Quiet
    <2>1. \A x \in Slots : calls'[x].pc = "executing" => calls'[x] = calls[x]
      BY <1>0, <1>10, PostIs DEF NoCall
    <2>2. QED  BY <1>2, <1>10, <2>1, PostIs DEF chainVars
  <1>11. ASSUME NEW s \in Slots, SaveEnds(s)
         PROVE  Quiet
    <2>1. \A x \in Slots : calls'[x].pc = "executing" => calls'[x] = calls[x]
      BY <1>0, <1>11, SaveEndsIs DEF NoCall
    <2>2. QED  BY <1>2, <1>11, <2>1, SaveEndsIs DEF chainVars
  <1>12. CASE RoundEnds
    BY <1>1, <1>12 DEF RoundEnds, NoCall
  <1>13. CASE \E archived \in BOOLEAN : EndRun(archived)
    <2>1. \A s \in Slots : calls'[s].pc # "executing"
      BY <1>13, RunEndIs DEF RoundInv, NoCall
    <2>2. QED  BY <1>1, <1>13, <2>1, RunEndIs
  <1>14. CASE FinalSave
    <2>1. \A s \in Slots : calls'[s].pc # "executing"
      BY <1>14, FinalSaveIs DEF RoundInv, NoCall
    <2>2. QED  BY <1>1, <1>14, <2>1, FinalSaveIs
  <1>15. CASE Crash
    <2>1. \A s \in Slots : calls'[s].pc # "executing"
      BY <1>15, CrashIs DEF NoCall
    <2>2. QED  BY <1>1, <1>15, <2>1, CrashIs
  <1>16. CASE ReadTool \/ CooldownPasses \/ Prices \/ UNCHANGED agentVars
    BY <1>2, <1>16 DEF ReadTool, CooldownPasses, Prices, PricesMove, guardVars, agentVars, chainVars
  <1>17. CASE GuardSaved /\ calls' = calls
    <2>1. \A s \in Slots : calls'[s].pc # "executing"
      BY <1>17, GuardSavedIs DEF RoundInv, NoCall
    <2>2. QED  BY <1>1, <1>17, <2>1, GuardSavedIs
  <1>18. ASSUME NEW p \in config.looping, NEW amount \in 1..config.maxBorrowRaw, ExecutorBorrows(p, amount)
         PROVE  Beside
    <2>1. UNCHANGED <<calls, config, run>>
      BY <1>18, ExecutorBorrowsIs
    <2>2. PICK tx : /\ Landing(tx) /\ tx.kind = "borrow" /\ tx.protocol = p /\ ~tx.creates
                    /\ p \in LendingProtocols /\ obligations' = obligations
                    /\ debt' = [debt EXCEPT ![p] = debt[p] + amount]
      BY <1>18, ExecutorLandsIs
    <2>3. debt' = [debt EXCEPT ![p] = debt'[p]]
      BY <2>2 DEF AgentTypeOK
    <2>4. QED  BY <2>1, <2>2, <2>3 DEF Beside
  <1>19. QED
    BY <1>3, <1>4, <1>5, <1>6, <1>7, <1>8, <1>9, <1>10, <1>11, <1>12, <1>13, <1>14, <1>15, <1>16,
       <1>17, <1>18
    DEF AgentNext, CallNext, GuardStep, GuardNext

-----------------------------------------------------------------------------
(* The second obligation.                                                  *)

LEMMA PreparedCreates ==
  ASSUME NEW r, NEW c, PreparedAs(r, c), c.creates
  PROVE  obligations = 0
  <1>1. PICK counted, projected : c = ReadyCall(r, counted, projected)
    BY Zenon DEF PreparedAs
  <1>2. c.creates = (r.kind = "supply" /\ CreatesObligation(r.protocol))
    BY <1>1, Zenon DEF ReadyCall
  <1>3. QED  BY <1>2 DEF CreatesObligation

LEMMA NextObligationInv ==
  AgentTypeOK /\ RoundInv /\ DigestInv /\ ObligationInv /\ [AgentNext]_agentVars => ObligationInv'
  <1> SUFFICES ASSUME AgentTypeOK, RoundInv, DigestInv, ObligationInv, [AgentNext]_agentVars
               PROVE  ObligationInv'
    OBVIOUS
  <1>0. calls \in [Slots -> Calls] /\ obligations \in Nat
    BY DEF AgentTypeOK
  <1>1. ASSUME Quiet
        PROVE  ObligationInv'
    <2>1. SecondObligationIsParallel'
      BY <1>1 DEF Quiet, ObligationInv, SecondObligationIsParallel
    <2>2. ASSUME NEW s \in Slots, calls'[s].pc = "executing", calls'[s].creates
          PROVE  obligations' = 0 \/ \E tx \in landed' : tx.creates /\ ThisRound(tx)'
      <3>1. CASE calls'[s] = calls[s] /\ run' = run
        BY <1>1, <2>2, <3>1 DEF Quiet, ObligationInv, ThisRound
      <3>2. CASE PreparedAs(calls[s].request, calls'[s])
        <4>1. obligations = 0
          BY <2>2, <3>2, PreparedCreates
        <4>2. QED  BY <1>1, <4>1 DEF Quiet
      <3>3. QED  BY <1>1, <2>2, <3>1, <3>2 DEF Quiet
    <2>3. QED  BY <2>1, <2>2 DEF ObligationInv
  <1>2. ASSUME NEW s \in Slots, Executes(s)
        PROVE  ObligationInv'
    <2>1. /\ calls[s].pc = "executing" /\ calls[s] \in Calls /\ run' = run
          /\ \A x \in Slots : calls'[x].pc = "executing" => calls'[x] = calls[x]
      BY <1>0, <1>2 DEF Executes
    <2>2. CASE UNCHANGED chainVars
      BY <2>1, <2>2 DEF chainVars, ObligationInv, SecondObligationIsParallel, ThisRound
    <2>3. CASE WriteLands(calls[s])
      <3>1. PICK tx : /\ Landing(tx) /\ tx.creates = calls[s].creates /\ ThisRound(tx)
                      /\ obligations' = obligations + (IF calls[s].creates THEN 1 ELSE 0)
        BY <2>1, <2>3, WriteLandsIs
      <3>2. /\ tx \notin landed /\ landed' = landed \cup {tx}
            /\ tx.run = run.id /\ tx.round = run.round
        BY <3>1, LandingCounts DEF Landing, ThisRound
      <3>3. CASE ~calls[s].creates
        BY <1>0, <2>1, <3>1, <3>2, <3>3 DEF ObligationInv, SecondObligationIsParallel, ThisRound
      <3>4. CASE calls[s].creates
        <4>1. obligations' = obligations + 1 /\ tx.creates
          BY <3>1, <3>4
        <4>2. obligations = 0 \/ \E old \in landed : old.creates /\ ThisRound(old)
          BY <2>1, <3>4 DEF ObligationInv
        <4>3. SecondObligationIsParallel'
          BY <1>0, <3>2, <4>1, <4>2 DEF SecondObligationIsParallel, ThisRound
        <4>4. \E new \in landed' : new.creates /\ ThisRound(new)'
          BY <2>1, <3>2, <4>1 DEF ThisRound
        <4>5. QED  BY <4>3, <4>4 DEF ObligationInv
      <3>5. QED  BY <3>3, <3>4
    <2>4. QED  BY <1>2, <2>2, <2>3 DEF Executes
  <1>3. CASE Beside
    <2>1. UNCHANGED <<obligations, calls, run>> /\ landed \subseteq landed'
      BY <1>3 DEF Beside, Landing
    <2>2. QED  BY <2>1 DEF ObligationInv, SecondObligationIsParallel, ThisRound
  <1>4. QED  BY <1>1, <1>2, <1>3, QuietOrExecutes

\* Two obligations of the wallet come of one round: a call that looks for an
\* obligation after a round has ended finds the one it made (buildSupplyTx of
\* suilendClient.ts).
THEOREM ObligationsParallel == AgentSpec => []SecondObligationIsParallel
  <1>1. AgentInit => ObligationInv
    BY DEF AgentInit, ObligationInv, SecondObligationIsParallel, NoCall
  <1>2. ObligationInv => SecondObligationIsParallel
    BY DEF ObligationInv
  <1>3. QED
    BY <1>1, <1>2, NextObligationInv, AgentTypeCorrect, RoundCorrect, DigestsCorrect, PTL DEF AgentSpec

-----------------------------------------------------------------------------
(* The borrow floor.                                                       *)

\* A health factor at the floor or above stays there when debt goes down.
LEMMA LessDebtIsHealthy ==
  ASSUME NEW m \in Int, NEW a \in Nat, NEW d \in Nat, NEW e \in Nat, e <= d,
         d <= 0 \/ a >= m * d
  PROVE  e <= 0 \/ a >= m * e
  <1>1. CASE m <= 0
    <2>1. m * e <= 0 /\ m * e \in Int
      BY <1>1
    <2>2. QED  BY <2>1
  <1>2. CASE m > 0
    <2>1. m * e <= m * d /\ m * e \in Int /\ m * d \in Int
      BY <1>2
    <2>2. QED  BY <2>1
  <1>3. QED  BY <1>1, <1>2

\* A projection of nothing over a debt of 1, the reading of a failed
\* simulation, is at the floor only when every debt is.
LEMMA FailedIsUnhealthy ==
  ASSUME NEW m \in Int, NEW d \in Nat, 0 >= m * 1
  PROVE  0 >= m * d
  OBVIOUS

\* Less debt counts for less.
LEMMA WeightedMonotone ==
  ASSUME NEW p, NEW old \in Nat, NEW new \in Nat, new <= old, NEW counted \in Nat
  PROVE  /\ Weighted(p, new) + counted \in Nat /\ Weighted(p, old) + counted \in Nat
         /\ Weighted(p, new) + counted <= Weighted(p, old) + counted
  <1>1. Weighted(p, new) \in Nat /\ Weighted(p, old) \in Nat
    BY WeightedType
  <1>2. BorrowWeight * new <= BorrowWeight * old
    BY ClientsAssumption
  <1>3. Weighted(p, new) <= Weighted(p, old)
    BY <1>2 DEF Weighted
  <1>4. QED  BY <1>1, <1>3

LEMMA PreparedBorrow ==
  ASSUME AgentTypeOK, NEW r \in Request, NEW c, PreparedAs(r, c), r.kind = "borrow",
         r.protocol # "scallop"
  PROVE  AtFloor(c, Weighted(r.protocol, debt[r.protocol]) + c.counted, config)
  <1>1. PICK positions \in PositionsRead(r), counted \in CountsRead(r) :
        \E projected \in Projections(r, positions, counted) :
           PassesChecks(r, positions, projected) /\ c = ReadyCall(r, counted, projected)
    BY Zenon DEF PreparedAs
  <1>2. PICK projected \in Projections(r, positions, counted) :
           PassesChecks(r, positions, projected) /\ c = ReadyCall(r, counted, projected)
    BY <1>1
  <1>3. c.counted = counted /\ c.projected = projected
    BY <1>2 DEF ReadyCall
  <1>4. /\ positions \in getPositions(r.protocol) /\ positions # Failed
        /\ projected \in Simulated(r.protocol, positions, counted)
    BY <1>1, <1>2 DEF PassesChecks, PositionsRead, Projections
  <1>5. HealthyEnough(projected, config)
    BY <1>2 DEF PassesChecks, evaluateLendingWrite
  <1>6. /\ r.amount \in Nat /\ r.protocol \in {"suilend", "navi"} /\ config.minHealthFactor \in Int
        /\ \A p \in LendingProtocols : debt[p] \in Nat /\ limit[p] \in Nat
    BY ConfigType DEF Request, AgentTypeOK, LendingProtocols
  <1>7. counted \in Nat
    BY <1>1, <1>6, CountedType DEF CountsRead
  <1>8. CASE r.protocol = "suilend"
    <2>1. positions.obligation
      BY <1>2, <1>8 DEF PassesChecks, Builds, SuilendBuilds
    <2>2. positions \in {NoPositions, toObligationResponse(debt["suilend"])}
      BY <1>4, <1>8 DEF getPositions, SuilendPositions
    <2>3. positions = toObligationResponse(debt["suilend"])
      BY <2>1, <2>2 DEF NoPositions
    <2>4. positions.health = <<SuilendLimit, Weighted("suilend", debt["suilend"])>>
      BY <2>3, Zenon DEF toObligationResponse
    <2>5. projected = <<positions.health[1], positions.health[2] + counted>>
      BY <1>4, <1>8 DEF Simulated, OverPositions
    <2>6. projected = <<SuilendLimit, Weighted("suilend", debt["suilend"]) + counted>>
      BY <2>4, <2>5
    <2>7. projected[1] = SuilendLimit
      BY <2>6
    <2>8. QED  BY <1>3, <1>5, <1>8, <2>6, <2>7 DEF AtFloor
  <1>9. CASE r.protocol = "navi"
    <2>0. Weighted("navi", debt["navi"]) = debt["navi"]
      BY DEF Weighted
    <2>1. projected = <<limit["navi"], debt["navi"] + counted>> \/ projected = <<0, 1>>
      BY <1>4, <1>9 DEF Simulated, NaviSimulated
    <2>2. CASE projected = <<limit["navi"], debt["navi"] + counted>>
      <3>1. projected[1] = limit["navi"]
        BY <2>2
      <3>2. QED  BY <1>3, <1>5, <1>9, <2>0, <2>2, <3>1 DEF AtFloor
    <2>3. CASE projected = <<0, 1>>
      <3>1. projected[1] = 0 /\ projected[2] = 1
        BY <2>3
      <3>2. 0 >= config.minHealthFactor * 1
        BY <1>5, <3>1 DEF HealthyEnough
      <3>3. debt["navi"] + counted \in Nat
        <4>1. debt["navi"] \in Nat
          BY <1>6 DEF LendingProtocols
        <4>2. QED  BY <1>7, <4>1
      <3>4. 0 >= config.minHealthFactor * (debt["navi"] + counted)
        BY <1>6, <3>2, <3>3, FailedIsUnhealthy
      <3>5. QED  BY <1>3, <1>9, <2>0, <3>1, <3>4 DEF AtFloor, HealthyEnough
    <2>4. QED  BY <2>1, <2>2, <2>3
  <1>10. QED  BY <1>6, <1>8, <1>9

\* What lands on protocol q keeps a projection at the floor, or borrows.
LEMMA LandingKeepsAllowed ==
  ASSUME AgentTypeOK, NEW tx, Landing(tx), NEW q, tx.protocol = q, config' = config,
         debt' = [debt EXCEPT ![q] = debt'[q]],
         tx.kind = "borrow" \/ debt'[q] \in 0..debt[q],
         NEW d \in Calls, d.pc = "executing", d.seen <= Last, BorrowAllowed(d, debt, config, landed)
  PROVE  BorrowAllowed(d, debt', config', landed')
  <1> DEFINE p == d.request.protocol
  <1>1. d.request \in Request /\ d.projected \in Nat \X Nat /\ d.counted \in Nat /\ d.seen \in Nat
    BY CallTypes
  <1>2. /\ p \in LendingProtocols /\ d.projected[1] \in Nat
        /\ debt[p] \in Nat /\ debt \in [LendingProtocols -> Nat] /\ config.minHealthFactor \in Int
    BY <1>1, ConfigType DEF Request, AgentTypeOK
  <1>3. CASE BorrowedSince(p, landed, d.seen)
    BY <1>3 DEF BorrowAllowed, BorrowedSince, Landing
  <1>4. CASE tx.protocol = p /\ tx.kind = "borrow"
    <2>1. Last \in Nat
      BY FS_CardinalityType DEF AgentTypeOK, Last
    <2>2. tx \in landed' /\ tx.digest > d.seen
      BY <1>1, <2>1 DEF Landing
    <2>3. QED  BY <1>4, <2>2 DEF BorrowAllowed, BorrowedSince
  <1>5. CASE /\ ~(tx.protocol = p /\ tx.kind = "borrow")
             /\ AtFloor(d, Weighted(p, debt[p]) + d.counted, config)
    <2>1. debt'[p] \in 0..debt[p]
      <3>1. CASE q = p
        BY <1>5, <3>1
      <3>2. CASE q # p
        <4>1. debt'[p] = debt[p]
          BY <1>2, <3>2
        <4>2. QED  BY <1>2, <4>1
      <3>3. QED  BY <3>1, <3>2
    <2> DEFINE a == d.projected[1]
               m == config.minHealthFactor
               old == Weighted(p, debt[p]) + d.counted
               new == Weighted(p, debt'[p]) + d.counted
    <2>2. old \in Nat /\ new \in Nat /\ new <= old
      <3>1. debt[p] \in Nat /\ debt'[p] \in Nat /\ debt'[p] <= debt[p] /\ d.counted \in Nat
        BY <1>1, <1>2, <2>1
      <3>2. QED  BY <3>1, WeightedMonotone
    <2>3. old <= 0 \/ a >= m * old
      BY <1>5 DEF AtFloor, HealthyEnough
    <2> HIDE DEF a, old, new, m
    <2>4. a \in Nat /\ m \in Int
      BY <1>2 DEF a, m
    <2>5. new <= 0 \/ a >= m * new
      BY <2>2, <2>3, <2>4, LessDebtIsHealthy
    <2>6. HealthyEnough(<<a, new>>, config)
      BY <2>5 DEF HealthyEnough, m
    <2>7. AtFloor(d, Weighted(p, debt'[p]) + d.counted, config')
      BY <2>6 DEF a, new, AtFloor
    <2>8. QED  BY <2>7 DEF BorrowAllowed
  <1>6. QED  BY <1>3, <1>4, <1>5 DEF BorrowAllowed

LEMMA NextBorrowInv ==
  AgentTypeOK /\ RoundInv /\ DigestInv /\ BorrowInv /\ [AgentNext]_agentVars => BorrowInv'
  <1> SUFFICES ASSUME AgentTypeOK, RoundInv, DigestInv, BorrowInv, [AgentNext]_agentVars,
                      NEW s \in Slots, calls'[s].pc = "executing", calls'[s].request.kind = "borrow"
               PROVE  calls'[s].seen <= Last' /\ BorrowAllowed(calls'[s], debt', config', landed')
    BY DEF BorrowInv
  <1>0. calls \in [Slots -> Calls] /\ calls[s] \in Calls
    BY DEF AgentTypeOK
  <1>1. calls[s].pc = "executing" /\ calls[s].request.kind = "borrow" =>
           calls[s].seen <= Last /\ BorrowAllowed(calls[s], debt, config, landed)
    BY DEF BorrowInv
  <1>2. Last \in Nat /\ Last' \in Nat /\ Last <= Last' /\ (landed' = landed => Last' = Last)
    BY LandedStep, LastGrows
  <1>3. ASSUME calls'[s] = calls[s], NEW q, NEW tx, Landing(tx), tx.protocol = q, config' = config,
               debt' = [debt EXCEPT ![q] = debt'[q]],
               tx.kind = "borrow" \/ debt'[q] \in 0..debt[q]
        PROVE  calls'[s].seen <= Last' /\ BorrowAllowed(calls'[s], debt', config', landed')
    <2>1. calls[s].seen \in Nat /\ calls[s].pc = "executing"
      BY <1>0, <1>3, CallTypes
    <2>2. calls[s].seen <= Last /\ BorrowAllowed(calls[s], debt, config, landed)
      BY <1>1, <1>3
    <2>3. BorrowAllowed(calls[s], debt', config', landed')
      BY <1>0, <1>3, <2>1, <2>2, LandingKeepsAllowed
    <2>4. QED  BY <1>2, <1>3, <2>1, <2>2, <2>3
  <1>4. CASE Quiet
    <2>1. CASE calls'[s] = calls[s] /\ debt' = debt /\ run' = run
      <3>1. landed' = landed /\ config' = config
        BY <1>4, <2>1 DEF Quiet
      <3>2. QED  BY <1>1, <1>2, <2>1, <3>1
    <2>2. CASE /\ PreparedAs(calls[s].request, calls'[s]) /\ calls[s].request \in Request
               /\ debt' = debt /\ landed' = landed
      <3>1. calls'[s].request = calls[s].request
        BY <2>2, PreparedType
      <3>2. calls'[s].seen = Last
        <4>1. PICK counted, projected : calls'[s] = ReadyCall(calls[s].request, counted, projected)
          BY <2>2, Zenon DEF PreparedAs
        <4>2. QED  BY <4>1 DEF ReadyCall
      <3>3. calls'[s].seen <= Last'
        BY <1>2, <3>2
      <3>4. CASE calls[s].request.protocol # "scallop"
        <4>1. AtFloor(calls'[s], Weighted(calls[s].request.protocol, debt[calls[s].request.protocol])
                                   + calls'[s].counted, config)
          BY <2>2, <3>1, <3>4, PreparedBorrow
        <4>2. QED  BY <1>4, <2>2, <3>1, <3>3, <4>1 DEF BorrowAllowed, Quiet
      <3>5. QED  BY <3>1, <3>3, <3>4 DEF BorrowAllowed
    <2>3. QED  BY <1>4, <2>1, <2>2 DEF Quiet
  <1>5. ASSUME NEW x \in Slots, Executes(x)
        PROVE  calls'[s].seen <= Last' /\ BorrowAllowed(calls'[s], debt', config', landed')
    <2>1. /\ calls'[s] = calls[s] /\ config' = config
          /\ calls[x].pc = "executing" /\ calls[x] \in Calls
      BY <1>0, <1>5 DEF Executes
    <2>2. CASE UNCHANGED chainVars
      BY <1>1, <1>2, <2>1, <2>2 DEF chainVars
    <2>3. CASE WriteLands(calls[x])
      <3>1. PICK tx : /\ Landing(tx) /\ tx.kind = calls[x].request.kind
                      /\ tx.protocol = calls[x].request.protocol
                      /\ debt' = [debt EXCEPT ![calls[x].request.protocol] = debt'[calls[x].request.protocol]]
                      /\ calls[x].request.kind # "borrow" =>
                            debt'[calls[x].request.protocol] \in 0..debt[calls[x].request.protocol]
        BY <2>1, <2>3, WriteLandsIs
      <3>2. QED  BY <1>3, <2>1, <3>1
    <2>4. QED  BY <1>5, <2>2, <2>3 DEF Executes
  <1>6. CASE Beside
    <2>1. calls' = calls /\ config' = config
      BY <1>6 DEF Beside
    <2>2. PICK q \in LendingProtocols :
          \E tx : /\ Landing(tx) /\ tx.kind = "borrow" /\ tx.protocol = q
                  /\ debt' = [debt EXCEPT ![q] = debt'[q]]
      BY <1>6 DEF Beside
    <2>3. QED  BY <1>3, <2>1, <2>2
  <1>7. QED  BY <1>4, <1>5, <1>6, QuietOrExecutes

LEMMA BorrowStepCorrect == BorrowInv => BorrowStep
  BY DEF BorrowInv, BorrowAllowed, BorrowStep, BorrowedSince, AtFloor

LEMMA BorrowsCorrect == AgentSpec => []BorrowInv
  <1>1. AgentInit => BorrowInv
    BY DEF AgentInit, BorrowInv, NoCall
  <1>2. QED
    BY <1>1, NextBorrowInv, AgentTypeCorrect, RoundCorrect, DigestsCorrect, PTL DEF AgentSpec

\* A borrow lands at the floor, at the limit its simulation read and for what it
\* counts the borrow for, over the debt there is by then, unless another borrow on
\* the protocol landed since: no repay, round or run in between brings it below
\* (runLendingWrite, simulateHealthFactorAfterBorrow, policy.ts).
THEOREM BorrowFloorHolds == AgentSpec => BorrowFloorAsCounted
  BY BorrowsCorrect, BorrowStepCorrect, PTL DEF BorrowFloorAsCounted

-----------------------------------------------------------------------------
(* What a step makes of a state of memory.                                 *)

\* t is made of s: it is faithful after the step, keeps what s kept, and says nothing
\* of old transactions that s did not say.
Carries(s, t) ==
    /\ t \in AgentState
    /\ Faithful(t, Last', landed')
    /\ \A facts : Keeps(s, facts) /\ TweetsDigested(facts, Last) => Keeps(t, facts)
    /\ Ages(s, t, Last)

LEMMA FaithfulLater ==
  ASSUME AgentTypeOK, DigestInv, landed' = landed \/ \E tx : Landing(tx),
         NEW s \in AgentState, Faithful(s, Last, landed)
  PROVE  Faithful(s, Last', landed')
  <1>1. Last \in Nat /\ Last' \in Nat /\ Last <= Last'
    BY LastGrows
  <1>2. Sound(s, Last')
    <2>1. Last \in Int /\ Last' \in Int
      BY <1>1
    <2>2. QED  BY <1>1, <2>1, SoundLater DEF Faithful
  <1>3. CASE landed' = landed
    BY <1>2, <1>3 DEF Faithful
  <1>4. ASSUME NEW tx, Landing(tx)
        PROVE  Truthful(s, landed')
    BY <1>1, <1>4, TruthfulLater DEF Landing, Faithful
  <1>5. QED  BY <1>2, <1>3, <1>4 DEF Faithful

LEMMA CarriesSame ==
  ASSUME AgentTypeOK, DigestInv, landed' = landed \/ \E tx : Landing(tx),
         NEW s \in AgentState, Faithful(s, Last, landed)
  PROVE  Carries(s, s)
  BY FaithfulLater DEF Carries, Ages

LEMMA CarriesNoted ==
  ASSUME NEW s, NEW t, NEW u \in AgentState, Carries(s, t), Noted(t, u)
  PROVE  Carries(s, u)
  BY SoundNoted, TruthfulNoted, KeepsNoted, AgesNoted DEF Carries, Faithful

LEMMA CarriesTweet ==
  ASSUME AgentTypeOK, DigestInv, landed' = landed, NEW s \in AgentState, Faithful(s, Last, landed),
         NEW id \in ActionIds, NEW status \in {"posted", "failed"}, Digested(id, Last)
  PROVE  Carries(s, recordTweet(s, id, status))
  <1> DEFINE t == recordTweet(s, id, status)
  <1>1. t \in AgentState /\ Tweeted(s, t, id, status)
    BY RecordTweetIs
  <1> HIDE DEF t
  <1>2. Last' = Last
    BY LastGrows
  <1>3. Sound(t, Last)
    BY <1>1, SoundTweeted DEF Faithful
  <1>4. Truthful(t, landed)
    BY <1>1, TruthfulTweeted DEF Faithful
  <1>5. ASSUME NEW facts, Keeps(s, facts)
        PROVE  Keeps(t, facts)
    BY <1>1, <1>5, KeepsTweeted
  <1>6. Ages(s, t, Last)
    BY <1>1, AgesTweeted
  <1>7. QED  BY <1>1, <1>2, <1>3, <1>4, <1>5, <1>6 DEF Carries, Faithful, t

\* The plan of a dry run, or the record of what landed in this step.
LEMMA CarriesRecord ==
  ASSUME AgentTypeOK, DigestInv, NEW s \in AgentState, Faithful(s, Last, landed),
         NEW a \in ActionInput, a.digest = Last + 1, NEW posting,
         \/ a.dryRun /\ landed' = landed
         \/ \E tx : Landing(tx) /\ ~a.dryRun /\ a.status = "confirmed" /\ a.kind = tx.kind /\ a.asset = tx.asset
  PROVE  Carries(s, recordPositionAction(s, a, posting))
  <1> DEFINE t      == recordPositionAction(s, a, posting)
             record == RecordOf(s, a)
  <1>1. t \in AgentState /\ Recorded(s, t, record)
    BY RecordPositionActionIs
  <1>2. /\ record.id = ActionId(a) /\ record.kind = a.kind /\ record.asset = a.asset
        /\ record.dryRun = a.dryRun /\ record.status = a.status
    BY DEF RecordOf
  <1> HIDE DEF t, record
  <1>3. NewEntry(record, Last)
    BY <1>2, ActionIdType DEF NewEntry
  <1>4. Last \in Nat /\ Last' \in Nat /\ Last <= Last'
    BY LastGrows
  <1>5. ~record.dryRun => Last < Last'
    BY <1>2, <1>4, LandingCounts
  <1>6. Sound(t, Last')
    BY <1>1, <1>3, <1>4, <1>5, SoundRecorded DEF Faithful
  <1>7. Truthful(s, landed')
    BY FaithfulLater DEF Faithful
  <1>8. ASSUME NEW tx \in landed', record.id = <<"tx", tx.digest>>
        PROVE  Describes(record, tx)
    <2>0. ActionId(a)[1] = "tx" /\ ActionId(a)[2] = tx.digest
      BY <1>2, <1>8
    <2>1. CASE a.dryRun
      BY <2>0, <2>1, ActionIdType
    <2>2. CASE ~a.dryRun
      <3>1. PICK new : /\ Landing(new) /\ a.status = "confirmed" /\ a.kind = new.kind /\ a.asset = new.asset
        BY <2>2
      <3>2. tx.digest = Last + 1
        BY <2>0, <2>2, ActionIdType
      <3>3. \A old \in landed : old.digest <= Last /\ old.digest \in Nat
        BY DEF DigestInv, AgentTypeOK, Transactions
      <3>4. tx = new
        BY <1>4, <3>1, <3>2, <3>3 DEF Landing
      <3>5. QED  BY <1>2, <2>2, <3>1, <3>4 DEF Describes
    <2>3. QED  BY <2>1, <2>2
  <1>9. Truthful(t, landed')
    BY <1>1, <1>7, <1>8, TruthfulRecorded
  <1>10. ASSUME NEW facts, Keeps(s, facts), TweetsDigested(facts, Last)
         PROVE  Keeps(t, facts)
    BY <1>1, <1>3, <1>4, <1>10, KeepsRecorded
  <1>11. Ages(s, t, Last)
    BY <1>1, <1>3, <1>4, AgesRecorded
  <1>12. QED  BY <1>1, <1>6, <1>9, <1>10, <1>11 DEF Carries, Faithful, t

-----------------------------------------------------------------------------
(* A step of a run that goes on, as the store sees it: memory is carried,  *)
(* and what is written anywhere is that memory or the blob of a call.      *)

\* A save is in the cache, and settles what it says.
Settles ==
    /\ settled' = settled \/ (cache' = mem' /\ settled' = settled \cup Facts(mem'))
    /\ uploaded' = uploaded /\ stranded' = stranded

Works ==
    /\ run.phase # "idle" /\ run'.phase # "idle" /\ config' = config
    /\ landed' = landed \/ \E tx : Landing(tx)
    /\ Carries(mem, mem')
    /\ cache' = cache \/ cache' = mem'
    /\ run'.phase = "final" => cache' = mem' /\ Facts(mem') \subseteq settled'
    /\ \/ pointer' = pointer
       \/ config.backend = "walrus" /\ pointer' = mem'
       \/ config.backend = "walrus" /\ \E s \in Slots : Saving(s) /\ pointer' = calls[s].blob
    /\ \A s \in Slots : calls'[s].pc = "saving" =>
          calls'[s].blob = mem' \/ (Saving(s) /\ calls'[s].blob = calls[s].blob)
    /\ \A s \in Slots : calls'[s].pc = "posting" => Digested(calls'[s].id, Last)
    /\ Settles

LEMMA StoredTypes ==
  ASSUME AgentTypeOK
  PROVE  /\ mem \in AgentState
         /\ \A s \in {cache, pointer, config.stateBlobId} : IsState(s) => s \in AgentState
         /\ \A s \in Slots : Saving(s) => calls[s].blob \in AgentState
  <1>1. config.stateBlobId \in AgentState \cup {NoBlob, Foreign}
    BY ConfigType DEF AgentTypeOK, RestoredState
  <1>2. \A s \in Slots : calls[s] \in Calls
    BY DEF AgentTypeOK
  <1>3. \A s \in Slots : Saving(s) => calls[s].blob \in AgentState
    BY <1>2, CallTypes DEF Saving
  <1>4. QED  BY <1>1, <1>3 DEF AgentTypeOK, IsState

LEMMA WorksKeepsRecords ==
  ASSUME AgentTypeOK, DigestInv, RecordsInv, Works
  PROVE  RecordsInv'
  <1>1. Last \in Int /\ Last' \in Int /\ Last <= Last'
    BY LastGrows DEF Works
  <1>2. Faithful(mem', Last', landed') /\ mem' \in AgentState
    BY DEF Works, Carries
  <1>3. ASSUME NEW s \in {cache, pointer, config.stateBlobId}, IsState(s)
        PROVE  Faithful(s, Last', landed')
    BY <1>3, StoredTypes, FaithfulLater DEF Works, RecordsInv
  <1>4. ASSUME NEW s \in Slots, Saving(s)
        PROVE  Faithful(calls[s].blob, Last', landed')
    BY <1>4, StoredTypes, FaithfulLater DEF Works, RecordsInv
  <1>5. ASSUME NEW s \in {cache', pointer', config'.stateBlobId}, IsState(s)
        PROVE  Faithful(s, Last', landed')
    <2>1. s \in {cache, pointer, config.stateBlobId, mem'} \/ \E x \in Slots : Saving(x) /\ s = calls[x].blob
      BY <1>5 DEF Works
    <2>2. QED  BY <1>2, <1>3, <1>4, <1>5, <2>1
  <1>6. ASSUME NEW s \in Slots, calls'[s].pc = "saving"
        PROVE  Faithful(calls'[s].blob, Last', landed')
    BY <1>2, <1>4, <1>6 DEF Works
  <1>7. \A s \in Slots : calls'[s].pc = "posting" => Digested(calls'[s].id, Last')
    BY <1>1, DigestedLater DEF Works
  <1>8. TweetsDigested(settled', Last')
    <2>1. TweetsDigested(settled, Last')
      BY <1>1, DigestedLater DEF RecordsInv
    <2>2. TweetsDigested(Facts(mem'), Last')
      BY <1>2, FactsDigested DEF Faithful
    <2>3. QED  BY <2>1, <2>2 DEF TweetsDigested, Works, Settles
  <1>9. QED  BY <1>2, <1>5, <1>6, <1>7, <1>8 DEF RecordsInv, Saving, IsState

\* What is owed after such a step was owed before it, or was saved in it.
LEMMA WorksOwes ==
  ASSUME Works
  PROVE  Owed' \subseteq Owed \cup Facts(mem') /\ Safe' = Safe
  BY DEF Works, Settles, Owed, Safe

\* What is uploaded, or owed, says of tweets no more than what is settled.
LEMMA OwedDigested ==
  ASSUME RecordsInv, KeepsInv
  PROVE  TweetsDigested(Owed, Last) /\ Safe \subseteq Owed
  BY DEF RecordsInv, KeepsInv, TweetsDigested, Owed, Safe

\* The blob of the next load names a state.
LEMMA BlobAtIs ==
  ASSUME AgentTypeOK, NEW p \in AgentState \cup {NoBlob}
  PROVE  /\ BlobAt(p) # NoBlob =>
               /\ BlobAt(p) \in AgentState
               /\ BlobAt(p) = p \/ BlobAt(p) = config.stateBlobId
         /\ p \in AgentState /\ config.backend = "walrus" => BlobAt(p) = p
  <1>1. config.stateBlobId \in AgentState \cup {NoBlob, Foreign}
    BY ConfigType DEF AgentTypeOK, RestoredState
  <1>2. QED  BY <1>1, StoreAssumption DEF BlobAt, normalizeAgentState

LEMMA WorksKeepsSettled ==
  ASSUME AgentTypeOK, RecordsInv, KeepsInv, Works
  PROVE  KeepsInv'
  <1>0. pointer \in AgentState \cup {NoBlob}
    BY DEF AgentTypeOK
  <1>1. Sound(mem', Last') /\ mem' \in AgentState
    BY DEF Works, Carries, Faithful
  <1>2. Keeps(mem', Owed')
    <2>1. Keeps(mem, Owed) /\ TweetsDigested(Owed, Last)
      BY OwedDigested DEF Works, KeepsInv
    <2>2. Keeps(mem', Owed)
      BY <2>1 DEF Works, Carries
    <2>3. Keeps(mem', Owed \cup Facts(mem'))
      BY <1>1, <2>2, KeepsFacts
    <2>4. QED  BY <2>3, WorksOwes, KeepsFewer
  <1>3. Keeps(mem', Safe')
    <2>1. Safe' \subseteq Owed'
      BY OwedDigested DEF Works, Settles, Owed, Safe
    <2>2. QED  BY <1>2, <2>1, KeepsFewer
  <1>4. uploaded' \subseteq settled'
    BY DEF KeepsInv, Works, Settles
  <1>5. IF cache' = NoBlob THEN settled' = {} ELSE Keeps(cache', Owed')
    <2>1. CASE cache' = mem'
      BY <1>1, <1>2, <2>1, StoreAssumption
    <2>2. CASE cache' # mem'
      <3>1. settled' = settled /\ cache' = cache /\ Owed' = Owed
        BY <2>2 DEF Works, Settles, Owed
      <3>2. QED  BY <3>1 DEF KeepsInv
    <2>3. QED  BY <2>1, <2>2
  <1>6. \A s \in Slots : Saving(s) => Keeps(calls[s].blob, Safe')
    BY WorksOwes DEF KeepsInv, BlobsKeep
  <1>7. \A s \in Slots : calls'[s].pc = "saving" => Keeps(calls'[s].blob, Safe')
    BY <1>3, <1>6 DEF Works
  <1>8. BlobAt(pointer') # NoBlob => Keeps(BlobAt(pointer'), Safe')
    <2>1. CASE pointer' = pointer
      BY <2>1, WorksOwes DEF KeepsInv, BlobsKeep
    <2>2. CASE config.backend = "walrus" /\ pointer' = mem'
      BY <1>1, <1>3, <2>2, BlobAtIs
    <2>3. ASSUME NEW s \in Slots, Saving(s), config.backend = "walrus", pointer' = calls[s].blob
          PROVE  Keeps(BlobAt(pointer'), Safe')
      <3>1. calls[s].blob \in AgentState
        BY <2>3, StoredTypes
      <3>2. BlobAt(pointer') = calls[s].blob
        BY <2>3, <3>1, BlobAtIs
      <3>3. QED  BY <1>6, <2>3, <3>2
    <2>4. QED  BY <2>1, <2>2, <2>3 DEF Works
  <1>9. BlobsKeep'
    <2>1. BlobAt(pointer)' = BlobAt(pointer') /\ run'.phase # "idle"
      BY DEF Works, BlobAt
    <2>2. QED  BY <1>7, <1>8, <2>1 DEF BlobsKeep, Saving
  <1>10. run'.phase = "final" => cache' = mem' /\ Facts(mem') \subseteq settled'
    BY DEF Works
  <1>11. QED  BY <1>2, <1>4, <1>5, <1>9, <1>10 DEF KeepsInv

\* Memory, the saves under way and the store as they were.
StoreStutters ==
    /\ UNCHANGED <<config, mem, cache, pointer, promises>>
    /\ landed' = landed \/ \E tx : Landing(tx)
    /\ run' = run \/ (run.phase # "idle" /\ run'.phase \notin {"idle", "final"})
    /\ \A s \in Slots : calls'[s] = calls[s] \/ calls'[s].pc \notin {"saving", "posting"}

LEMMA StutterKeepsRecords ==
  ASSUME AgentTypeOK, DigestInv, RecordsInv, StoreStutters
  PROVE  RecordsInv'
  <1>1. Last \in Int /\ Last' \in Int /\ Last <= Last'
    BY LastGrows DEF StoreStutters
  <1>2. UNCHANGED <<config, mem, cache, pointer, settled>>
    BY DEF StoreStutters, promises
  <1>3. Faithful(mem, Last', landed')
    BY StoredTypes, FaithfulLater DEF StoreStutters, RecordsInv
  <1>4. ASSUME NEW s \in {cache, pointer, config.stateBlobId}, IsState(s)
        PROVE  Faithful(s, Last', landed')
    BY <1>4, StoredTypes, FaithfulLater DEF StoreStutters, RecordsInv
  <1>5. ASSUME NEW s \in Slots, Saving(s)
        PROVE  Faithful(calls[s].blob, Last', landed')
    BY <1>5, StoredTypes, FaithfulLater DEF StoreStutters, RecordsInv
  <1>6. \A s \in Slots : calls'[s].pc = "saving" => Faithful(calls'[s].blob, Last', landed')
    BY <1>5 DEF StoreStutters, Saving
  <1>7. \A s \in Slots : calls'[s].pc = "posting" => Digested(calls'[s].id, Last')
    BY <1>1, DigestedLater DEF StoreStutters, RecordsInv
  <1>8. TweetsDigested(settled', Last')
    BY <1>1, <1>2, DigestedLater DEF RecordsInv
  <1>9. QED  BY <1>2, <1>3, <1>4, <1>6, <1>7, <1>8 DEF RecordsInv, Saving, IsState

LEMMA StutterKeepsSettled == KeepsInv /\ StoreStutters => KeepsInv'
  <1> SUFFICES ASSUME KeepsInv, StoreStutters
               PROVE  KeepsInv'
    OBVIOUS
  <1>1. /\ UNCHANGED <<config, mem, cache, pointer, settled, uploaded, stranded>>
        /\ Owed' = Owed /\ Safe' = Safe
    BY DEF StoreStutters, promises, Owed, Safe
  <1>2. BlobAt(pointer)' = BlobAt(pointer)
    BY <1>1 DEF BlobAt
  <1>3. \A s \in Slots : calls'[s].pc = "saving" => Keeps(calls'[s].blob, Safe)
    BY DEF KeepsInv, BlobsKeep, Saving, StoreStutters
  <1>4. run'.phase \in {"idle", "final"} => run'.phase = run.phase
    BY DEF StoreStutters
  <1>5. run'.phase # "idle" => run.phase # "idle"
    BY DEF StoreStutters
  <1>6. BlobsKeep'
    BY <1>1, <1>2, <1>3, <1>4 DEF KeepsInv, BlobsKeep, Saving
  <1>7. QED  BY <1>1, <1>4, <1>5, <1>6 DEF KeepsInv

LEMMA SavedSettles ==
  ASSUME cache' = mem', Settle(mem')
  PROVE  Settles
  BY DEF Settle, Settles

LEMMA RepayRecordCarries ==
  ASSUME AgentTypeOK, DigestInv, RecordsInv, NEW p \in LendingProtocols, NEW amount \in Nat,
         \/ config.dryRun /\ landed' = landed
         \/ RepayLands(p, amount)
  PROVE  Carries(mem, recordPositionAction(mem, RepayAction(p, config.borrowAsset), TRUE))
  <1> DEFINE a == RepayAction(p, config.borrowAsset)
  <1>1. a \in ActionInput
    BY ActionTypes, ConfigType DEF AgentTypeOK
  <1>2. /\ a.digest = Last + 1 /\ a.dryRun = config.dryRun /\ a.kind = "repay"
        /\ a.asset = config.borrowAsset
        /\ ~config.dryRun => a.status = "confirmed"
    BY DEF RepayAction, Last
  <1> HIDE DEF a
  <1>3. \/ a.dryRun /\ landed' = landed
        \/ \E tx : Landing(tx) /\ ~a.dryRun /\ a.status = "confirmed" /\ a.kind = tx.kind /\ a.asset = tx.asset
    BY <1>2, RepayLandsIs
  <1>4. mem \in AgentState /\ Faithful(mem, Last, landed)
    BY DEF AgentTypeOK, RecordsInv
  <1>5. Carries(mem, recordPositionAction(mem, a, TRUE))
    BY <1>1, <1>2, <1>3, <1>4, CarriesRecord
  <1>6. QED  BY <1>5 DEF a

LEMMA MemCarries ==
  ASSUME AgentTypeOK, DigestInv, RecordsInv, landed' = landed \/ \E tx : Landing(tx)
  PROVE  Carries(mem, mem)
  BY CarriesSame DEF AgentTypeOK, RecordsInv

LEMMA GuardWorks == AgentTypeOK /\ RoundInv /\ DigestInv /\ RecordsInv /\ GuardStep => Works
  <1> SUFFICES ASSUME AgentTypeOK, RoundInv, DigestInv, RecordsInv, GuardStep
               PROVE  Works
    OBVIOUS
  <1>0. run \in RunType
    BY AgentTypeParts
  <1>1. calls' = calls /\ (cache' = cache \/ cache' = mem' => Settles)
    BY SavedSettles DEF GuardStep, Settles, promises
  <1>2. run.phase \in {"guard", "saving"} /\ config' = config /\ run'.phase \notin {"idle", "final"}
    <2>1. CASE GuardProtocol
      <3>1. run.phase = "guard" /\ config' = config
        BY <2>1, GuardProtocolIs
      <3>2. CASE GuardPassed
        BY <1>0, <3>1, <3>2 DEF GuardPassed, RunType
      <3>3. ASSUME NEW verdict, GuardAnswered(verdict)
            PROVE  run'.phase \notin {"idle", "final"}
        BY <1>0, <3>3 DEF GuardAnswered, RunType
      <3>4. QED  BY <2>1, <3>1, <3>2, <3>3, GuardProtocolIs
    <2>2. CASE GuardEnds
      BY <1>0, <2>2, GuardEndsIs DEF RunType
    <2>3. CASE GuardSaved
      BY <1>0, <2>3, GuardSavedIs DEF RunType
    <2>4. QED  BY <2>1, <2>2, <2>3 DEF GuardStep, GuardNext
  <1>3. /\ \A s \in Slots : calls'[s].pc = "free"
        /\ landed' = landed \/ \E tx : Landing(tx)
    BY <1>1, <1>2, LandedStep DEF RoundInv, NoCall, AgentNext
  <1>4. ASSUME Carries(mem, mem'), cache' = cache \/ cache' = mem',
               pointer' = pointer \/ (config.backend = "walrus" /\ pointer' = mem')
        PROVE  Works
    BY <1>1, <1>2, <1>3, <1>4 DEF Works
  <1>5. CASE GuardPassed \/ GuardEnds
    <2>1. mem' = mem \/ mem' = clearHealthAlert(mem)
      BY <1>5, GuardEndsIs DEF GuardPassed
    <2>2. Carries(mem, mem) /\ mem \in AgentState
      BY <1>3, MemCarries DEF AgentTypeOK
    <2>3. Carries(mem, mem')
      BY <2>1, <2>2, ClearHealthAlertIs, CarriesNoted
    <2>4. cache' = cache /\ pointer' = pointer
      BY <1>5, GuardEndsIs DEF GuardPassed, storeVars
    <2>5. QED  BY <1>4, <2>3, <2>4
  <1>8. CASE GuardSaved
    <2>1. mem' = mem /\ GuardUploads
      BY <1>8, GuardSavedIs
    <2>2. Carries(mem, mem')
      BY <1>3, <2>1, MemCarries
    <2>3. QED  BY <1>4, <2>1, <2>2 DEF GuardUploads
  <1>6. ASSUME NEW p \in LendingProtocols, NEW amount \in Nat, GuardAlerts(p, amount)
        PROVE  Works
    <2> DEFINE recorded == recordPositionAction(mem, RepayAction(p, config.borrowAsset), TRUE)
    <2>1. PICK m \in {mem, recorded} : (m # mem => config.dryRun) /\ mem' = queueHealthAlert(m, p)
      BY <1>6 DEF GuardAlerts
    <2>2. Carries(mem, m)
      <3>1. CASE m = mem
        BY <1>3, <3>1, MemCarries
      <3>2. CASE m # mem
        <4>1. config.dryRun /\ m = recorded
          BY <2>1, <3>2
        <4>2. landed' = landed
          BY <1>6, <4>1 DEF GuardAlerts, RepayLands, chainVars
        <4>3. Carries(mem, recorded)
          BY <4>1, <4>2, RepayRecordCarries
        <4>4. QED  BY <4>1, <4>3
      <3>3. QED  BY <3>1, <3>2
    <2> HIDE DEF recorded
    <2>3. m \in AgentState
      BY <2>2 DEF Carries
    <2>4. mem' \in AgentState /\ Noted(m, mem')
      BY <2>1, <2>3, QueueHealthAlertIs
    <2>5. Carries(mem, mem')
      BY <2>2, <2>4, CarriesNoted
    <2>6. QED  BY <1>4, <1>6, <2>5 DEF GuardAlerts
  <1>7. ASSUME NEW p \in LendingProtocols, NEW amount \in Nat, GuardRepays(p, amount)
        PROVE  Works
    <2> DEFINE m == recordPositionAction(mem, RepayAction(p, config.borrowAsset), TRUE)
    <2>1. Carries(mem, m)
      BY <1>7, RepayRecordCarries DEF GuardRepays
    <2>2. mem' = clearHealthAlert(m)
      BY <1>7 DEF GuardRepays
    <2> HIDE DEF m
    <2>3. m \in AgentState
      BY <2>1 DEF Carries
    <2>4. mem' \in AgentState /\ Noted(m, mem')
      BY <2>2, <2>3, ClearHealthAlertIs
    <2>5. Carries(mem, mem')
      BY <2>1, <2>4, CarriesNoted
    <2>6. QED  BY <1>4, <1>7, <2>5 DEF GuardRepays
  <1>9. QED  BY <1>5, <1>6, <1>7, <1>8, GuardProtocolIs DEF GuardStep, GuardNext

\* A tweet is about a live action, which a sound memory names by its digest.
LEMMA PostTargetDigested ==
  ASSUME AgentTypeOK, RecordsInv, NEW id, PostTarget(id)
  PROVE  Digested(id, Last)
  <1>1. mem \in AgentState /\ Sound(mem, Last)
    BY DEF AgentTypeOK, RecordsInv, Faithful
  <1>2. PICK i \in DOMAIN mem.actions : mem.actions[i].id = id /\ ~mem.actions[i].dryRun
    BY <1>1, FindIs DEF PostTarget
  <1>3. QED  BY <1>1, <1>2, EntryIdType DEF Sound, Digested

LEMMA ModelCallsWorks == AgentTypeOK /\ DigestInv /\ RecordsInv /\ ModelCalls => Works
  <1> SUFFICES ASSUME AgentTypeOK, DigestInv, RecordsInv, ModelCalls
               PROVE  Works
    OBVIOUS
  <1>1. /\ run.phase = "model" /\ run'.phase = "tools"
        /\ UNCHANGED <<storeVars, chainVars, config, mem, promises>>
    BY ModelCallsIs DEF AgentTypeOK
  <1>2. \A s \in Slots : calls'[s].pc # "saving" /\ (calls'[s].pc = "posting" => Digested(calls'[s].id, Last))
    BY ModelCallsIs, PostTargetDigested DEF StartedAs, NoCall
  <1>3. Carries(mem, mem)
    BY <1>1, MemCarries DEF chainVars
  <1>4. QED  BY <1>1, <1>2, <1>3 DEF Works, Settles, promises, storeVars, chainVars

\* What a call leaves of the others, and of itself.
LEMMA CallsLeft ==
  ASSUME AgentTypeOK, RecordsInv, NEW s \in Slots, NEW c, calls' = [calls EXCEPT ![s] = c],
         c.pc # "posting", c.pc = "saving" => c.blob = mem'
  PROVE  /\ \A x \in Slots : calls'[x].pc = "saving" =>
               calls'[x].blob = mem' \/ (Saving(x) /\ calls'[x].blob = calls[x].blob)
         /\ \A x \in Slots : calls'[x].pc = "posting" => Digested(calls'[x].id, Last)
  <1>1. \A x \in Slots : calls'[x] = calls[x] \/ calls'[x] = c
    BY DEF AgentTypeOK
  <1>2. QED  BY <1>1 DEF RecordsInv, Saving

LEMMA WriteRecordCarries ==
  ASSUME AgentTypeOK, DigestInv, RecordsInv, NEW c \in Calls, c.pc = "executing", NEW posting,
         \/ config.dryRun /\ landed' = landed
         \/ ~config.dryRun /\ WriteLands(c)
  PROVE  Carries(mem, recordPositionAction(mem, WriteAction(c.request), posting))
  <1> DEFINE r == c.request
             a == WriteAction(r)
  <1>1. r \in Request /\ r.protocol \in LendingProtocols /\ r.asset \in STRING
    BY CallTypes DEF Request
  <1>2. a \in ActionInput
    BY <1>1, ActionTypes
  <1>3. /\ a.digest = Last + 1 /\ a.dryRun = config.dryRun /\ a.kind = r.kind /\ a.asset = r.asset
        /\ ~config.dryRun => a.status = "confirmed"
    BY DEF WriteAction, Last
  <1> HIDE DEF a
  <1>4. \/ a.dryRun /\ landed' = landed
        \/ \E tx : Landing(tx) /\ ~a.dryRun /\ a.status = "confirmed" /\ a.kind = tx.kind /\ a.asset = tx.asset
    BY <1>3, WriteLandsIs
  <1>5. mem \in AgentState /\ Faithful(mem, Last, landed)
    BY DEF AgentTypeOK, RecordsInv
  <1>6. Carries(mem, recordPositionAction(mem, a, posting))
    BY <1>2, <1>3, <1>4, <1>5, CarriesRecord
  <1>7. QED  BY <1>6 DEF a

LEMMA CallWorks ==
  \A s \in Slots : AgentTypeOK /\ RoundInv /\ DigestInv /\ RecordsInv /\ CallNext(s) => Works
  <1> SUFFICES ASSUME NEW s \in Slots, AgentTypeOK, RoundInv, DigestInv, RecordsInv, CallNext(s)
               PROVE  Works
    OBVIOUS
  <1>1. /\ run.phase = "tools" /\ run' = run /\ config' = config
        /\ landed' = landed \/ \E tx : Landing(tx)
    BY CallKeepsRound, LandedStep DEF AgentNext
  <1>2. calls[s] \in Calls /\ NoCall.pc = "free"
    BY DEF AgentTypeOK, NoCall
  <1>3. ASSUME NEW c, calls' = [calls EXCEPT ![s] = c], c.pc # "posting",
               c.pc = "saving" => c.blob = mem', Carries(mem, mem'),
               cache' = cache \/ cache' = mem',
               \/ pointer' = pointer
               \/ config.backend = "walrus" /\ Saving(s) /\ pointer' = calls[s].blob,
               Settles
        PROVE  Works
    <2>1. /\ \A x \in Slots : calls'[x].pc = "saving" =>
                calls'[x].blob = mem' \/ (Saving(x) /\ calls'[x].blob = calls[x].blob)
          /\ \A x \in Slots : calls'[x].pc = "posting" => Digested(calls'[x].id, Last)
      BY <1>3, CallsLeft
    <2>2. run.phase # "idle" /\ run'.phase \notin {"idle", "final"}
      BY <1>1
    <2>3. QED  BY <1>1, <1>3, <2>1, <2>2 DEF Works
  <1>4. CASE Prepare(s)
    <2>1. PICK c : /\ calls' = [calls EXCEPT ![s] = c]
                   /\ c = NoCall \/ PreparedAs(calls[s].request, c)
      BY <1>4, PrepareIs
    <2>2. c.pc \notin {"saving", "posting"}
      <3>1. calls[s].request \in Request
        BY <1>2, <1>4, PrepareIs, CallTypes
      <3>2. QED  BY <1>2, <2>1, <3>1, PreparedType
    <2>3. UNCHANGED <<storeVars, mem, promises>> /\ Carries(mem, mem)
      BY <1>1, <1>4, PrepareIs, MemCarries
    <2>4. QED  BY <1>3, <2>1, <2>2, <2>3 DEF storeVars, Settles, promises
  <1>5. CASE Plan(s)
    <2>1. /\ mem' = recordPositionAction(mem, WriteAction(calls[s].request), TRUE)
          /\ calls' = [calls EXCEPT ![s] = NoCall] /\ pointer' = pointer
          /\ cache' = mem' /\ Settle(mem') /\ config.dryRun /\ calls[s].pc = "executing"
          /\ landed' = landed
      BY <1>5, PlanIs DEF chainVars
    <2>2. Carries(mem, mem')
      BY <1>2, <2>1, WriteRecordCarries
    <2>3. QED  BY <1>2, <1>3, <2>1, <2>2, SavedSettles
  <1>6. ASSUME NEW answer \in {"digest", "threw"}, Execute(s, answer)
        PROVE  Works
    <2>1. calls[s].pc = "executing" /\ ~config.dryRun /\ pointer' = pointer
      BY <1>6, ExecuteIs
    <2>2. CASE /\ WriteLands(calls[s])
               /\ mem' = recordPositionAction(mem, WriteAction(calls[s].request), config.posting)
               /\ cache' = mem' /\ Settle(mem')
               /\ calls' = [calls EXCEPT ![s] = [pc |-> "saving", blob |-> mem']]
      <3>1. Carries(mem, mem')
        BY <1>2, <2>1, <2>2, WriteRecordCarries
      <3>2. [pc |-> "saving", blob |-> mem'].pc # "posting" /\ [pc |-> "saving", blob |-> mem'].blob = mem'
        OBVIOUS
      <3>3. QED  BY <1>3, <2>1, <2>2, <3>1, <3>2, SavedSettles
    <2>3. CASE calls' = [calls EXCEPT ![s] = NoCall] /\ UNCHANGED <<mem, cache, promises>>
      <3>1. Carries(mem, mem)
        BY <1>1, MemCarries
      <3>2. QED  BY <1>2, <1>3, <2>1, <2>3, <3>1 DEF Settles, promises
    <2>4. QED  BY <1>6, <2>2, <2>3, ExecuteIs
  <1>7. ASSUME NEW answer \in {"posted", "failed"}, Post(s, answer)
        PROVE  Works
    <2>1. /\ calls[s].pc = "posting" /\ mem' = recordTweet(mem, calls[s].id, answer)
          /\ cache' = mem' /\ Settle(mem') /\ landed' = landed /\ pointer' = pointer
      BY <1>7, PostIs DEF chainVars
    <2>2. calls[s].id \in ActionIds /\ Digested(calls[s].id, Last)
      BY <1>2, <2>1, CallTypes DEF RecordsInv
    <2>3. mem \in AgentState /\ Faithful(mem, Last, landed)
      BY DEF AgentTypeOK, RecordsInv
    <2>4. Carries(mem, mem')
      BY <2>1, <2>2, <2>3, CarriesTweet
    <2>5. [pc |-> "saving", blob |-> mem'].pc # "posting" /\ [pc |-> "saving", blob |-> mem'].blob = mem'
      OBVIOUS
    <2>6. PICK c \in {NoCall, [pc |-> "saving", blob |-> mem']} : calls' = [calls EXCEPT ![s] = c]
      BY <1>7, PostIs
    <2>7. c.pc # "posting" /\ (c.pc = "saving" => c.blob = mem')
      BY <1>2, <2>5, <2>6
    <2>8. QED  BY <1>3, <2>1, <2>4, <2>6, <2>7, SavedSettles
  <1>8. CASE SaveEnds(s)
    <2>1. UNCHANGED <<mem, cache, promises>> /\ Carries(mem, mem)
      BY <1>1, <1>8, SaveEndsIs, MemCarries
    <2>2. QED  BY <1>2, <1>3, <1>8, <2>1, SaveEndsIs DEF Saving, Settles, promises
  <1>9. QED  BY <1>4, <1>5, <1>6, <1>7, <1>8 DEF CallNext

LEMMA CloseWorks ==
  AgentTypeOK /\ RoundInv /\ DigestInv /\ RecordsInv
  /\ (ReadTool \/ \E archived \in BOOLEAN : EndRun(archived)) => Works
  <1> SUFFICES ASSUME AgentTypeOK, RoundInv, DigestInv, RecordsInv,
                      ReadTool \/ \E archived \in BOOLEAN : EndRun(archived)
               PROVE  Works
    OBVIOUS
  <1>0. \A s \in Slots : calls'[s] = calls[s]
    BY RunEndIs DEF ReadTool
  <1>1. /\ \A s \in Slots : calls'[s].pc = "saving" => Saving(s) /\ calls'[s].blob = calls[s].blob
        /\ \A s \in Slots : calls'[s].pc = "posting" => Digested(calls'[s].id, Last)
    BY <1>0 DEF RecordsInv, Saving
  <1>2. CASE ReadTool
    <2>1. /\ run.phase = "tools" /\ run' = run /\ cache' = mem /\ mem' = mem /\ pointer' = pointer
          /\ config' = config /\ landed' = landed /\ Settle(mem')
      BY <1>2 DEF ReadTool, saveAgentState, chainVars, Settle
    <2>4. Settles
      BY <2>1, SavedSettles
    <2>2. Carries(mem, mem')
      BY <2>1, MemCarries
    <2>3. QED  BY <1>1, <2>1, <2>2, <2>4 DEF Works
  <1>3. ASSUME NEW archived \in BOOLEAN, EndRun(archived)
        PROVE  Works
    <2>0. run' = [run EXCEPT !.phase = "final"] /\ run \in RunType
      BY <1>3, RunEndIs, AgentTypeParts
    <2>1. /\ run.phase = "model" /\ cache' = mem' /\ pointer' = pointer
          /\ config' = config /\ landed' = landed /\ Settle(mem')
          /\ mem' \in AgentState /\ Noted(mem, mem') /\ run'.phase = "final"
      BY <1>3, <2>0, RunEndIs DEF chainVars, RunType
    <2>5. Settles /\ Facts(mem') \subseteq settled'
      BY <2>1, SavedSettles DEF Settle
    <2>2. Carries(mem, mem)
      BY <2>1, MemCarries
    <2>3. Carries(mem, mem')
      BY <2>1, <2>2, CarriesNoted
    <2>4. QED  BY <1>1, <2>1, <2>3, <2>5 DEF Works
  <1>4. QED  BY <1>2, <1>3

\* An empty memory says nothing.
LEMMA EmptyFaithful ==
  /\ \A last, txs : Faithful(createEmptyAgentState, last, txs)
  /\ \A s : Keeps(s, {})
  <1>1. createEmptyAgentState.actions = <<>> /\ createEmptyAgentState.tweets = <<>>
    BY DEF createEmptyAgentState
  <1>2. DOMAIN (<<>>) = {}
    OBVIOUS
  <1>3. \A last, txs : Faithful(createEmptyAgentState, last, txs)
    BY <1>1, <1>2 DEF Faithful, Sound, Truthful
  <1>4. QED  BY <1>3 DEF Keeps

\* A run starts from a state that is faithful and keeps what is owed.
LEMMA StartsFaithful ==
  ASSUME AgentTypeOK, RecordsInv, NEW s, StartsFrom(s)
  PROVE  Faithful(s, Last, landed)
  <1>1. CASE s = BlobAt(pointer) /\ s # NoBlob
    <2>1. s \in {pointer, config.stateBlobId} /\ IsState(s)
      BY <1>1, BlobAtIs, StoreAssumption DEF AgentTypeOK, IsState
    <2>2. QED  BY <2>1 DEF RecordsInv
  <1>2. CASE s = loadAgentState
    <2>1. CASE s = cache
      <3>1. IsState(cache)
        BY <2>1, StoreAssumption DEF StartsFrom, IsState
      <3>2. QED  BY <2>1, <3>1 DEF RecordsInv
    <2>2. CASE s # cache
      BY <1>2, <2>2, EmptyFaithful DEF loadAgentState
    <2>3. QED  BY <2>1, <2>2
  <1>3. QED  BY <1>1, <1>2 DEF StartsFrom

LEMMA StartsKeeping ==
  ASSUME AgentTypeOK, KeepsInv, run.phase = "idle", NEW s, StartsFrom(s)
  PROVE  Keeps(s, Owed)
  <1>1. CASE s = BlobAt(pointer) /\ s # NoBlob
    BY <1>1 DEF KeepsInv, BlobsKeep
  <1>2. CASE s = loadAgentState
    <2>1. CASE cache = NoBlob
      <3>1. Owed = {}
        BY <2>1 DEF KeepsInv, Owed
      <3>2. QED  BY <3>1, EmptyFaithful
    <2>2. CASE cache # NoBlob
      <3>1. cache \in AgentState
        BY <2>2 DEF AgentTypeOK
      <3>2. s = cache
        BY <1>2, <2>2, <3>1, StoreAssumption DEF loadAgentState, normalizeAgentState
      <3>3. QED  BY <2>2, <3>2 DEF KeepsInv
    <2>3. QED  BY <2>1, <2>2
  <1>3. QED  BY <1>1, <1>2 DEF StartsFrom

LEMMA StartRunKeeps ==
  AgentTypeOK /\ RoundInv /\ RecordsInv /\ KeepsInv /\ StartRun => RecordsInv' /\ KeepsInv'
  <1> SUFFICES ASSUME AgentTypeOK, RoundInv, RecordsInv, KeepsInv, StartRun
               PROVE  RecordsInv' /\ KeepsInv'
    OBVIOUS
  <1>1. /\ UNCHANGED <<config, calls, settled, uploaded, stranded, landed>> /\ Last' = Last
        /\ run.phase = "idle" /\ run'.phase = "guard"
        /\ run.id \in Nat
    <2>1. UNCHANGED <<config, calls, settled, uploaded, stranded, landed>> /\ run.phase = "idle"
      BY StartRunIs DEF chainVars, promises
    <2>2. run'.phase = "guard"
      BY StartRunIs DEF NoRun
    <2>3. run.id \in Nat
      BY AgentAssumption DEF AgentTypeOK
    <2>4. QED  BY <2>1, <2>2, <2>3 DEF Last
  <1>2. PICK s : StartsFrom(s)
    BY StartRunIs
  <1>3. Faithful(s, Last, landed) /\ Keeps(s, Owed)
    BY <1>1, <1>2, StartsFaithful, StartsKeeping
  <1>4. /\ s \in AgentState /\ mem' = beginRun(s, run.id + 1) /\ pointer' = pointer
        /\ cache' = s \/ cache' = cache
    BY <1>2 DEF StartsFrom
  <1>5. Noted(s, mem')
    BY <1>1, <1>4, BeginRunIs
  <1>6. Faithful(mem', Last, landed) /\ Keeps(mem', Owed)
    BY <1>3, <1>5, SoundNoted, TruthfulNoted, KeepsNoted DEF Faithful
  <1>7. \A x \in {cache', pointer', config'.stateBlobId} : IsState(x) => Faithful(x, Last, landed)
    BY <1>1, <1>3, <1>4 DEF RecordsInv
  <1>8. RecordsInv'
    BY <1>1, <1>6, <1>7 DEF RecordsInv, Saving, IsState
  <1>9. IF cache' = NoBlob THEN settled = {} ELSE Keeps(cache', Owed)
    BY <1>3, <1>4, StoreAssumption DEF KeepsInv
  <1>10. BlobAt(pointer)' = BlobAt(pointer) /\ Safe' = Safe /\ Owed' = Owed
    BY <1>1, <1>4 DEF BlobAt, Safe, Owed
  <1>11. BlobsKeep'
    BY <1>1, <1>10 DEF KeepsInv, BlobsKeep, Saving
  <1>12. KeepsInv'
    BY <1>1, <1>6, <1>9, <1>10, <1>11 DEF KeepsInv
  <1>13. QED  BY <1>8, <1>12

\* What a run leaves behind is what the blob of the next load lacks: that blob
\* keeps the rest.
LEMMA StrandKeeps ==
  ASSUME AgentTypeOK, RecordsInv, KeepsInv, pointer' \in {pointer, NoBlob},
         NEW blob, blob = BlobAt(pointer'), blob # NoBlob, StrandsBy(blob)
  PROVE  Keeps(blob, settled' \ stranded') /\ Keeps(blob, uploaded' \ stranded')
  <1>1. pointer' \in AgentState \cup {NoBlob}
    BY DEF AgentTypeOK
  <1>2. blob \in AgentState /\ blob \in {pointer, config.stateBlobId}
    <2>1. blob \in AgentState /\ (blob = pointer' \/ blob = config.stateBlobId)
      BY <1>1, BlobAtIs
    <2>2. QED  BY <2>1, StoreAssumption
  <1>3. Sound(blob, Last)
    BY <1>2, StoreAssumption DEF RecordsInv, Faithful, IsState
  <1>4. Keeps(blob, settled' \ stranded')
    <2>1. CASE pointer' = pointer
      <3>1. Keeps(blob, Safe)
        BY <2>1 DEF KeepsInv, BlobsKeep
      <3>2. Keeps(blob, Safe \cup Facts(blob))
        BY <1>3, <3>1, KeepsFacts
      <3>3. settled' \ stranded' \subseteq Safe \cup Facts(blob)
        BY <2>1 DEF StrandsBy, Lacked, Safe
      <3>4. QED  BY <3>2, <3>3, KeepsFewer
    <2>2. CASE pointer' # pointer
      <3>1. Keeps(blob, {} \cup Facts(blob))
        BY <1>3, EmptyFaithful, KeepsFacts
      <3>2. settled' \ stranded' \subseteq {} \cup Facts(blob)
        BY <2>2 DEF StrandsBy, Lacked
      <3>3. QED  BY <3>1, <3>2, KeepsFewer
    <2>3. QED  BY <2>1, <2>2
  <1>5. uploaded' \ stranded' \subseteq settled' \ stranded'
    BY DEF StrandsBy, KeepsInv
  <1>6. QED  BY <1>4, <1>5, KeepsFewer

LEMMA FinalSaveKeeps ==
  AgentTypeOK /\ RoundInv /\ RecordsInv /\ KeepsInv /\ FinalSave => RecordsInv' /\ KeepsInv'
  <1> SUFFICES ASSUME AgentTypeOK, RoundInv, RecordsInv, KeepsInv, FinalSave
               PROVE  RecordsInv' /\ KeepsInv'
    OBVIOUS
  <1>1. /\ run.phase = "final" /\ UNCHANGED <<config, calls, mem, landed, cache>> /\ Last' = Last
        /\ run'.phase = "idle" /\ settled' = settled
        /\ pointer' = pointer \/ pointer' = mem
    BY FinalSaveIs DEF chainVars, NoRun, Last, StrandsBy
  <1>2. /\ mem \in AgentState /\ Faithful(mem, Last, landed) /\ cache = mem /\ Keeps(mem, Owed)
        /\ Facts(mem) \subseteq settled /\ uploaded \subseteq settled
    BY <1>1 DEF AgentTypeOK, RecordsInv, KeepsInv
  <1>3. \A x \in {cache', pointer', config'.stateBlobId} : IsState(x) => Faithful(x, Last, landed)
    BY <1>1, <1>2 DEF RecordsInv
  <1>4. RecordsInv'
    BY <1>1, <1>2, <1>3 DEF RecordsInv, Saving, IsState
  <1>5. \A s \in Slots : calls'[s].pc = "free"
    BY <1>1 DEF RoundInv, NoCall
  <1>6. Owed' = settled' \ stranded' /\ Safe' = uploaded' \ stranded'
    BY DEF Owed, Safe
  <1>7. BlobAt(pointer)' = BlobAt(pointer')
    BY <1>1 DEF BlobAt
  <1>8. CASE /\ config.backend = "walrus" /\ pointer' = mem
             /\ uploaded' = uploaded \cup Facts(mem) /\ stranded' = stranded \ Facts(mem)
    <2>1. Keeps(mem, Owed \cup Facts(mem))
      BY <1>2, KeepsFacts DEF Faithful
    <2>2. /\ Owed' \subseteq Owed \cup Facts(mem) /\ Safe' \subseteq Owed'
          /\ uploaded' \subseteq settled'
      BY <1>1, <1>2, <1>6, <1>8 DEF Owed
    <2>3. Keeps(mem, Owed') /\ Keeps(mem, Safe')
      BY <2>1, <2>2, KeepsFewer
    <2>4. BlobAt(pointer') = mem
      BY <1>2, <1>8, BlobAtIs
    <2>5. BlobsKeep'
      BY <1>5, <1>7, <2>3, <2>4 DEF BlobsKeep, Saving
    <2>6. cache' # NoBlob /\ Keeps(cache', Owed')
      BY <1>1, <1>2, <2>3, StoreAssumption
    <2>7. KeepsInv'
      BY <1>1, <2>2, <2>5, <2>6 DEF KeepsInv
    <2>8. QED  BY <1>4, <2>7
  <1>9. CASE pointer' = pointer /\ StrandsBy(BlobAt(pointer'))
    <2>1. Owed' \subseteq Owed /\ uploaded' \subseteq settled'
      BY <1>2, <1>6, <1>9 DEF StrandsBy, Owed
    <2>2. Keeps(mem, Owed')
      BY <1>2, <2>1, KeepsFewer
    <2>3. BlobAt(pointer') # NoBlob => Keeps(BlobAt(pointer'), Owed') /\ Keeps(BlobAt(pointer'), Safe')
      BY <1>6, <1>9, StrandKeeps
    <2>4. BlobsKeep'
      BY <1>5, <1>7, <2>3 DEF BlobsKeep, Saving
    <2>5. cache' # NoBlob /\ Keeps(cache', Owed')
      BY <1>1, <1>2, <2>2, StoreAssumption
    <2>6. KeepsInv'
      BY <1>1, <2>1, <2>4, <2>5 DEF KeepsInv
    <2>7. QED  BY <1>4, <2>6
  <1>10. QED  BY <1>8, <1>9, FinalSaveIs

LEMMA CrashKeeps ==
  AgentTypeOK /\ RecordsInv /\ KeepsInv /\ Crash => RecordsInv' /\ KeepsInv'
  <1> SUFFICES ASSUME AgentTypeOK, RecordsInv, KeepsInv, Crash
               PROVE  RecordsInv' /\ KeepsInv'
    OBVIOUS
  <1>1. /\ UNCHANGED <<config, landed, cache>> /\ Last' = Last
        /\ run'.phase = "idle" /\ mem' = createEmptyAgentState
        /\ \A s \in Slots : calls'[s].pc = "free"
        /\ pointer' \in {pointer, NoBlob} /\ StrandsBy(BlobAt(pointer'))
    BY CrashIs DEF chainVars, NoRun, NoCall, Last
  <1>2. settled' = settled /\ uploaded' = uploaded
    BY <1>1 DEF StrandsBy
  <1>3. \A x \in {cache', pointer', config'.stateBlobId} : IsState(x) => Faithful(x, Last, landed)
    BY <1>1 DEF RecordsInv, IsState
  <1>4. RecordsInv'
    BY <1>1, <1>2, <1>3, EmptyFaithful DEF RecordsInv, Saving, IsState
  <1>5. /\ Owed' = settled' \ stranded' /\ Safe' = uploaded' \ stranded'
        /\ BlobAt(pointer)' = BlobAt(pointer')
    BY <1>1 DEF Owed, Safe, BlobAt
  <1>6. Owed' \subseteq Owed
    BY <1>1 DEF StrandsBy, Owed
  <1>7. IF cache' = NoBlob THEN settled' = {} ELSE Keeps(cache', Owed')
    <2>1. CASE cache = NoBlob
      BY <1>1, <1>2, <2>1 DEF KeepsInv
    <2>2. CASE cache # NoBlob
      <3>1. Keeps(cache, Owed)
        BY <2>2 DEF KeepsInv
      <3>2. Keeps(cache, Owed')
        BY <1>6, <3>1, KeepsFewer
      <3>3. QED  BY <1>1, <2>2, <3>2
    <2>3. QED  BY <2>1, <2>2
  <1>8. BlobAt(pointer') # NoBlob => Keeps(BlobAt(pointer'), Owed') /\ Keeps(BlobAt(pointer'), Safe')
    BY <1>1, <1>5, StrandKeeps
  <1>9. BlobsKeep'
    BY <1>1, <1>5, <1>8 DEF BlobsKeep, Saving
  <1>10. KeepsInv'
    BY <1>1, <1>2, <1>7, <1>9 DEF KeepsInv
  <1>11. QED  BY <1>4, <1>10

\* Every step carries memory on, starts, closes or loses a run, or changes
\* nothing the store knows of.
LEMMA StepKinds ==
  AgentTypeOK /\ RoundInv /\ DigestInv /\ RecordsInv /\ [AgentNext]_agentVars =>
     Works \/ StoreStutters \/ StartRun \/ FinalSave \/ Crash
  <1> SUFFICES ASSUME AgentTypeOK, RoundInv, DigestInv, RecordsInv, [AgentNext]_agentVars
               PROVE  Works \/ StoreStutters \/ StartRun \/ FinalSave \/ Crash
    OBVIOUS
  <1>0. run \in RunType
    BY AgentTypeParts
  <1>1. CASE RoundEnds
    <2>1. /\ UNCHANGED <<config, mem, cache, pointer, promises, landed, calls>>
          /\ run.phase = "tools" /\ run'.phase = "model"
      BY <1>0, <1>1 DEF RoundEnds, storeVars, chainVars, RunType
    <2>2. QED  BY <2>1 DEF StoreStutters
  <1>2. CASE Prices
    BY <1>2 DEF Prices, PricesMove, storeVars, StoreStutters
  <1>3. CASE CooldownPasses \/ UNCHANGED agentVars
    BY <1>3 DEF CooldownPasses, agentVars, guardVars, storeVars, chainVars, StoreStutters
  <1>4. ASSUME NEW p \in config.looping, NEW amount \in 1..config.maxBorrowRaw, ExecutorBorrows(p, amount)
        PROVE  StoreStutters
    BY <1>4, ExecutorBorrowsIs DEF Landing, storeVars, StoreStutters, Lands
  <1>5. QED
    BY <1>1, <1>2, <1>3, <1>4, GuardWorks, ModelCallsWorks, CallWorks, CloseWorks DEF AgentNext

LEMMA NextRecordsInv ==
  /\ AgentTypeOK /\ RoundInv /\ DigestInv /\ RecordsInv /\ KeepsInv /\ [AgentNext]_agentVars
  => RecordsInv' /\ KeepsInv'
  BY StepKinds, WorksKeepsRecords, WorksKeepsSettled, StutterKeepsRecords, StutterKeepsSettled,
     StartRunKeeps, FinalSaveKeeps, CrashKeeps

LEMMA InitRecordsInv == AgentInit => RecordsInv /\ KeepsInv
  <1> SUFFICES ASSUME AgentInit
               PROVE  RecordsInv /\ KeepsInv
    OBVIOUS
  <1>1. /\ config \in Configs /\ cache = NoBlob /\ pointer = NoBlob /\ mem = createEmptyAgentState
        /\ landed = {} /\ settled = {} /\ uploaded = {} /\ run.phase = "idle"
        /\ \A s \in Slots : calls[s].pc = "free"
    BY DEF AgentInit, NoRun, NoCall
  <1>2. Last = 0
    BY <1>1, FS_EmptySet DEF Last
  <1>3. IsState(config.stateBlobId) => Faithful(config.stateBlobId, Last, landed)
    BY <1>1, <1>2, ConfigType DEF RestoredState, Faithful, Truthful, IsState
  <1>4. RecordsInv
    BY <1>1, <1>3, EmptyFaithful DEF RecordsInv, IsState, TweetsDigested, Saving
  <1>5. Owed = {} /\ Safe = {}
    BY <1>1 DEF Owed, Safe
  <1>6. KeepsInv
    BY <1>1, <1>5, EmptyFaithful DEF KeepsInv, BlobsKeep, Saving
  <1>7. QED  BY <1>4, <1>6

LEMMA RecordsCorrect == AgentSpec => [](RecordsInv /\ KeepsInv)
  BY InitRecordsInv, NextRecordsInv, AgentTypeCorrect, RoundCorrect, DigestsCorrect, PTL DEF AgentSpec

-----------------------------------------------------------------------------
(* What memory promises.                                                   *)

\* What a save kept is in the memory of every later run, through crashes,
\* overlapping and failed uploads, failed reads and a torn pointer, for any number
\* of runs, rounds and calls side by side, but for what MAX_ACTIONS newer actions
\* push out and for what the cache alone holds when a run crashes or ends with its
\* upload failed (memoryStore.ts, agentMemory.ts).
THEOREM SettledRemembered == AgentSpec => []NothingSettledForgotten
  <1>1. AgentTypeOK /\ KeepsInv => NothingSettledForgotten
    <2> SUFFICES ASSUME AgentTypeOK, KeepsInv, run.phase # "idle"
                 PROVE  /\ \A tx \in landed :
                              <<"action", <<"tx", tx.digest>>>> \in Owed =>
                                 Find(mem, <<"tx", tx.digest>>) # 0 \/ Len(mem.actions) = MAX_ACTIONS
                        /\ \A i \in DOMAIN mem.actions :
                              <<"tweeted", mem.actions[i].id>> \in Owed => mem.actions[i].tweeted
      BY DEF NothingSettledForgotten
    <2>1. Keeps(mem, Owed) /\ mem \in AgentState
      BY DEF KeepsInv, AgentTypeOK
    <2>2. \A id : <<"action", id>> \in Owed => Find(mem, id) # 0 \/ Len(mem.actions) = MAX_ACTIONS
      <3> SUFFICES ASSUME NEW id, <<"action", id>> \in Owed
                   PROVE  Find(mem, id) # 0 \/ Len(mem.actions) = MAX_ACTIONS
        OBVIOUS
      <3>1. <<"action", id>>[1] = "action" /\ <<"action", id>>[2] = id
        OBVIOUS
      <3>2. Present(mem, id) \/ Full(mem)
        BY <2>1, <3>1 DEF Keeps
      <3>3. QED  BY <2>1, <3>2, FindIs DEF Full
    <2>3. QED  BY <2>1, <2>2 DEF Keeps
  <1>2. QED  BY <1>1, AgentTypeCorrect, RecordsCorrect, PTL

\* A call starts in the model's answer and nowhere else.
LEMMA StartsByModel ==
  ASSUME AgentTypeOK, RoundInv, [AgentNext]_agentVars, NEW s \in Slots,
         calls'[s] # calls[s], calls'[s].pc \in {"preparing", "posting"}
  PROVE  ModelCalls /\ StartedAs(calls'[s])
  <1>1. calls' # calls /\ calls \in [Slots -> Calls] /\ NoCall.pc = "free"
    BY DEF AgentTypeOK, NoCall
  <1>2. ASSUME NEW x \in Slots, CallNext(x)
        PROVE  FALSE
    <2>1. ASSUME NEW c, calls' = [calls EXCEPT ![x] = c], c.pc \notin {"preparing", "posting"}
          PROVE  FALSE
      <3>1. calls'[s] = calls[s] \/ calls'[s] = c
        BY <1>1, <2>1
      <3>2. QED  BY <2>1, <3>1
    <2>2. CASE Prepare(x)
      <3>1. PICK c : calls' = [calls EXCEPT ![x] = c] /\ (c = NoCall \/ PreparedAs(calls[x].request, c))
        BY <2>2, PrepareIs
      <3>2. calls[x].request \in Request
        BY <1>1, <2>2, PrepareIs, CallTypes
      <3>3. c.pc \notin {"preparing", "posting"}
        BY <1>1, <3>1, <3>2, PreparedType
      <3>4. QED  BY <2>1, <3>1, <3>3
    <2>3. CASE Plan(x) \/ SaveEnds(x)
      BY <1>1, <2>1, <2>3, PlanIs, SaveEndsIs
    <2>4. [pc |-> "saving", blob |-> mem'].pc = "saving"
      OBVIOUS
    <2>5. ASSUME NEW answer \in {"digest", "threw"}, Execute(x, answer)
          PROVE  FALSE
      <3>1. PICK c \in {NoCall, [pc |-> "saving", blob |-> mem']} : calls' = [calls EXCEPT ![x] = c]
        BY <2>5, ExecuteIs
      <3>2. QED  BY <1>1, <2>1, <2>4, <3>1
    <2>6. ASSUME NEW answer \in {"posted", "failed"}, Post(x, answer)
          PROVE  FALSE
      <3>1. PICK c \in {NoCall, [pc |-> "saving", blob |-> mem']} : calls' = [calls EXCEPT ![x] = c]
        BY <2>6, PostIs
      <3>2. QED  BY <1>1, <2>1, <2>4, <3>1
    <2>7. QED  BY <1>2, <2>2, <2>3, <2>5, <2>6 DEF CallNext
  <1>3. ~StartRun /\ ~(\E archived \in BOOLEAN : EndRun(archived)) /\ ~FinalSave /\ ~Crash
    BY <1>1, StartRunIs, RunEndIs, FinalSaveIs, CrashIs
  <1>4. ASSUME NEW p \in config.looping, NEW amount \in 1..config.maxBorrowRaw, ExecutorBorrows(p, amount)
        PROVE  FALSE
    BY <1>1, <1>4, ExecutorBorrowsIs
  <1>5. ~GuardStep /\ ~ReadTool /\ ~RoundEnds /\ ~Prices /\ ~CooldownPasses /\ ~UNCHANGED agentVars
    BY <1>1 DEF GuardStep, ReadTool, RoundEnds, Prices, CooldownPasses, agentVars
  <1>6. QED  BY <1>2, <1>3, <1>4, <1>5, ModelCallsIs DEF AgentNext

LEMMA TweetStepCorrect ==
  AgentTypeOK /\ RoundInv /\ KeepsInv /\ [AgentNext]_agentVars => TweetStep
  <1> SUFFICES ASSUME AgentTypeOK, RoundInv, KeepsInv, [AgentNext]_agentVars,
                      NEW s \in Slots, calls[s].pc = "free", calls'[s].pc = "posting"
               PROVE  <<"tweeted", calls'[s].id>> \notin Owed
    BY DEF TweetStep
  <1> DEFINE id == calls'[s].id
  <1>1. ModelCalls /\ PostTarget(id)
    <2>1. ModelCalls /\ StartedAs(calls'[s])
      BY StartsByModel
    <2>2. QED  BY <2>1 DEF StartedAs, NoCall
  <1>2. mem \in AgentState /\ Keeps(mem, Owed)
    BY <1>1, ModelCallsIs DEF AgentTypeOK, KeepsInv
  <1> HIDE DEF id
  <1>3. PICK i \in DOMAIN mem.actions : mem.actions[i].id = id /\ ~mem.actions[i].tweeted
    BY <1>1, <1>2, FindIs DEF PostTarget
  <1>4. <<"tweeted", id>> \notin Owed
    BY <1>2, <1>3 DEF Keeps
  <1>5. QED  BY <1>4 DEF id

\* A supply whose tweet a save recorded is never posted again, unless that save was
\* left behind in the cache (handlePostActionUpdate, recordTweet).
THEOREM SettledTweetsStay == AgentSpec => SettledTweetNotRepeated
  BY TweetStepCorrect, AgentTypeCorrect, RoundCorrect, RecordsCorrect, PTL
  DEF AgentSpec, SettledTweetNotRepeated

-----------------------------------------------------------------------------
(* The cooldown.  A supply meets the gate when it starts and the policy    *)
(* when it was prepared; until then nothing that an earlier round recorded *)
(* comes into memory's reach.                                              *)

LEMMA NextAssetInv == AgentTypeOK /\ RoundInv /\ AssetInv /\ [AgentNext]_agentVars => AssetInv'
  <1> SUFFICES ASSUME AgentTypeOK, RoundInv, AssetInv, [AgentNext]_agentVars
               PROVE  AssetInv'
    OBVIOUS
  <1>0. calls \in [Slots -> Calls]
    BY DEF AgentTypeOK
  <1>1. CASE Quiet
    <2>1. config' = config /\ \A tx \in landed' : tx \in landed \/ tx.kind # "supply"
      BY <1>1 DEF Quiet
    <2>2. ASSUME NEW s \in Slots, calls'[s].pc = "executing"
          PROVE  AllowedAsset(calls'[s].request.asset, config)
      <3>1. CASE calls'[s] = calls[s]
        BY <2>2, <3>1 DEF AssetInv
      <3>2. CASE PreparedAs(calls[s].request, calls'[s]) /\ calls[s].request \in Request
        <4>1. calls'[s].request = calls[s].request
          BY <3>2, PreparedType
        <4>2. PICK positions, projected : PassesChecks(calls[s].request, positions, projected)
          BY <3>2, Zenon DEF PreparedAs
        <4>3. AllowedAsset(calls[s].request.asset, config)
          BY <4>2 DEF PassesChecks, evaluateLendingWrite, Bounds, AllowedAsset
        <4>4. QED  BY <4>1, <4>3
      <3>3. QED  BY <1>1, <2>2, <3>1, <3>2 DEF Quiet
    <2>3. QED  BY <2>1, <2>2 DEF AssetInv
  <1>2. ASSUME NEW s \in Slots, Executes(s)
        PROVE  AssetInv'
    <2>1. /\ calls[s].pc = "executing" /\ calls[s] \in Calls /\ config' = config
          /\ \A x \in Slots : calls'[x].pc = "executing" => calls'[x] = calls[x]
      BY <1>0, <1>2 DEF Executes
    <2>2. CASE UNCHANGED chainVars
      BY <2>1, <2>2 DEF chainVars, AssetInv
    <2>3. CASE WriteLands(calls[s])
      <3>1. PICK tx : Landing(tx) /\ tx.asset = calls[s].request.asset
        BY <2>1, <2>3, WriteLandsIs
      <3>2. AllowedAsset(tx.asset, config)
        BY <2>1, <3>1 DEF AssetInv
      <3>3. QED  BY <2>1, <3>1, <3>2 DEF AssetInv, Landing
    <2>4. QED  BY <1>2, <2>2, <2>3 DEF Executes
  <1>3. CASE Beside
    BY <1>3 DEF Beside, Landing, AssetInv
  <1>4. QED  BY <1>1, <1>2, <1>3, QuietOrExecutes

\* What the gate lets through has no transaction of its spelling in memory.
LEMMA GatePassed ==
  ASSUME AgentTypeOK, RecordsInv, KeepsInv, run.phase # "idle", NEW r, LendingGate(r), r.kind = "supply",
         NEW tx \in landed, tx.kind = "supply", tx.asset = r.asset, Cooling(tx)
  PROVE  PushedOut(tx)
  <1> DEFINE id == <<"tx", tx.digest>>
  <1>1. mem \in AgentState /\ Faithful(mem, Last, landed) /\ Keeps(mem, Owed)
    BY DEF AgentTypeOK, RecordsInv, KeepsInv
  <1>2. Keeps(mem, Owed \cup Facts(mem))
    BY <1>1, KeepsFacts DEF Faithful
  <1>3. ~Present(mem, id)
    <2> SUFFICES ASSUME NEW i \in DOMAIN mem.actions, mem.actions[i].id = id
                 PROVE  FALSE
      BY DEF Present
    <2>1. /\ ~mem.actions[i].dryRun /\ mem.actions[i].status = "confirmed"
          /\ mem.actions[i].kind = r.kind /\ mem.actions[i].asset = r.asset
      BY <1>1 DEF Faithful, Truthful
    <2>2. QED  BY <2>1 DEF LendingGate, shouldSkipWriteAction, Cooling
  <1>4. Present(mem, id) \/ Full(mem)
    <2>1. <<"action", id>>[1] = "action" /\ <<"action", id>>[2] = id
      OBVIOUS
    <2>2. <<"action", id>> \in Owed \cup Facts(mem)
      BY DEF Cooling
    <2> HIDE DEF id
    <2>3. QED  BY <1>2, <2>1, <2>2 DEF Keeps
  <1>5. QED  BY <1>1, <1>3, <1>4, FindIs DEF Full, PushedOut

\* While a call is prepared, its round goes on.
LEMMA WhilePreparing ==
  ASSUME AgentTypeOK, RoundInv, DigestInv, RecordsInv, [AgentNext]_agentVars, NEW s \in Slots,
         calls[s].pc = "preparing", calls'[s] = calls[s]
  PROVE  /\ run' = run /\ cooled \subseteq cooled' /\ (Works \/ StoreStutters)
         /\ \A tx \in landed' : tx \in landed \/ tx.kind # "supply" \/ ThisRound(tx)
  <1> DEFINE Goes == /\ run' = run /\ cooled \subseteq cooled'
                     /\ \A tx \in landed' : tx \in landed \/ tx.kind # "supply" \/ ThisRound(tx)
  <1>1. run.phase = "tools" /\ calls'[s].pc = "preparing" /\ NoCall.pc = "free"
    BY ActiveCall DEF NoCall
  <1>2. ~StartRun /\ ~FinalSave /\ ~Crash
    BY <1>1, StartRunIs, FinalSaveIs, CrashIs
  <1>3. ~GuardStep /\ ~ModelCalls /\ ~RoundEnds /\ ~(\E archived \in BOOLEAN : EndRun(archived))
    BY <1>1, GuardProtocolIs, GuardEndsIs, GuardSavedIs, ModelCallsIs, RunEndIs
    DEF GuardStep, GuardNext, RoundEnds
  <1>4. ASSUME NEW x \in Slots, CallNext(x)
        PROVE  Goes
    <2>1. run' = run
      BY <1>4, CallKeepsRound
    <2>2. cooled' = cooled
      BY <1>4, PrepareIs, PlanIs, ExecuteIs, PostIs, SaveEndsIs DEF CallNext
    <2>3. ASSUME NEW answer \in {"digest", "threw"}, Execute(x, answer)
          PROVE  \A tx \in landed' : tx \in landed \/ ThisRound(tx)
      <3>1. calls[x] \in Calls /\ calls[x].pc = "executing" /\ (WriteLands(calls[x]) \/ UNCHANGED chainVars)
        BY <2>3, ExecuteIs DEF AgentTypeOK
      <3>2. QED  BY <3>1, WriteLandsIs DEF Landing, chainVars
    <2>4. landed' = landed \/ \E answer \in {"digest", "threw"} : Execute(x, answer)
      BY <1>4, PrepareIs, PlanIs, PostIs, SaveEndsIs DEF CallNext, chainVars
    <2>5. QED  BY <2>1, <2>2, <2>3, <2>4
  <1>5. ASSUME ReadTool \/ CooldownPasses \/ Prices \/ UNCHANGED agentVars
        PROVE  Goes
    <2>1. run' = run /\ landed' = landed
      BY <1>5 DEF ReadTool, CooldownPasses, Prices, PricesMove, agentVars, guardVars, chainVars
    <2>2. cooled \subseteq cooled'
      BY <1>5 DEF ReadTool, CooldownPasses, Prices, agentVars
    <2>3. QED  BY <2>1, <2>2
  <1>6. ASSUME NEW p \in config.looping, NEW amount \in 1..config.maxBorrowRaw, ExecutorBorrows(p, amount)
        PROVE  Goes
    <2>1. run' = run /\ cooled' = cooled
      BY <1>6, ExecutorBorrowsIs
    <2>2. PICK tx : Landing(tx) /\ tx.kind = "borrow"
      BY <1>6, ExecutorLandsIs
    <2>3. QED  BY <2>1, <2>2 DEF Landing
  <1>7. Goes
    BY <1>2, <1>3, <1>4, <1>5, <1>6 DEF AgentNext
  <1>8. QED  BY <1>2, <1>7, StepKinds

LEMMA NextGateInv ==
  AgentTypeOK /\ RoundInv /\ DigestInv /\ RecordsInv /\ KeepsInv /\ GateInv /\ [AgentNext]_agentVars
  => GateInv'
  <1> SUFFICES ASSUME AgentTypeOK, RoundInv, DigestInv, RecordsInv, KeepsInv, GateInv, [AgentNext]_agentVars,
                      NEW s \in Slots, calls'[s].pc = "preparing", calls'[s].request.kind = "supply",
                      NEW tx \in landed', tx.kind = "supply", tx.asset = calls'[s].request.asset,
                      ~ThisRound(tx)', Cooling(tx)'
               PROVE  PushedOut(tx)'
    BY DEF GateInv
  <1> DEFINE id == <<"tx", tx.digest>>
  <1>1. CASE calls'[s] # calls[s]
    <2>1. ModelCalls /\ LendingGate(calls'[s].request)
      <3>1. ModelCalls /\ StartedAs(calls'[s])
        BY <1>1, StartsByModel
      <3>2. QED  BY <3>1 DEF StartedAs, NoCall
    <2>2. /\ UNCHANGED <<mem, landed, cooled, settled, uploaded, stranded>> /\ run.phase # "idle"
      BY <2>1, ModelCallsIs DEF chainVars, promises
    <2>3. Cooling(tx)
      BY <2>2 DEF Cooling, Owed
    <2>4. PushedOut(tx)
      BY <2>1, <2>2, <2>3, GatePassed
    <2>5. QED  BY <2>2, <2>4 DEF PushedOut
  <1>2. CASE calls'[s] = calls[s]
    <2>1. calls[s].pc = "preparing" /\ calls[s].request = calls'[s].request
      BY <1>2
    <2>2. /\ run' = run /\ cooled \subseteq cooled' /\ (Works \/ StoreStutters)
          /\ \A new \in landed' : new \in landed \/ new.kind # "supply" \/ ThisRound(new)
      BY <1>2, <2>1, WhilePreparing
    <2>3. tx \in landed /\ ~ThisRound(tx)
      BY <2>2 DEF ThisRound
    <2>4. tx.digest \in Nat /\ tx.digest <= Last
      BY <2>3 DEF AgentTypeOK, Transactions, DigestInv
    <2>5. /\ Ages(mem, mem', Last) /\ mem' \in AgentState
          /\ Owed' \subseteq Owed \cup Facts(mem')
      <3>1. CASE Works
        BY <3>1, WorksOwes DEF Works, Carries
      <3>2. CASE StoreStutters
        BY <3>2 DEF StoreStutters, promises, Ages, Owed, AgentTypeOK
      <3>3. QED  BY <2>2, <3>1, <3>2
    <2>6. id \notin cooled' /\ <<"action", id>> \in Owed' \cup Facts(mem')
      BY DEF Cooling
    <2>7. <<"action", id>> \in Facts(mem') => <<"action", id>> \in Facts(mem)
      BY <2>4, <2>5 DEF Ages
    <2>8. Cooling(tx)
      <3>1. id \notin cooled
        BY <2>2, <2>6
      <3>2. <<"action", id>> \in Owed \cup Facts(mem)
        <4> HIDE DEF id
        <4>1. QED  BY <2>5, <2>6, <2>7
      <3>3. QED  BY <3>1, <3>2 DEF Cooling
    <2>9. PushedOut(tx)
      BY <2>1, <2>3, <2>8 DEF GateInv
    <2>10. Full(mem) /\ ~Present(mem, id) /\ mem \in AgentState
      BY <2>9, FindIs DEF PushedOut, Full, AgentTypeOK
    <2>11. Full(mem') /\ ~Present(mem', id)
      BY <2>4, <2>5, <2>10 DEF Ages
    <2>12. Find(mem', id) = 0
      BY <2>5, <2>11, FindIs
    <2>13. QED  BY <2>11, <2>12 DEF PushedOut, Full
  <1>3. QED  BY <1>1, <1>2

LEMMA GateCorrect == AgentSpec => [](AssetInv /\ GateInv)
  <1>1. AgentInit => AssetInv /\ GateInv
    BY DEF AgentInit, AssetInv, GateInv, NoCall
  <1>2. QED
    BY <1>1, NextAssetInv, NextGateInv, AgentTypeCorrect, RoundCorrect, DigestsCorrect, RecordsCorrect, PTL
    DEF AgentSpec

LEMMA CooldownStepCorrect ==
  AgentTypeOK /\ RoundInv /\ AssetInv /\ GateInv /\ [AgentNext]_agentVars => CooldownStep
  <1> SUFFICES ASSUME AgentTypeOK, RoundInv, AssetInv, GateInv, [AgentNext]_agentVars,
                      NEW s \in Slots, calls[s].pc = "preparing", calls'[s].pc = "executing",
                      calls[s].request.kind = "supply",
                      NEW tx \in landed, tx.kind = "supply", ~ThisRound(tx), Cooling(tx)
               PROVE  \/ PushedOut(tx)
                      \/ /\ tx.asset # calls[s].request.asset
                         /\ \/ config.allowedAssets = {}
                            \/ {tx.asset, calls[s].request.asset} \subseteq config.allowedAssets
    BY DEF CooldownStep
  <1>0. calls \in [Slots -> Calls]
    BY DEF AgentTypeOK
  <1>1. CASE tx.asset = calls[s].request.asset
    BY <1>1 DEF GateInv
  <1>2. CASE tx.asset # calls[s].request.asset
    <2>1. AllowedAsset(tx.asset, config)
      BY DEF AssetInv
    <2>2. Quiet
      <3>1. ~Beside
        BY DEF Beside
      <3>2. ASSUME NEW x \in Slots, Executes(x)
            PROVE  FALSE
        <4>1. calls[x].pc = "executing" /\ \E c : c.pc # "executing" /\ calls' = [calls EXCEPT ![x] = c]
          BY <3>2 DEF Executes
        <4>2. QED  BY <1>0, <4>1
      <3>3. QED  BY <3>1, <3>2, QuietOrExecutes
    <2>3. PreparedAs(calls[s].request, calls'[s])
      BY <2>2 DEF Quiet
    <2>4. PICK positions, projected : PassesChecks(calls[s].request, positions, projected)
      BY <2>3, Zenon DEF PreparedAs
    <2>5. AllowedAsset(calls[s].request.asset, config)
      BY <2>4 DEF PassesChecks, evaluateLendingWrite, Bounds, AllowedAsset
    <2>6. QED  BY <1>2, <2>1, <2>5 DEF AllowedAsset
  <1>3. QED  BY <1>1, <1>2

\* No supply of a coin gets to its transaction within the cooldown of one that an
\* earlier round or run recorded and that memory can still know of, unless it is
\* spelled in another way, both spellings being allowed: under an allowlist with one
\* spelling of each coin, only calls of one round supply a coin twice
\* (shouldSkipWriteAction, runLendingWrite, evaluateLendingWrite).
THEOREM CooldownHolds == AgentSpec => CooldownAcrossRuns
  BY CooldownStepCorrect, GateCorrect, AgentTypeCorrect, RoundCorrect, PTL DEF AgentSpec, CooldownAcrossRuns
=============================================================================
