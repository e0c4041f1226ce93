----------------------------- MODULE AgentMemory -----------------------------
(***************************************************************************)
(* agentMemory.ts: the state the main agent carries from one run to the    *)
(* next, as a record, and the functions that change it.  Timestamps are    *)
(* left out: records are newest first, and the ids of the actions whose    *)
(* cooldown has passed are a parameter of the gate.  Snapshots, texts and  *)
(* urls have no reader that decides anything.                              *)
(***************************************************************************)
EXTENDS Policy, Sequences

CONSTANTS MAX_RUNS, MAX_ACTIONS, MAX_TWEETS, MAX_ARTIFACTS

ASSUME MemoryAssumption == {MAX_RUNS, MAX_ACTIONS, MAX_TWEETS, MAX_ARTIFACTS} \subseteq Nat \ {0}

ActionKinds == {"supply", "withdraw", "borrow", "repay"}

\* The digest of a transaction, or the run and the write of a plan.
ActionIds == ({"tx"} \X Int) \cup ({"dry"} \X Nat \X LendingProtocols \X ActionKinds \X STRING)

ActionRecord ==
    [id : ActionIds, kind : ActionKinds, asset : STRING, dryRun : BOOLEAN,
     status : {"planned", "confirmed"}, tweeted : BOOLEAN]

\* Nothing depends on the order of the pending tasks, and no task is there twice.
Task == [type : {"tweet_action"}, about : ActionIds] \cup [type : {"health_alert"}, about : LendingProtocols]

AgentState ==
    {s \in [runs : Seq([run : Nat, ended : BOOLEAN]), actions : Seq(ActionRecord),
            tweets : Seq([about : ActionIds, status : {"posted", "failed"}]),
            pending : SUBSET Task, artifacts : Seq(Nat)] :
        /\ Len(s.runs) <= MAX_RUNS /\ Len(s.actions) <= MAX_ACTIONS
        /\ Len(s.tweets) <= MAX_TWEETS /\ Len(s.artifacts) <= MAX_ARTIFACTS}

createEmptyAgentState ==
    [runs |-> <<>>, actions |-> <<>>, tweets |-> <<>>, pending |-> {}, artifacts |-> <<>>]

\* Mutant: no slice.
Unpruned(entry, entries, max) == <<entry>> \o entries

\* unshift, then slice
Newest(entry, entries, max) ==
    IF Len(entries) < max THEN <<entry>> \o entries ELSE <<entry>> \o SubSeq(entries, 1, max - 1)

beginRun(s, run) ==
    [s EXCEPT !.runs = Newest([run |-> run, ended |-> FALSE], @, MAX_RUNS)]

\* Nothing when the run was pruned.
endRun(s, run) ==
    [s EXCEPT !.runs = [i \in DOMAIN @ |->
        IF @[i].run = run THEN [run |-> run, ended |-> TRUE] ELSE @[i]]]

\* The position of an action in the list, where it is once, or 0.
Find(s, id) ==
    IF \E i \in DOMAIN s.actions : s.actions[i].id = id
    THEN CHOOSE i \in DOMAIN s.actions : s.actions[i].id = id
    ELSE 0

Tasks(s, type) == {t \in s.pending : t.type = type}

ActionId(a) ==
    IF a.dryRun THEN <<"dry", a.run, a.protocol, a.kind, a.asset>> ELSE <<"tx", a.digest>>

\* A known id keeps its place, its creation time and its tweeted flag.  A
\* confirmed live supply asks for a tweet when posting is on.
recordPositionAction(s, a, posting) ==
    LET at     == Find(s, ActionId(a))
        record == [id |-> ActionId(a), kind |-> a.kind, asset |-> a.asset, dryRun |-> a.dryRun,
                   status |-> a.status, tweeted |-> at # 0 /\ s.actions[at].tweeted]
        kept   == [s EXCEPT !.actions =
                      IF at # 0 THEN [@ EXCEPT ![at] = record] ELSE Newest(record, @, MAX_ACTIONS)]
        task   == [type |-> "tweet_action", about |-> record.id]
        queue  == posting /\ a.kind = "supply" /\ a.status = "confirmed" /\ ~a.dryRun /\ ~record.tweeted
    IN  IF queue THEN [kept EXCEPT !.pending = @ \cup {task}] ELSE kept

\* Mutant: the action is not marked.
TweetUnmarked(s, id, status) ==
    LET noted == [s EXCEPT !.tweets = Newest([about |-> id, status |-> status], @, MAX_TWEETS)]
    IN  IF status # "posted" THEN noted
        ELSE [noted EXCEPT !.pending = @ \ {[type |-> "tweet_action", about |-> id]}]

recordTweet(s, id, status) ==
    LET noted  == [s EXCEPT !.tweets = Newest([about |-> id, status |-> status], @, MAX_TWEETS)]
        marked == [noted EXCEPT !.actions = [i \in DOMAIN @ |->
                      IF @[i].id = id THEN [@[i] EXCEPT !.tweeted = TRUE] ELSE @[i]]]
    IN  IF status # "posted" THEN noted
        ELSE [marked EXCEPT !.pending = @ \ {[type |-> "tweet_action", about |-> id]}]

clearHealthAlert(s) == [s EXCEPT !.pending = @ \ Tasks(s, "health_alert")]

\* One alert at a time: the last one queued replaces any other.
queueHealthAlert(s, protocol) ==
    [clearHealthAlert(s) EXCEPT !.pending = @ \cup {[type |-> "health_alert", about |-> protocol]}]

recordArtifact(s, run) == [s EXCEPT !.artifacts = Newest(run, @, MAX_ARTIFACTS)]

\* Mutant: the newest action only.
LatestOnly(s, posting, cooled, asset, kind) ==
    \/ posting /\ kind = "supply" /\ Tasks(s, "tweet_action") # {}
    \/ /\ s.actions # <<>>
       /\ LET e == Head(s.actions)
          IN  ~e.dryRun /\ e.status = "confirmed" /\ e.asset = asset /\ e.kind = kind /\ e.id \notin cooled

\* A supply waits for the pending tweet when tweets can be posted at all; any
\* action waits out the cooldown of a confirmed live one of its kind and asset.
shouldSkipWriteAction(s, posting, cooled, asset, kind) ==
    \/ posting /\ kind = "supply" /\ Tasks(s, "tweet_action") # {}
    \/ \E i \in DOMAIN s.actions :
          LET e == s.actions[i]
          IN  ~e.dryRun /\ e.status = "confirmed" /\ e.asset = asset /\ e.kind = kind /\ e.id \notin cooled
=============================================================================
