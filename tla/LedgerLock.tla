----------------------------- MODULE LedgerLock -----------------------------
(***************************************************************************)
(* StrategyLedgerStore.update under its lock file.  Workers are the        *)
(* concurrent users of one ledger: the role timers and the main agent of a *)
(* supervisor share a process, a run-subagent daemon has its own.          *)
(*                                                                         *)
(* Inside a process a run of synchronous calls is never interleaved with   *)
(* another worker of that process: opening the lock file and writing the   *)
(* owner into it is such a run, and so is judging a lock stale and         *)
(* unlinking it.  Other processes interleave anywhere.                     *)
(*                                                                         *)
(* The ledger is abstracted to how many updates of each worker it shows,   *)
(* counted up to MaxCount: an update loads the whole file and saves it.    *)
(***************************************************************************)
EXTENDS Naturals, FiniteSets

CONSTANTS
    Procs, Workers,
    ProcOf,     \* [Workers -> Procs]
    PidOf,      \* [Procs -> pids]: a later process may get an earlier pid
    NoPid,      \* a lock file without readable metadata
    NoLock,     \* no lock file
    MaxAlive,   \* processes the deployment runs at a time
    MaxKills,   \* bound: processes that die
    MaxCount    \* bound: where the counters of the ledger saturate

ASSUME LedgerLockAssumption ==
    /\ ProcOf \in [Workers -> Procs]
    /\ NoPid \notin {PidOf[p] : p \in Procs}
    /\ NoLock \notin [creator : Workers, pid : {PidOf[p] : p \in Procs} \cup {NoPid}, aged : BOOLEAN]
    /\ {MaxAlive, MaxKills, MaxCount} \subseteq Nat

VARIABLES
    up, gone,   \* processes running, processes that died
    pc,         \* where each worker is in update
    lock,       \* the lock file
    ledger,     \* the ledger file
    copy        \* what each worker loaded

lockVars == <<up, gone, pc, lock, ledger, copy>>

Pids == {PidOf[p] : p \in Procs}

Ledgers == [Workers -> 0..MaxCount]

LockFile == [creator : Workers, pid : Pids \cup {NoPid}, aged : BOOLEAN]

LockTypeOK ==
    /\ up \subseteq Procs /\ gone \subseteq Procs
    /\ pc \in [Workers -> {"idle", "waiting", "opened", "removing", "held",
                           "loaded", "saved"}]
    /\ lock \in LockFile \cup {NoLock}
    /\ ledger \in Ledgers
    /\ copy \in [Workers -> Ledgers]

LockInit ==
    /\ up = {} /\ gone = {}
    /\ pc = [w \in Workers |-> "idle"]
    /\ lock = NoLock
    /\ ledger = [w \in Workers |-> 0]
    /\ copy = [w \in Workers |-> [v \in Workers |-> 0]]

-----------------------------------------------------------------------------
(* Processes.                                                              *)

Boot(p) ==
    /\ p \notin up \cup gone
    /\ Cardinality(up) < MaxAlive
    /\ up' = up \cup {p}
    /\ UNCHANGED <<gone, pc, lock, ledger, copy>>

\* The lock file of a worker that dies stays behind.
Kill(p) ==
    /\ p \in up
    /\ Cardinality(gone) < MaxKills
    /\ up' = up \ {p}
    /\ gone' = gone \cup {p}
    /\ pc' = [w \in Workers |-> IF ProcOf[w] = p THEN "idle" ELSE pc[w]]
    /\ UNCHANGED <<lock, ledger, copy>>

Running(w) ==
    /\ ProcOf[w] \in up
    /\ \A v \in Workers \ {w} : ProcOf[v] = ProcOf[w] => pc[v] \notin {"opened", "removing"}

Goto(w, from, to) ==
    /\ Running(w)
    /\ pc[w] = from
    /\ pc' = [pc EXCEPT ![w] = to]

-----------------------------------------------------------------------------
(* withLock.                                                               *)

Begin(w) ==
    /\ Goto(w, "idle", "waiting")
    /\ UNCHANGED <<up, gone, lock, ledger, copy>>

\* Mutant: the flag is 'w'.
OpenShared(w) ==
    /\ Goto(w, "waiting", "opened")
    /\ lock' = [creator |-> w, pid |-> NoPid, aged |-> FALSE]
    /\ UNCHANGED <<up, gone, ledger, copy>>

\* openSync(lockPath, 'wx')
OpenExclusive(w) ==
    /\ lock = NoLock
    /\ Goto(w, "waiting", "opened")
    /\ lock' = [creator |-> w, pid |-> NoPid, aged |-> FALSE]
    /\ UNCHANGED <<up, gone, ledger, copy>>

\* The write goes to the file w opened, whether or not lockPath still names it.
WriteMetadata(w) ==
    /\ Goto(w, "opened", "held")
    /\ lock' = IF lock # NoLock /\ lock.creator = w
                 THEN [lock EXCEPT !.pid = PidOf[ProcOf[w]]]
                 ELSE lock
    /\ UNCHANGED <<up, gone, ledger, copy>>

OwnerIsAlive == \E p \in up : lock.pid = PidOf[p]

\* Mutant: a live owner does not keep the lock.
StaleAtOnce == lock # NoLock

\* Mutant: a lock whose owner seems alive is never given up.
StaleWhenDead == lock # NoLock /\ ~OwnerIsAlive

\* A live owner keeps the lock until it is five times staleLockMs old; no
\* readable pid counts as a dead owner, however young the file is.
Stale == lock # NoLock /\ ~(OwnerIsAlive /\ ~lock.aged)

FindStale(w) ==
    /\ Stale
    /\ Goto(w, "waiting", "removing")
    /\ UNCHANGED <<up, gone, lock, ledger, copy>>

\* Unlinks whatever lockPath names by now.
RemoveStale(w) ==
    /\ Goto(w, "removing", "waiting")
    /\ lock' = NoLock
    /\ UNCHANGED <<up, gone, ledger, copy>>

\* lockTimeoutMs passed and the lock was not stale: update throws.
GiveUp(w) ==
    /\ ~Stale
    /\ Goto(w, "waiting", "idle")
    /\ UNCHANGED <<up, gone, lock, ledger, copy>>

\* Five times staleLockMs pass.  A worker that holds the lock in the only
\* running process gives it back before any timer of that process fires.
LockAges ==
    /\ lock # NoLock
    /\ lock.aged = FALSE
    /\ Cardinality(up) > 1 \/ \A w \in Workers : pc[w] \in {"idle", "waiting"}
    /\ lock' = [lock EXCEPT !.aged = TRUE]
    /\ UNCHANGED <<up, gone, pc, ledger, copy>>

-----------------------------------------------------------------------------
(* update: load, mutate, prune, save.                                      *)

\* Mutant: nothing is returned for a file that cannot be read.
LoadNothing(w) ==
    /\ Goto(w, "held", "loaded")
    /\ copy' = [copy EXCEPT ![w] = NoLock]
    /\ UNCHANGED <<up, gone, lock, ledger>>

Load(w) ==
    /\ Goto(w, "held", "loaded")
    /\ copy' = [copy EXCEPT ![w] = ledger]
    /\ UNCHANGED <<up, gone, lock, ledger>>

Save(w) ==
    /\ Goto(w, "loaded", "saved")
    /\ ledger' = [copy[w] EXCEPT ![w] = IF @ < MaxCount THEN @ + 1 ELSE @]
    /\ UNCHANGED <<up, gone, lock, copy>>

\* The finally block, also after a mutator that threw: it unlinks lockPath
\* without looking at whose lock it is.
Release(w) ==
    /\ Goto(w, "saved", "idle") \/ Goto(w, "loaded", "idle")
    /\ lock' = NoLock
    /\ UNCHANGED <<up, gone, ledger, copy>>

WorkerNext(w) ==
    \/ Begin(w) \/ OpenExclusive(w) \/ WriteMetadata(w)
    \/ FindStale(w) \/ RemoveStale(w)
    \/ Load(w) \/ Save(w) \/ Release(w)

LockNext ==
    \/ \E p \in Procs : Boot(p) \/ Kill(p)
    \/ \E w \in Workers : WorkerNext(w) \/ GiveUp(w)
    \/ LockAges

LockSpec == LockInit /\ [][LockNext]_lockVars

\* Timers fire, synchronous code runs on, time passes, and a supervisor that
\* died is started again.
LockFairness ==
    /\ \A w \in Workers : WF_lockVars(WorkerNext(w))
    /\ \A p \in Procs : WF_lockVars(Boot(p))
    /\ WF_lockVars(LockAges)

FairLockSpec == LockSpec /\ LockFairness

-----------------------------------------------------------------------------
(* Properties.                                                             *)

Inside(w) == pc[w] \in {"opened", "held", "loaded", "saved"}

\* The lock file serializes update: two workers are never between their open
\* and their unlink at once (withLock, docs/subagent-pipeline.md section 5).
Serialized == \A v, w \in Workers : Inside(v) /\ Inside(w) => v = w

\* No save undoes an update that was saved before: what any worker has written
\* stays in the ledger, through crashes and removed locks too.
UpdatesSurvive == [][\A w \in Workers : ledger'[w] >= ledger[w]]_lockVars

\* A lock file whose creator is no longer inside.
Abandoned == lock # NoLock /\ ~Inside(lock.creator)

\* A lock left by a process that died never wedges the ledger: some worker
\* finds it stale and removes it, at the latest when it has aged, even when
\* the next process got the dead owner's pid (clearStaleLock).
AbandonedLockRemoved == Abandoned ~> ~Abandoned
=============================================================================
