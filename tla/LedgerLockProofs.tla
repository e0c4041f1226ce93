-------------------------- MODULE LedgerLockProofs --------------------------
(***************************************************************************)
(* Theorems about LedgerLock in a deployment of one process at a time, for *)
(* any number of workers and of restarts and any pids: there the lock file *)
(* does serialize the updates.  With two processes it does not (the run    *)
(* ledger_daemons), so the theorems assume MaxAlive = 1.                   *)
(***************************************************************************)
EXTENDS LedgerLock, FiniteSetTheorems, TLAPS

\* One process runs, and every worker between two steps belongs to it.
OneProcess ==
    /\ up = {} \/ \E p \in Procs : up = {p}
    /\ \A w \in Workers : pc[w] # "idle" => ProcOf[w] \in up

\* Whoever is inside made the lock file that is there, too recently for it to be
\* called old, and has put a live pid into it unless it is about to.
InsideOwnsLock ==
    \A w \in Workers : Inside(w) =>
       /\ lock # NoLock /\ lock.creator = w /\ lock.aged = FALSE
       /\ pc[w] # "opened" => lock.pid = PidOf[ProcOf[w]]

\* Nobody is inside while a stale lock is being removed.
RemovesForNobody ==
    \A v, w \in Workers : pc[v] = "removing" => ~Inside(w)

\* What was loaded is what the ledger still is.
CopyIsCurrent == \A w \in Workers : pc[w] = "loaded" => copy[w] = ledger

LockInv == LockTypeOK /\ OneProcess /\ InsideOwnsLock /\ RemovesForNobody /\ CopyIsCurrent

LEMMA InsideIsOne == InsideOwnsLock => Serialized
  BY DEF InsideOwnsLock, Serialized

LEMMA InitLockInv == LockInit => LockInv
  BY LedgerLockAssumption
  DEF LockInit, LockInv, LockTypeOK, OneProcess, InsideOwnsLock, RemovesForNobody,
      CopyIsCurrent, Inside, Ledgers, LockFile

-----------------------------------------------------------------------------
(* Type correctness, whatever the number of processes.                     *)

LEMMA GotoTypeOK ==
  ASSUME LockTypeOK, NEW w \in Workers, NEW from,
         NEW to \in {"idle", "waiting", "opened", "removing", "held", "loaded", "saved"},
         Goto(w, from, to)
  PROVE  pc' \in [Workers -> {"idle", "waiting", "opened", "removing", "held", "loaded", "saved"}]
  BY DEF Goto, LockTypeOK

LEMMA WorkerTypeOK ==
  ASSUME LockTypeOK, NEW w \in Workers, WorkerNext(w) \/ GiveUp(w)
  PROVE  LockTypeOK'
  <1>1. CASE Begin(w) \/ FindStale(w) \/ GiveUp(w)
    <2>1. pc' \in [Workers -> {"idle", "waiting", "opened", "removing", "held", "loaded", "saved"}]
      BY <1>1, GotoTypeOK DEF Begin, FindStale, GiveUp
    <2>2. QED  BY <1>1, <2>1 DEF Begin, FindStale, GiveUp, LockTypeOK
  <1>2. CASE OpenExclusive(w)
    <2>1. lock' \in LockFile
      BY <1>2 DEF OpenExclusive, LockFile
    <2>2. QED  BY <1>2, <2>1, GotoTypeOK DEF OpenExclusive, LockTypeOK
  <1>3. CASE WriteMetadata(w)
    <2>1. lock' \in LockFile \cup {NoLock}
      <3>1. PidOf[ProcOf[w]] \in Pids
        BY LedgerLockAssumption DEF Pids
      <3>2. CASE lock # NoLock /\ lock.creator = w
        <4>1. lock \in LockFile
          BY <3>2 DEF LockTypeOK
        <4>2. lock' = [lock EXCEPT !.pid = PidOf[ProcOf[w]]]
          BY <1>3, <3>2 DEF WriteMetadata
        <4>3. QED  BY <3>1, <4>1, <4>2 DEF LockFile
      <3>3. CASE ~(lock # NoLock /\ lock.creator = w)
        BY <1>3, <3>3 DEF WriteMetadata, LockTypeOK
      <3>4. QED  BY <3>2, <3>3
    <2>2. QED  BY <1>3, <2>1, GotoTypeOK DEF WriteMetadata, LockTypeOK
  <1>4. CASE RemoveStale(w) \/ Release(w)
    <2>1. pc' \in [Workers -> {"idle", "waiting", "opened", "removing", "held", "loaded", "saved"}]
      BY <1>4, GotoTypeOK DEF RemoveStale, Release
    <2>2. QED  BY <1>4, <2>1 DEF RemoveStale, Release, LockTypeOK
  <1>5. CASE Load(w)
    <2>1. pc' \in [Workers -> {"idle", "waiting", "opened", "removing", "held", "loaded", "saved"}]
      BY <1>5, GotoTypeOK DEF Load
    <2>2. QED  BY <1>5, <2>1 DEF Load, LockTypeOK
  <1>6. CASE Save(w)
    <2>1. pc' \in [Workers -> {"idle", "waiting", "opened", "removing", "held", "loaded", "saved"}]
      BY <1>6, GotoTypeOK DEF Save
    <2>2. ledger' \in Ledgers
      BY <1>6, LedgerLockAssumption DEF Save, LockTypeOK, Ledgers
    <2>3. QED  BY <1>6, <2>1, <2>2 DEF Save, LockTypeOK
  <1>7. QED
    BY <1>1, <1>2, <1>3, <1>4, <1>5, <1>6 DEF WorkerNext

LEMMA NextLockTypeOK == LockTypeOK /\ [LockNext]_lockVars => LockTypeOK'
  <1> SUFFICES ASSUME LockTypeOK, [LockNext]_lockVars
               PROVE  LockTypeOK'
    OBVIOUS
  <1>1. ASSUME NEW p \in Procs, Boot(p) \/ Kill(p)
        PROVE  LockTypeOK'
    BY <1>1 DEF Boot, Kill, LockTypeOK
  <1>2. CASE LockAges
    <2>1. lock \in LockFile
      BY <1>2 DEF LockAges, LockTypeOK
    <2>2. lock' \in LockFile
      BY <1>2, <2>1 DEF LockAges, LockFile
    <2>3. QED  BY <1>2, <2>2 DEF LockAges, LockTypeOK
  <1>3. CASE UNCHANGED lockVars
    BY <1>3 DEF lockVars, LockTypeOK
  <1>4. QED  BY <1>1, <1>2, <1>3, WorkerTypeOK DEF LockNext

\* The lock file, the ledger and the workers have their types, for any number of
\* processes at once.
THEOREM LockTypeCorrect == LockSpec => []LockTypeOK
  <1>1. LockInit => LockTypeOK
    BY InitLockInv DEF LockInv
  <1>2. QED  BY <1>1, NextLockTypeOK, PTL DEF LockSpec

-----------------------------------------------------------------------------
(* One process at a time.                                                  *)

LEMMA InvFacts ==
  ASSUME LockInv
  PROVE  /\ pc \in [Workers -> {"idle", "waiting", "opened", "removing", "held", "loaded", "saved"}]
         /\ copy \in [Workers -> Ledgers] /\ ledger \in Ledgers
         /\ lock # NoLock => lock \in LockFile
         /\ \A v, w \in Workers : pc[v] # "idle" /\ pc[w] # "idle" => ProcOf[v] = ProcOf[w]
  BY DEF LockInv, LockTypeOK, OneProcess

\* The move of one worker leaves the process that runs as it is.
LEMMA GotoOneProcess ==
  ASSUME LockInv, NEW w \in Workers, NEW from, NEW to, Goto(w, from, to),
         UNCHANGED <<up, gone>>
  PROVE  /\ OneProcess'
         /\ pc[w] = from /\ pc'[w] = to
         /\ \A v \in Workers \ {w} : pc'[v] = pc[v]
         /\ \A v \in Workers \ {w} : pc[v] \notin {"opened", "removing"}
  <1>1. ProcOf[w] \in up /\ pc' = [pc EXCEPT ![w] = to] /\ pc[w] = from
    BY DEF Goto, Running
  <1>2. pc'[w] = to /\ \A v \in Workers \ {w} : pc'[v] = pc[v]
    BY <1>1, InvFacts
  <1>3. OneProcess'
    BY <1>1, <1>2 DEF LockInv, OneProcess
  <1>4. \A v \in Workers \ {w} : pc[v] \notin {"opened", "removing"}
    BY <1>1 DEF Goto, Running, LockInv, OneProcess
  <1>5. QED  BY <1>1, <1>2, <1>3, <1>4

\* Nobody is inside when a lock file is missing or stale.
LEMMA NobodyInside ==
  ASSUME LockInv, NEW w \in Workers, NEW from \in {"waiting"}, NEW to, Goto(w, from, to),
         lock = NoLock \/ Stale
  PROVE  \A v \in Workers : ~Inside(v)
  <1> SUFFICES ASSUME NEW v \in Workers, Inside(v)
               PROVE  FALSE
    OBVIOUS
  <1>1. pc[w] = "waiting" /\ ProcOf[w] \in up
    BY DEF Goto, Running
  <1>2. v # w
    BY <1>1 DEF Inside
  <1>3. ProcOf[v] = ProcOf[w] /\ ProcOf[v] \in up
    BY <1>1, InvFacts DEF Inside, LockInv, OneProcess
  <1>4. pc[v] # "opened"
    BY <1>2, <1>3 DEF Goto, Running
  <1>5. lock # NoLock /\ lock.aged = FALSE /\ lock.pid = PidOf[ProcOf[v]]
    BY <1>4 DEF LockInv, InsideOwnsLock
  <1>6. OwnerIsAlive
    BY <1>3, <1>5 DEF OwnerIsAlive
  <1>7. QED  BY <1>5, <1>6 DEF Stale

LEMMA BootInv ==
  ASSUME LockInv, MaxAlive = 1, NEW p \in Procs, Boot(p)
  PROVE  LockInv'
  <1>1. up = {}
    <2>1. \A q \in Procs : Cardinality({q}) = 1
      BY FS_Singleton
    <2>2. QED  BY <2>1 DEF LockInv, OneProcess, Boot
  <1>2. \A w \in Workers : pc[w] = "idle"
    BY <1>1 DEF LockInv, OneProcess
  <1>3. pc' = pc /\ lock' = lock /\ copy' = copy /\ ledger' = ledger /\ up' = {p}
    BY <1>1 DEF Boot
  <1>4. OneProcess'
    BY <1>2, <1>3 DEF OneProcess
  <1>5. InsideOwnsLock' /\ RemovesForNobody' /\ CopyIsCurrent'
    BY <1>2, <1>3 DEF InsideOwnsLock, RemovesForNobody, CopyIsCurrent, Inside
  <1>6. LockTypeOK'
    BY DEF LockInv, LockTypeOK, Boot
  <1>7. QED  BY <1>4, <1>5, <1>6 DEF LockInv

LEMMA KillInv ==
  ASSUME LockInv, NEW p \in Procs, Kill(p)
  PROVE  LockInv'
  <1>1. up = {p}
    BY DEF Kill, LockInv, OneProcess
  <1>2. up' = {} /\ lock' = lock /\ copy' = copy /\ ledger' = ledger
    BY <1>1 DEF Kill
  <1>3. \A w \in Workers : pc'[w] = "idle"
    BY <1>1, InvFacts DEF Kill, LockInv, OneProcess
  <1>4. OneProcess'
    BY <1>2, <1>3 DEF OneProcess
  <1>5. InsideOwnsLock' /\ RemovesForNobody' /\ CopyIsCurrent'
    BY <1>3 DEF InsideOwnsLock, RemovesForNobody, CopyIsCurrent, Inside
  <1>6. LockTypeOK'
    BY DEF LockInv, LockTypeOK, Kill
  <1>7. QED  BY <1>4, <1>5, <1>6 DEF LockInv

\* Steps that change neither the lock nor the ledger, into a place outside.
LEMMA StaysOutInv ==
  ASSUME LockInv, NEW w \in Workers, Begin(w) \/ GiveUp(w) \/ FindStale(w)
  PROVE  LockInv'
  <1>1. LockTypeOK'
    BY WorkerTypeOK DEF LockInv, WorkerNext
  <1>2. CASE Begin(w) \/ GiveUp(w)
    <2>1. /\ OneProcess'
          /\ pc'[w] \in {"idle", "waiting"}
          /\ \A v \in Workers \ {w} : pc'[v] = pc[v]
      BY <1>2, GotoOneProcess DEF Begin, GiveUp
    <2>2. lock' = lock /\ copy' = copy /\ ledger' = ledger
      BY <1>2 DEF Begin, GiveUp
    <2>3. QED  BY <1>1, <2>1, <2>2
               DEF LockInv, InsideOwnsLock, RemovesForNobody, CopyIsCurrent, Inside
  <1>3. CASE FindStale(w)
    <2>1. /\ OneProcess'
          /\ pc'[w] = "removing"
          /\ \A v \in Workers \ {w} : pc'[v] = pc[v]
      BY <1>3, GotoOneProcess DEF FindStale
    <2>2. lock' = lock /\ copy' = copy /\ ledger' = ledger
      BY <1>3 DEF FindStale
    <2>3. \A v \in Workers : ~Inside(v)
      BY <1>3, NobodyInside DEF FindStale
    <2>4. QED  BY <1>1, <2>1, <2>2, <2>3
               DEF LockInv, InsideOwnsLock, RemovesForNobody, CopyIsCurrent, Inside
  <1>4. QED  BY <1>2, <1>3

\* openSync succeeds only while nobody is inside.
LEMMA OpenInv ==
  ASSUME LockInv, NEW w \in Workers, OpenExclusive(w)
  PROVE  LockInv'
  <1>1. LockTypeOK'
    BY WorkerTypeOK DEF LockInv, WorkerNext
  <1>2. /\ OneProcess' /\ pc'[w] = "opened"
        /\ \A v \in Workers \ {w} : pc'[v] = pc[v]
        /\ \A v \in Workers \ {w} : pc[v] # "removing"
    BY GotoOneProcess DEF OpenExclusive
  <1>3. \A v \in Workers : ~Inside(v)
    BY NobodyInside DEF OpenExclusive
  <1>4. /\ lock' = [creator |-> w, pid |-> NoPid, aged |-> FALSE]
        /\ copy' = copy /\ ledger' = ledger
    BY DEF OpenExclusive
  <1>5. lock' \in LockFile
    BY <1>4 DEF LockFile
  <1>6. lock' # NoLock
    BY <1>5, LedgerLockAssumption DEF LockFile, Pids
  <1>7. \A v \in Workers : Inside(v)' => v = w
    BY <1>2, <1>3 DEF Inside
  <1>8. InsideOwnsLock'
    BY <1>2, <1>4, <1>6, <1>7 DEF InsideOwnsLock
  <1>9. RemovesForNobody' /\ CopyIsCurrent'
    BY <1>2, <1>4 DEF LockInv, RemovesForNobody, CopyIsCurrent
  <1>10. QED  BY <1>1, <1>2, <1>8, <1>9 DEF LockInv

\* A step of the one worker that is inside, to a place inside.
LEMMA InsideInv ==
  ASSUME LockInv, NEW w \in Workers, WriteMetadata(w) \/ Load(w) \/ Save(w)
  PROVE  LockInv'
  <1>1. LockTypeOK'
    BY WorkerTypeOK DEF LockInv, WorkerNext
  <1>2. /\ OneProcess'
        /\ \A v \in Workers \ {w} : pc'[v] = pc[v] /\ pc[v] # "removing"
        /\ Inside(w) /\ pc'[w] \in {"held", "loaded", "saved"}
    BY GotoOneProcess DEF WriteMetadata, Load, Save, Inside
  <1>3. \A v \in Workers \ {w} : ~Inside(v)
    BY <1>2, InsideIsOne DEF LockInv, Serialized
  <1>4. lock # NoLock /\ lock \in LockFile /\ lock.creator = w /\ lock.aged = FALSE
    BY <1>2, InvFacts DEF LockInv, InsideOwnsLock
  <1>5. lock' # NoLock /\ lock'.creator = w /\ lock'.aged = FALSE
        /\ lock'.pid = PidOf[ProcOf[w]]
    <2>1. CASE WriteMetadata(w)
      <3>1. lock' = [lock EXCEPT !.pid = PidOf[ProcOf[w]]]
        BY <1>4, <2>1 DEF WriteMetadata
      <3>2. PidOf[ProcOf[w]] \in Pids
        BY LedgerLockAssumption DEF Pids
      <3>3. lock' \in LockFile
        BY <1>4, <3>1, <3>2 DEF LockFile
      <3>4. lock' # NoLock
        BY <3>3, LedgerLockAssumption DEF LockFile, Pids
      <3>5. QED  BY <1>4, <3>1, <3>4 DEF LockFile
    <2>2. CASE Load(w) \/ Save(w)
      <3>1. lock' = lock /\ pc[w] # "opened"
        BY <2>2 DEF Load, Save, Goto
      <3>2. QED  BY <1>2, <1>4, <3>1 DEF LockInv, InsideOwnsLock
    <2>3. QED  BY <2>1, <2>2
  <1>6. \A v \in Workers : Inside(v)' => v = w
    BY <1>2, <1>3 DEF Inside
  <1>7. InsideOwnsLock'
    BY <1>5, <1>6 DEF InsideOwnsLock
  <1>8. RemovesForNobody'
    BY <1>2 DEF RemovesForNobody
  <1>9. CopyIsCurrent'
    <2>1. \A v \in Workers \ {w} : pc'[v] # "loaded"
      BY <1>2, <1>3 DEF Inside
    <2>2. pc'[w] = "loaded" => copy'[w] = ledger'
      BY InvFacts, GotoOneProcess DEF WriteMetadata, Load, Save
    <2>3. QED  BY <2>1, <2>2 DEF CopyIsCurrent
  <1>10. QED  BY <1>1, <1>2, <1>7, <1>8, <1>9 DEF LockInv

\* Whoever unlinks the lock file is the only one inside, or nobody is.
LEMMA UnlinkInv ==
  ASSUME LockInv, NEW w \in Workers, RemoveStale(w) \/ Release(w)
  PROVE  LockInv'
  <1>1. LockTypeOK'
    BY WorkerTypeOK DEF LockInv, WorkerNext
  <1>2. /\ OneProcess' /\ pc'[w] \in {"idle", "waiting"}
        /\ pc[w] \in {"removing", "saved", "loaded"}
        /\ \A v \in Workers \ {w} : pc'[v] = pc[v]
    BY GotoOneProcess DEF RemoveStale, Release
  <1>3. \A v \in Workers \ {w} : ~Inside(v)
    BY <1>2, InsideIsOne DEF LockInv, Serialized, RemovesForNobody, Inside
  <1>4. \A v \in Workers : ~Inside(v)'
    BY <1>2, <1>3 DEF Inside
  <1>5. QED  BY <1>1, <1>2, <1>4
             DEF LockInv, InsideOwnsLock, RemovesForNobody, CopyIsCurrent, Inside

LEMMA AgesInv ==
  ASSUME LockInv, LockAges
  PROVE  LockInv'
  <1>1. LockTypeOK'
    BY NextLockTypeOK DEF LockInv, LockNext
  <1>2. ~(Cardinality(up) > 1)
    <2>1. Cardinality({}) = 0 /\ \A q \in Procs : Cardinality({q}) = 1
      BY FS_EmptySet, FS_Singleton
    <2>2. Cardinality(up) = 0 \/ Cardinality(up) = 1
      BY <2>1 DEF LockInv, OneProcess
    <2>3. QED  BY <2>2
  <1>3. \A w \in Workers : ~Inside(w)
    BY <1>2 DEF LockAges, Inside
  <1>4. QED  BY <1>1, <1>3
             DEF LockAges, LockInv, OneProcess, InsideOwnsLock, RemovesForNobody, CopyIsCurrent, Inside

LEMMA NextLockInv == MaxAlive = 1 /\ LockInv /\ [LockNext]_lockVars => LockInv'
  <1> SUFFICES ASSUME MaxAlive = 1, LockInv, [LockNext]_lockVars
               PROVE  LockInv'
    OBVIOUS
  <1>1. ASSUME NEW p \in Procs, Boot(p) \/ Kill(p)
        PROVE  LockInv'
    BY <1>1, BootInv, KillInv
  <1>2. ASSUME NEW w \in Workers, WorkerNext(w) \/ GiveUp(w)
        PROVE  LockInv'
    BY <1>2, StaysOutInv, OpenInv, InsideInv, UnlinkInv DEF WorkerNext
  <1>3. CASE LockAges
    BY <1>3, AgesInv
  <1>4. CASE UNCHANGED lockVars
    BY <1>4 DEF lockVars, LockInv, LockTypeOK, OneProcess, InsideOwnsLock, RemovesForNobody,
                CopyIsCurrent, Inside
  <1>5. QED  BY <1>1, <1>2, <1>3, <1>4 DEF LockNext

\* Among the workers of one process at a time, through any number of crashes and
\* restarts and whatever pid each restart gets, no two are between open and
\* unlink at once (withLock, clearStaleLock).
THEOREM OneProcessSerialized == MaxAlive = 1 => (LockSpec => []Serialized)
  <1> SUFFICES ASSUME MaxAlive = 1
               PROVE  LockSpec => []Serialized
    OBVIOUS
  <1>1. LockInit => LockInv
    BY InitLockInv
  <1>2. LockInv /\ [LockNext]_lockVars => LockInv'
    BY NextLockInv
  <1>3. LockInv => Serialized
    BY InsideIsOne DEF LockInv
  <1>4. QED  BY <1>1, <1>2, <1>3, PTL DEF LockSpec

\* No worker's count goes back in a step.
Survives == \A w \in Workers : ledger'[w] >= ledger[w]

LEMMA StepSurvives == LockInv /\ [LockNext]_lockVars => Survives
  <1> SUFFICES ASSUME LockInv, [LockNext]_lockVars
               PROVE  Survives
    OBVIOUS
  <1>1. ledger \in [Workers -> Nat]
    BY LedgerLockAssumption DEF LockInv, LockTypeOK, Ledgers
  <1>2. ASSUME NEW w \in Workers, Save(w)
        PROVE  Survives
    <2>1. copy[w] = ledger
      BY <1>2 DEF LockInv, CopyIsCurrent, Save, Goto
    <2>2. ledger' = [ledger EXCEPT ![w] = IF @ < MaxCount THEN @ + 1 ELSE @]
      BY <1>2, <2>1 DEF Save
    <2>3. QED  BY <1>1, <2>2, LedgerLockAssumption DEF Survives
  <1>3. CASE ledger' = ledger
    BY <1>1, <1>3 DEF Survives
  <1>4. QED
    BY <1>2, <1>3
    DEF LockNext, lockVars, WorkerNext, Boot, Kill, Begin, GiveUp, OpenExclusive, WriteMetadata,
        FindStale, RemoveStale, Load, Release, LockAges

\* With one process at a time no save undoes an update that another worker saved
\* since this one loaded the ledger (update: load, mutate and save under the lock).
THEOREM OneProcessSurvives == MaxAlive = 1 => (LockSpec => UpdatesSurvive)
  <1> SUFFICES ASSUME MaxAlive = 1
               PROVE  LockSpec => UpdatesSurvive
    OBVIOUS
  <1>1. LockInv /\ [LockNext]_lockVars => LockInv'
    BY NextLockInv
  <1>2. LockInv /\ [LockNext]_lockVars => [Survives]_lockVars
    BY StepSurvives
  <1>3. UpdatesSurvive <=> [][Survives]_lockVars
    BY DEF UpdatesSurvive, Survives
  <1>4. QED  BY <1>1, <1>2, <1>3, InitLockInv, PTL DEF LockSpec
=============================================================================
