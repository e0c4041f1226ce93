------------------------- MODULE LoopPipelineProofs -------------------------
(***************************************************************************)
(* Theorems about LoopPipeline, for any number of executors, protocols,    *)
(* proposals and crashes: the state keeps its types, at most one plan is   *)
(* open, no leg lands twice, and what a loop in the ledger says.           *)
(***************************************************************************)
EXTENDS LoopPipeline, FiniteSetTheorems, SequenceTheorems, TLAPS

-----------------------------------------------------------------------------
(* Sequences, records and finite sets.                                     *)

LEMMA MinIsElement ==
  ASSUME NEW S \in SUBSET Nat, S # {}
  PROVE  Min(S) \in S
  <1>1. PICK x \in S : \A y \in S : ~(<<y, x>> \in OpToRel(<, Nat))
    BY NatLessThanWellFounded, WFMin
  <1>2. \A y \in S : x <= y
    <2>1. ASSUME NEW y \in S PROVE ~(y < x)
      BY <1>1 DEF OpToRel
    <2>2. QED  BY <2>1
  <1>3. QED  BY <1>2 DEF Min

LEMMA KeepProperties ==
  ASSUME NEW S, NEW s \in Seq(S), NEW n \in Nat
  PROVE  /\ Keep(s, n) \in Seq(S)
         /\ Len(Keep(s, n)) <= n
         /\ Len(Keep(s, n)) <= Len(s)
         /\ \A i \in 1..Len(Keep(s, n)) : Keep(s, n)[i] = s[i]
  <1> DEFINE m == IF Len(s) < n THEN Len(s) ELSE n
  <1>1. m \in Nat /\ m <= n /\ m <= Len(s)
    BY LenProperties
  <1>2. \A i \in 1..m : s[i] \in S
    BY <1>1, ElementOfSeq, LenProperties
  <1>3. /\ SubSeq(s, 1, m) \in Seq(S)
        /\ Len(SubSeq(s, 1, m)) = IF 1 <= m THEN m - 1 + 1 ELSE 0
        /\ \A i \in 1..(m - 1 + 1) : SubSeq(s, 1, m)[i] = s[1 + i - 1]
    <2> HIDE DEF m
    <2> QED  BY <1>1, <1>2, SubSeqProperties
  <1>4. Keep(s, n) = SubSeq(s, 1, m)
    BY DEF Keep
  <1>5. Len(SubSeq(s, 1, m)) = m
    <2> HIDE DEF m
    <2> QED  BY <1>1, <1>3
  <1>6. \A i \in 1..m : SubSeq(s, 1, m)[i] = s[i]
    <2> HIDE DEF m
    <2> QED  BY <1>1, <1>3
  <1> HIDE DEF m
  <1>7. QED  BY <1>1, <1>3, <1>4, <1>5, <1>6

LEMMA PushProperties ==
  ASSUME NEW S, NEW s \in Seq(S), NEW e \in S
  PROVE  /\ <<e>> \o s \in Seq(S)
         /\ Len(<<e>> \o s) = Len(s) + 1
         /\ (<<e>> \o s)[1] = e
         /\ \A i \in 2..(Len(s) + 1) : (<<e>> \o s)[i] = s[i - 1]
  <1>1. <<e>> \in Seq(S) /\ Len(<<e>>) = 1 /\ <<e>>[1] = e
    OBVIOUS
  <1>2. /\ <<e>> \o s \in Seq(S)
        /\ Len(<<e>> \o s) = Len(<<e>>) + Len(s)
        /\ \A i \in 1..(Len(<<e>>) + Len(s)) :
             (<<e>> \o s)[i] = IF i <= Len(<<e>>) THEN <<e>>[i] ELSE s[i - Len(<<e>>)]
    BY <1>1, ConcatProperties
  <1>3. Len(s) \in Nat
    BY LenProperties
  <1>4. QED  BY <1>1, <1>2, <1>3

LEMMA MapProperties ==
  ASSUME NEW S, NEW s \in Seq(S), NEW T, NEW f \in [DOMAIN s -> T]
  PROVE  f \in Seq(T) /\ Len(f) = Len(s) /\ DOMAIN f = DOMAIN s
  <1>1. Len(s) \in Nat /\ DOMAIN s = 1..Len(s)
    BY LenProperties
  <1>2. f \in Seq(T)
    BY <1>1, SeqDef
  <1>3. QED  BY <1>1, <1>2, LenProperties

\* The indices of a sequence.
LEMMA Indices ==
  ASSUME NEW S, NEW s \in Seq(S)
  PROVE  /\ DOMAIN s \in SUBSET Nat
         /\ IsFiniteSet(DOMAIN s)
         /\ \A i \in DOMAIN s : s[i] \in S
  <1>1. Len(s) \in Nat /\ DOMAIN s = 1..Len(s)
    BY LenProperties
  <1>2. IsFiniteSet(1..Len(s))
    BY <1>1, FS_Interval
  <1>3. QED  BY <1>1, <1>2, ElementOfSeq

LEMMA ProposalStatus ==
  ASSUME NEW p \in Proposal, NEW st \in {"open", "accepted", "rejected", "expired"}
  PROVE  [p EXCEPT !.status = st] \in Proposal
  BY DEF Proposal

LEMMA PlanStatus ==
  ASSUME NEW p \in Plan, NEW st \in {"accepted", "executing", "executed", "failed", "cancelled"}
  PROVE  [p EXCEPT !.status = st] \in Plan /\ [p EXCEPT !.status = st].status = st
  BY DEF Plan

LEMMA PlanLapses ==
  ASSUME NEW p \in Plan
  PROVE  [p EXCEPT !.lapsed = TRUE] \in Plan /\ [p EXCEPT !.lapsed = TRUE].status = p.status
  BY DEF Plan

LEMMA LoopStatus ==
  ASSUME NEW loop \in Loop, NEW st \in {"opening", "active", "unwinding"}
  PROVE  [loop EXCEPT !.status = st] \in Loop
  BY DEF Loop

-----------------------------------------------------------------------------
(* Type correctness.                                                       *)

\* What the types rest on: the counted sets are finite, and an executor that is
\* not idle holds a proposal.
PipeInv ==
    /\ PipeTypeOK
    /\ IsFiniteSet(receipts) /\ IsFiniteSet(landed)
    /\ \A s \in Slots : job[s].pc # "idle" => job[s].proposal \in Proposal

LEMMA InitPipeInv == PipeInit => PipeInv
  <1> SUFFICES ASSUME PipeInit PROVE PipeInv
    OBVIOUS
  <1>1. IsFiniteSet({})
    BY FS_EmptySet
  <1>2. <<>> \in Seq(Proposal) /\ <<>> \in Seq(Plan) /\ Len(<<>>) = 0
    OBVIOUS
  <1>3. Idle \in Job
    BY DEF Idle, Job
  <1>4. Idle.pc = "idle"
    BY DEF Idle
  <1>5. job \in [Slots -> Job] /\ \A s \in Slots : job[s].pc = "idle"
    BY <1>3, <1>4 DEF PipeInit
  <1>6. 0 <= MaxProposals /\ 0 <= MaxPlans
    BY PipelineAssumption
  <1>7. /\ proposals \in Seq(Proposal) /\ Len(proposals) <= MaxProposals
        /\ plans \in Seq(Plan) /\ Len(plans) <= MaxPlans
    BY <1>2, <1>6 DEF PipeInit
  <1>8. chain \in Holdings /\ stood \in Holdings
    BY PipelineAssumption DEF PipeInit
  <1>9. counts \in [runs : Nat, main : Nat, others : Nat, crashes : Nat]
    BY DEF PipeInit
  <1>10. PipeTypeOK
    BY <1>5, <1>7, <1>8, <1>9 DEF PipeInit, PipeTypeOK
  <1>11. QED
    BY <1>1, <1>5, <1>10 DEF PipeInit, PipeInv

LEMMA InsertType ==
  ASSUME PipeInv, NEW p \in Proposal, Insert(p)
  PROVE  proposals' \in Seq(Proposal) /\ Len(proposals') <= MaxProposals
  <1> DEFINE verdict == IF ValidLoopProposal(p, plans, loops, locked) THEN "open" ELSE "rejected"
  <1>1. proposals \in Seq(Proposal)
    BY DEF PipeInv, PipeTypeOK
  <1>2. [p EXCEPT !.status = verdict] \in Proposal
    BY ProposalStatus
  <1>3. <<[p EXCEPT !.status = verdict]>> \o proposals \in Seq(Proposal)
    BY <1>1, <1>2, PushProperties
  <1>4. proposals' = Keep(<<[p EXCEPT !.status = verdict]>> \o proposals, MaxProposals)
    BY DEF Insert
  <1>5. MaxProposals \in Nat
    BY PipelineAssumption
  <1> HIDE DEF verdict
  <1>6. QED  BY <1>3, <1>4, <1>5, KeepProperties

LEMMA BuildType ==
  ASSUME PipeInv, NEW run \in Runs, NEW shape \in Shapes
  PROVE  Build(run, Len(proposals), shape) \in Proposal
  <1>1. Len(proposals) \in Nat
    BY LenProperties DEF PipeInv, PipeTypeOK
  <1>2. shape \in Shape
    BY PipelineAssumption
  <1>3. QED  BY <1>1, <1>2 DEF Build, Proposal, ProposalId

LEMMA ObserversInv ==
  ASSUME PipeInv,
         RateScout \/ PositionWrite \/ (\E unread \in SUBSET Unreliable, critical \in SUBSET Risky :
                                           PositionRead(unread, critical))
  PROVE  PipeInv'
  <1>1. CASE RateScout
    BY <1>1 DEF RateScout, PipeInv, PipeTypeOK
  <1>2. CASE PositionWrite
    BY <1>2 DEF PositionWrite, PipeInv, PipeTypeOK
  <1>3. ASSUME NEW unread \in SUBSET Unreliable, NEW critical \in SUBSET Risky,
               PositionRead(unread, critical)
        PROVE  PipeInv'
    <2>1. [seen |-> [p \in Protocols |-> IF p \in unread THEN {} ELSE chain[p]],
           critical |-> critical] \in Snapshot
      <3>1. critical \subseteq Protocols
        BY PipelineAssumption
      <3>2. [p \in Protocols |-> IF p \in unread THEN {} ELSE chain[p]] \in Holdings
        BY DEF PipeInv, PipeTypeOK, Holdings
      <3>3. QED  BY <3>1, <3>2 DEF Snapshot
    <2>2. reading' \in Snapshot \cup {None}
      BY <1>3, <2>1 DEF PositionRead
    <2>3. QED  BY <1>3, <2>2 DEF PositionRead, ledgerVars, PipeInv, PipeTypeOK
  <1>4. QED  BY <1>1, <1>2, <1>3

LEMMA ProposersInv ==
  ASSUME PipeInv, ProposeNext \/ StrategistInsert \/ AgeNext
  PROVE  PipeInv'
  <1>0. counts \in [runs : Nat, main : Nat, others : Nat, crashes : Nat]
    BY DEF PipeInv, PipeTypeOK
  <1>1. ASSUME NEW shape \in Shapes, StrategistBuild(shape)
        PROVE  PipeInv'
    <2>1. counts.runs + 1 \in Runs
      BY <1>0, <1>1, PipelineAssumption DEF StrategistBuild, Runs
    <2>2. draft' \in Proposal
      BY <1>1, <2>1, BuildType DEF StrategistBuild
    <2>3. counts' \in [runs : Nat, main : Nat, others : Nat, crashes : Nat]
      BY <1>0, <1>1 DEF StrategistBuild
    <2>4. QED  BY <1>1, <2>2, <2>3 DEF StrategistBuild, ledgerVars, PipeInv, PipeTypeOK
  <1>2. ASSUME NEW shape \in Shapes, MainPropose(shape)
        PROVE  PipeInv'
    <2>1. Build(MainRun, Len(proposals), shape) \in Proposal
      BY BuildType DEF Runs
    <2>2. proposals' \in Seq(Proposal) /\ Len(proposals') <= MaxProposals
      BY <1>2, <2>1, InsertType DEF MainPropose
    <2>3. counts' \in [runs : Nat, main : Nat, others : Nat, crashes : Nat]
      BY <1>0, <1>2 DEF MainPropose
    <2>4. QED  BY <1>2, <2>2, <2>3 DEF MainPropose, PipeInv, PipeTypeOK
  <1>3. CASE StrategistInsert
    <2>1. draft \in Proposal
      BY <1>3 DEF StrategistInsert, PipeInv, PipeTypeOK
    <2>2. proposals' \in Seq(Proposal) /\ Len(proposals') <= MaxProposals
      BY <1>3, <2>1, InsertType DEF StrategistInsert
    <2>3. QED  BY <1>3, <2>2 DEF StrategistInsert, PipeInv, PipeTypeOK
  <1>4. ASSUME NEW p \in Proposal, NEW what \in {"ttl", "snapshots"}, Age(p, what)
        PROVE  PipeInv'
    <2>1. p.id \in ProposalId
      BY DEF Proposal
    <2>2. aged' \subseteq ProposalId \X {"ttl", "snapshots"}
      BY <1>4, <2>1 DEF Age, PipeInv, PipeTypeOK
    <2>3. QED  BY <1>4, <2>2 DEF Age, ledgerVars, PipeInv, PipeTypeOK
  <1>5. CASE AgeNext
    <2>1. \A i \in DOMAIN proposals : proposals[i] \in Proposal
      BY Indices DEF PipeInv, PipeTypeOK
    <2>2. draft # None => draft \in Proposal
      BY DEF PipeInv, PipeTypeOK
    <2>3. QED  BY <1>4, <1>5, <2>1, <2>2 DEF AgeNext
  <1>6. QED  BY <1>1, <1>2, <1>3, <1>5 DEF ProposeNext

\* The queue and the plans of the coordinator, and what it concludes of claims
\* that lapsed.
LEMMA ExpiredType ==
  ASSUME PipeInv
  PROVE  Expired \in Seq(Proposal) /\ Len(Expired) = Len(proposals)
  <1>1. proposals \in Seq(Proposal)
    BY DEF PipeInv, PipeTypeOK
  <1>2. \A i \in DOMAIN proposals :
           proposals[i] \in Proposal /\ [proposals[i] EXCEPT !.status = "expired"] \in Proposal
    BY <1>1, Indices, ProposalStatus
  <1>3. Expired \in [DOMAIN proposals -> Proposal]
    BY <1>2 DEF Expired
  <1>4. QED  BY <1>1, <1>3, MapProperties

LEMMA ReconciledType ==
  ASSUME PipeInv
  PROVE  /\ Reconciled \in Seq(Plan) /\ Len(Reconciled) = Len(plans)
         /\ DOMAIN Reconciled = DOMAIN plans
         /\ \A i \in DOMAIN plans : Open(Reconciled[i]) => Open(plans[i])
  <1>1. plans \in Seq(Plan)
    BY DEF PipeInv, PipeTypeOK
  <1>2. \A i \in DOMAIN plans :
           /\ plans[i] \in Plan
           /\ [plans[i] EXCEPT !.status = "executed"] \in Plan
           /\ [plans[i] EXCEPT !.status = "executed"].status = "executed"
           /\ [plans[i] EXCEPT !.status = "cancelled"] \in Plan
           /\ [plans[i] EXCEPT !.status = "cancelled"].status = "cancelled"
    BY <1>1, Indices, PlanStatus
  <1>3. ASSUME NEW i \in DOMAIN plans
        PROVE  Reconciled[i] \in Plan /\ (Open(Reconciled[i]) => Open(plans[i]))
    <2>1. CASE Lapsed(plans[i]) /\ FoundOnChain(plans[i])
      <3>1. Reconciled[i] = [plans[i] EXCEPT !.status = "executed"]
        BY <2>1 DEF Reconciled
      <3>2. QED  BY <1>2, <3>1 DEF Open
    <2>2. CASE Lapsed(plans[i]) /\ ~FoundOnChain(plans[i])
      <3>1. Reconciled[i] = [plans[i] EXCEPT !.status = "cancelled"]
        BY <2>2 DEF Reconciled
      <3>2. QED  BY <1>2, <3>1 DEF Open
    <2>3. CASE ~Lapsed(plans[i])
      <3>1. Reconciled[i] = plans[i]
        BY <2>3 DEF Reconciled
      <3>2. QED  BY <1>2, <3>1
    <2>4. QED  BY <2>1, <2>2, <2>3
  <1>4. Reconciled \in [DOMAIN plans -> Plan]
    BY <1>3 DEF Reconciled
  <1>5. QED  BY <1>1, <1>3, <1>4, MapProperties

LEMMA ProposalOfType ==
  ASSUME PipeInv, NEW plan, HasProposal(plan)
  PROVE  ProposalOf(plan) \in Proposal
  <1>1. /\ DOMAIN proposals \in SUBSET Nat
        /\ \A i \in DOMAIN proposals : proposals[i] \in Proposal
    BY Indices DEF PipeInv, PipeTypeOK
  <1> DEFINE S == {i \in DOMAIN proposals : proposals[i].id = plan.id}
  <1>2. S \in SUBSET Nat /\ S # {}
    BY <1>1 DEF HasProposal
  <1>3. Min(S) \in S
    <2> HIDE DEF S
    <2> QED  BY <1>2, MinIsElement
  <1>4. ProposalOf(plan) = proposals[Min(S)]
    BY DEF ProposalOf
  <1> HIDE DEF S
  <1>5. Min(S) \in DOMAIN proposals
    BY <1>3 DEF S
  <1>6. QED  BY <1>1, <1>4, <1>5

LEMMA FoundIdsFinite ==
  ASSUME PipeInv
  PROVE  IsFiniteSet(FoundIds) /\ FoundIds \subseteq ProposalId
  <1>1. /\ IsFiniteSet(DOMAIN plans)
        /\ \A i \in DOMAIN plans : plans[i] \in Plan
    BY Indices DEF PipeInv, PipeTypeOK
  <1> DEFINE D == {j \in DOMAIN plans : Lapsed(plans[j]) /\ FoundOnChain(plans[j])}
             f == [i \in D |-> plans[i].id]
  <1>2. IsFiniteSet(D)
    BY <1>1, FS_Subset
  <1>3. f \in Surjection(D, FoundIds)
    BY DEF FoundIds, Surjection
  <1>4. IsFiniteSet(FoundIds)
    <2> HIDE DEF D, f
    <2> QED  BY <1>2, <1>3, FS_Surjection
  <1>5. QED  BY <1>1, <1>4 DEF FoundIds, Plan

LEMMA NextReceiptType ==
  ASSUME PipeInv
  PROVE  NextReceipt \in Nat
  BY FS_CardinalityType DEF PipeInv, NextReceipt

LEMMA ReconciledReceiptsType ==
  ASSUME PipeInv
  PROVE  ReconciledReceipts \subseteq Receipt /\ IsFiniteSet(ReconciledReceipts)
  <1> DEFINE New == {[id |-> id, receipt |-> NextReceipt, status |-> "confirmed",
                      reconciled |-> TRUE] : id \in FoundIds}
             f == [id \in FoundIds |-> [id |-> id, receipt |-> NextReceipt,
                                        status |-> "confirmed", reconciled |-> TRUE]]
  <1>1. f \in Surjection(FoundIds, New)
    BY DEF Surjection
  <1>2. IsFiniteSet(New)
    <2> HIDE DEF New, f
    <2> QED  BY <1>1, FoundIdsFinite, FS_Surjection
  <1>3. New \subseteq Receipt
    <2>1. PICK n \in Nat : n = NextReceipt
      BY NextReceiptType
    <2>2. ASSUME NEW id \in ProposalId
          PROVE  [id |-> id, receipt |-> n, status |-> "confirmed", reconciled |-> TRUE] \in Receipt
      BY DEF Receipt
    <2>3. QED  BY <2>1, <2>2, FoundIdsFinite
  <1>4. ReconciledReceipts = receipts \cup New
    BY DEF ReconciledReceipts
  <1> HIDE DEF New
  <1>5. QED  BY <1>2, <1>3, <1>4, FS_Union DEF PipeInv, PipeTypeOK

LEMMA ReconciledLoopsType ==
  ASSUME PipeInv
  PROVE  ReconciledLoops \subseteq Loop
  <1>1. ASSUME NEW id \in FoundIds
        PROVE  [id |-> id, receipt |-> NextReceipt, status |-> "active",
                from |-> ProposalOf([id |-> id]).shape.from] \in Loop
    <2>1. PICK i \in DOMAIN plans : HasProposal(plans[i]) /\ plans[i].id = id
      BY <1>1 DEF FoundIds, FoundOnChain
    <2>2. HasProposal([id |-> id])
      BY <2>1 DEF HasProposal
    <2>3. ProposalOf([id |-> id]) \in Proposal
      BY <2>2, ProposalOfType
    <2>4. ProposalOf([id |-> id]).shape.from \in Protocols
      BY <2>3 DEF Proposal, Shape
    <2>5. QED  BY <2>4, <1>1, FoundIdsFinite, NextReceiptType DEF Loop
  <1>2. QED  BY <1>1 DEF ReconciledLoops, PipeInv, PipeTypeOK

\* Two open plans are one.
OneOpen == \A i, j \in DOMAIN plans : Open(plans[i]) /\ Open(plans[j]) => i = j

PlanList == plans \in Seq(Plan) /\ Len(plans) <= MaxPlans

\* A step that opens nothing and drops no plan keeps one open.
LEMMA NothingOpens ==
  ASSUME OneOpen, DOMAIN plans' = DOMAIN plans,
         \A i \in DOMAIN plans : Open(plans'[i]) => Open(plans[i])
  PROVE  OneOpen'
  BY DEF OneOpen, Open

LEMMA CoordinatorInv ==
  ASSUME PipeInv, OneOpen, Coordinator
  PROVE  PipeInv' /\ OneOpen'
  <1> DEFINE candidates == {i \in DOMAIN Expired : Expired[i].status = "open"}
             first == Min(candidates)
             chosen == Expired[first]
             plan == [id |-> chosen.id, status |-> "accepted", lapsed |-> FALSE, run |-> None]
             decide == OpenPlans(Reconciled) = {} /\ candidates # {}
             accept == ValidLoopProposal(chosen, Reconciled, ReconciledLoops, locked)
  <1>1. /\ receipts' = ReconciledReceipts /\ loops' = ReconciledLoops
        /\ UNCHANGED <<dryRun, locked, market, position, reading, draft, job, chain, stood, aged,
                       landed, counts>>
        /\ \/ ~decide /\ proposals' = Expired /\ plans' = Reconciled
           \/ /\ decide /\ accept
              /\ proposals' = [Expired EXCEPT ![first].status = "accepted"]
              /\ plans' = Keep(<<plan>> \o Reconciled, MaxPlans)
           \/ /\ decide /\ ~accept
              /\ proposals' = [Expired EXCEPT ![first].status = "rejected"]
              /\ plans' = Reconciled
    BY Zenon DEF Coordinator
  <1>2. /\ proposals \in Seq(Proposal) /\ Len(proposals) <= MaxProposals
        /\ plans \in Seq(Plan) /\ Len(plans) <= MaxPlans
        /\ MaxPlans \in Nat
    BY PipelineAssumption DEF PipeInv, PipeTypeOK
  <1>3. ASSUME decide
        PROVE  /\ first \in 1..Len(Expired)
               /\ chosen \in Proposal
               /\ plan \in Plan
    <2>1. candidates \in SUBSET Nat /\ candidates \subseteq DOMAIN Expired
      BY ExpiredType, Indices
    <2>2. candidates # {}
      BY <1>3
    <2>3. first \in candidates
      <3> HIDE DEF candidates
      <3> QED  BY <2>1, <2>2, MinIsElement
    <2>4. first \in 1..Len(Expired)
      BY <2>1, <2>3, ExpiredType, LenProperties
    <2>5. chosen \in Proposal
      <3> HIDE DEF first
      <3> QED  BY <2>4, ExpiredType, ElementOfSeq
    <2>6. chosen.id \in ProposalId
      <3> HIDE DEF chosen
      <3> QED  BY <2>5 DEF Proposal
    <2>7. plan \in Plan
      <3> HIDE DEF chosen
      <3> QED  BY <2>6 DEF Plan
    <2>8. QED  BY <2>4, <2>5, <2>7
  <1>4. proposals' \in Seq(Proposal) /\ Len(proposals') <= MaxProposals
    <2>1. ASSUME NEW st \in {"accepted", "rejected"}, decide
          PROVE  /\ [Expired EXCEPT ![first].status = st] \in Seq(Proposal)
                 /\ Len([Expired EXCEPT ![first].status = st]) = Len(proposals)
      <3> DEFINE decided == [chosen EXCEPT !.status = st]
      <3>1. first \in 1..Len(Expired) /\ decided \in Proposal
        BY <1>3, <2>1, ProposalStatus
      <3>2. [Expired EXCEPT ![first].status = st] = [Expired EXCEPT ![first] = decided]
        OBVIOUS
      <3> HIDE DEF decided, first
      <3>3. QED  BY <3>1, <3>2, ExpiredType, ExceptSeq
    <2>2. QED  BY <1>1, <1>2, <2>1, ExpiredType
  <1>5. CASE plans' = Reconciled
    <2>1. OneOpen'
      BY <1>5, ReconciledType, NothingOpens
    <2>2. PlanList'
      BY <1>2, <1>5, ReconciledType DEF PlanList
    <2>3. QED  BY <1>1, <1>4, <2>1, <2>2, ReconciledReceiptsType, ReconciledLoopsType
               DEF PipeInv, PipeTypeOK, PlanList
  <1>6. CASE decide /\ plans' = Keep(<<plan>> \o Reconciled, MaxPlans)
    <2> DEFINE pushed == <<plan>> \o Reconciled
    <2>1. plan \in Plan
      BY <1>3, <1>6
    <2>2. \A i \in DOMAIN Reconciled : ~Open(Reconciled[i])
      BY <1>6 DEF OpenPlans
    <2> HIDE DEF plan, decide
    <2>3. /\ pushed \in Seq(Plan) /\ Len(pushed) = Len(Reconciled) + 1
          /\ \A i \in 2..(Len(Reconciled) + 1) : pushed[i] = Reconciled[i - 1]
      BY <2>1, ReconciledType, PushProperties
    <2> HIDE DEF pushed
    <2>4. /\ Keep(pushed, MaxPlans) \in Seq(Plan)
          /\ Len(Keep(pushed, MaxPlans)) <= MaxPlans
          /\ Len(Keep(pushed, MaxPlans)) <= Len(pushed)
          /\ \A i \in 1..Len(Keep(pushed, MaxPlans)) : Keep(pushed, MaxPlans)[i] = pushed[i]
      BY <1>2, <2>3, KeepProperties
    <2>5. plans' = Keep(pushed, MaxPlans)
      BY <1>6 DEF pushed
    <2>6. PlanList'
      BY <2>4, <2>5 DEF PlanList
    <2>7. ASSUME NEW i \in DOMAIN plans', Open(plans'[i])
          PROVE  i = 1
      <3>1. DOMAIN plans' = 1..Len(plans') /\ Len(plans') \in Nat
        BY <2>6, LenProperties DEF PlanList
      <3>2. Len(Reconciled) \in Nat /\ DOMAIN Reconciled = 1..Len(Reconciled)
        BY ReconciledType, LenProperties
      <3>3. plans'[i] = pushed[i] /\ i \in 1..(Len(Reconciled) + 1)
        BY <2>3, <2>4, <2>5, <2>7, <3>1, <3>2
      <3>4. ASSUME i # 1 PROVE FALSE
        <4>1. i \in 2..(Len(Reconciled) + 1) /\ i - 1 \in 1..Len(Reconciled)
          BY <3>2, <3>3, <3>4
        <4>2. plans'[i] = Reconciled[i - 1]
          BY <2>3, <3>3, <4>1
        <4>3. QED  BY <2>2, <2>7, <3>2, <4>1, <4>2 DEF Open
      <3>5. QED  BY <3>4
    <2>8. OneOpen'
      BY <2>7 DEF OneOpen, Open
    <2>9. QED  BY <1>1, <1>4, <2>6, <2>8, ReconciledReceiptsType, ReconciledLoopsType
               DEF PipeInv, PipeTypeOK, PlanList
  <1> HIDE DEF decide, accept, plan, first
  <1>7. QED  BY <1>1, <1>5, <1>6

\* A step that rewrites plans in place and touches nothing else but jobs.
LEMMA PlansAndJobsInv ==
  ASSUME PipeInv, OneOpen,
         UNCHANGED <<dryRun, proposals, loops, receipts, locked, market, position, reading,
                     draft, chain, stood, aged, landed, counts>>,
         plans' \in [DOMAIN plans -> Plan],
         \A i \in DOMAIN plans : Open(plans'[i]) => Open(plans[i]),
         job' \in [Slots -> Job],
         \A s \in Slots : job'[s].pc # "idle" => job'[s].proposal \in Proposal
  PROVE  PipeInv' /\ OneOpen'
  <1>1. plans \in Seq(Plan) /\ Len(plans) <= MaxPlans
    BY DEF PipeInv, PipeTypeOK
  <1>2. plans' \in Seq(Plan) /\ Len(plans') = Len(plans) /\ DOMAIN plans' = DOMAIN plans
    BY <1>1, MapProperties
  <1>3. OneOpen'
    BY <1>2, NothingOpens
  <1>4. plans' \in Seq(Plan) /\ Len(plans') <= MaxPlans
    BY <1>1, <1>2
  <1>5. QED  BY <1>3, <1>4 DEF PipeInv, PipeTypeOK

LEMMA JobFacts ==
  ASSUME PipeInv
  PROVE  /\ job \in [Slots -> Job]
         /\ \A s \in Slots : job[s].pc # "idle" => job[s].proposal \in Proposal
         /\ \A i \in DOMAIN plans : plans[i] \in Plan
         /\ plans = [i \in DOMAIN plans |-> plans[i]]
         /\ Idle \in Job /\ Idle.pc = "idle"
  <1>1. plans \in Seq(Plan) /\ job \in [Slots -> Job]
    BY DEF PipeInv, PipeTypeOK
  <1>2. plans \in [1..Len(plans) -> Plan] /\ DOMAIN plans = 1..Len(plans)
    BY <1>1, LenProperties
  <1>3. Idle \in Job /\ Idle.pc = "idle"
    BY DEF Idle, Job
  <1>4. QED  BY <1>1, <1>2, <1>3 DEF PipeInv

LEMMA ClaimLapsesInv ==
  ASSUME PipeInv, OneOpen, NEW i \in DOMAIN plans, ClaimLapses(i)
  PROVE  PipeInv' /\ OneOpen'
  <1> DEFINE lapsed == [plans[i] EXCEPT !.lapsed = TRUE]
  <1>1. lapsed \in Plan /\ lapsed.status = plans[i].status
    BY JobFacts, PlanLapses
  <1>2. plans' = [plans EXCEPT ![i] = lapsed]
    BY DEF ClaimLapses
  <1>3. UNCHANGED <<dryRun, proposals, loops, receipts, locked, market, position, reading,
                    draft, job, chain, stood, aged, landed, counts>>
    BY DEF ClaimLapses
  <1> HIDE DEF lapsed
  <1>4. plans' \in [DOMAIN plans -> Plan]
    BY <1>1, <1>2, JobFacts
  <1>5. \A k \in DOMAIN plans : Open(plans'[k]) => Open(plans[k])
    BY <1>1, <1>2, JobFacts DEF Open
  <1>6. QED  BY <1>3, <1>4, <1>5, JobFacts, PlansAndJobsInv

LEMMA ClaimInv ==
  ASSUME PipeInv, OneOpen, NEW s \in Slots, NEW i \in DOMAIN plans, Claim(s, i)
  PROVE  PipeInv' /\ OneOpen'
  <1>1. UNCHANGED <<dryRun, proposals, loops, receipts, locked, market, position, reading,
                    draft, chain, stood, aged, landed, counts>>
    BY DEF Claim
  <1>2. Open(plans[i])
    BY DEF Claim, Candidate, Claimable, Open
  <1>3. CASE ~HasProposal(plans[i])
    <2> DEFINE failed == [plans[i] EXCEPT !.status = "failed"]
    <2>1. failed \in Plan
      BY JobFacts, PlanStatus
    <2>2. plans' = [plans EXCEPT ![i] = failed] /\ job' = job
      BY <1>3 DEF Claim
    <2> HIDE DEF failed
    <2>3. plans' \in [DOMAIN plans -> Plan]
      BY <2>1, <2>2, JobFacts
    <2>4. \A k \in DOMAIN plans : Open(plans'[k]) => Open(plans[k])
      BY <1>2, <2>2, JobFacts
    <2>5. QED  BY <1>1, <2>2, <2>3, <2>4, JobFacts, PlansAndJobsInv
  <1>4. CASE HasProposal(plans[i])
    <2> DEFINE mine == [id |-> plans[i].id, status |-> "executing", lapsed |-> FALSE,
                        run |-> RunOf[s]]
               held == [pc |-> "claimed", failed |-> FALSE, proposal |-> ProposalOf(plans[i])]
    <2>1. plans[i].id \in ProposalId
      BY JobFacts DEF Plan
    <2>2. mine \in Plan
      BY <2>1 DEF Plan
    <2>3. ProposalOf(plans[i]) \in Proposal
      BY <1>4, ProposalOfType
    <2>4. held \in Job /\ held.proposal \in Proposal
      BY <2>3 DEF Job
    <2>5. plans' = [plans EXCEPT ![i] = mine] /\ job' = [job EXCEPT ![s] = held]
      BY <1>4 DEF Claim
    <2> HIDE DEF mine, held
    <2>6. plans' \in [DOMAIN plans -> Plan]
      BY <2>2, <2>5, JobFacts
    <2>7. \A k \in DOMAIN plans : Open(plans'[k]) => Open(plans[k])
      BY <1>2, <2>5, JobFacts
    <2>8. /\ job' \in [Slots -> Job]
          /\ \A w \in Slots : job'[w].pc # "idle" => job'[w].proposal \in Proposal
      BY <2>4, <2>5, JobFacts
    <2>9. QED  BY <1>1, <2>6, <2>7, <2>8, PlansAndJobsInv
  <1>5. QED  BY <1>3, <1>4

LEMMA GateInv ==
  ASSUME PipeInv, OneOpen, NEW s \in Slots, Gate(s)
  PROVE  PipeInv' /\ OneOpen'
  <1> DEFINE to == CASE ~Valid(job[s].proposal, loops, locked) -> "denied"
                     [] Valid(job[s].proposal, loops, locked) /\ dryRun -> "finish"
                     [] OTHER -> IF job[s].proposal.shape.fresh THEN "supply" ELSE "borrow"
             next == [job[s] EXCEPT !.pc = to]
  <1>1. to \in {"denied", "finish", "supply", "borrow"}
    OBVIOUS
  <1>2. job[s] \in Job /\ job[s].proposal \in Proposal
    BY JobFacts DEF Gate
  <1>3. job' = [job EXCEPT ![s] = next]
    BY DEF Gate
  <1>4. next \in Job /\ next.proposal = job[s].proposal
    <2> HIDE DEF to
    <2> QED  BY <1>1, <1>2 DEF Job
  <1>5. UNCHANGED <<dryRun, ledgerVars, reading, draft, chain, stood, aged, landed, counts>>
    BY DEF Gate
  <1> HIDE DEF next
  <1>6. /\ job' \in [Slots -> Job]
        /\ \A w \in Slots : job'[w].pc # "idle" => job'[w].proposal \in Proposal
    BY <1>2, <1>3, <1>4, JobFacts
  <1>7. plans' \in [DOMAIN plans -> Plan] /\ \A k \in DOMAIN plans : plans'[k] = plans[k]
    BY <1>5, JobFacts DEF ledgerVars
  <1>8. \A k \in DOMAIN plans : Open(plans'[k]) => Open(plans[k])
    BY <1>7
  <1>9. QED  BY <1>5, <1>6, <1>7, <1>8, PlansAndJobsInv DEF ledgerVars

\* A late update: the plans it writes, it closes.
LEMMA CloseMine ==
  ASSUME PipeInv, NEW s \in Slots, NEW st \in {"executed", "failed"},
         plans' = [i \in DOMAIN plans |->
                     IF i \in Mine(s) THEN [plans[i] EXCEPT !.status = st] ELSE plans[i]]
  PROVE  /\ plans' \in [DOMAIN plans -> Plan]
         /\ \A i \in DOMAIN plans : Open(plans'[i]) => Open(plans[i])
  <1> DEFINE closed(i) == [plans[i] EXCEPT !.status = st]
  <1>1. \A i \in DOMAIN plans :
           plans[i] \in Plan /\ closed(i) \in Plan /\ closed(i).status = st
    <2>1. st \in {"accepted", "executing", "executed", "failed", "cancelled"}
      OBVIOUS
    <2>2. ASSUME NEW i \in DOMAIN plans
          PROVE  plans[i] \in Plan
      BY JobFacts
    <2>3. QED  BY <2>1, <2>2, PlanStatus
  <1>2. plans' = [i \in DOMAIN plans |-> IF i \in Mine(s) THEN closed(i) ELSE plans[i]]
    OBVIOUS
  <1> HIDE DEF closed
  <1>3. plans' \in [DOMAIN plans -> Plan]
    BY <1>1, <1>2
  <1>4. ASSUME NEW i \in DOMAIN plans, Open(plans'[i])
        PROVE  Open(plans[i])
    <2>1. CASE i \in Mine(s)
      <3>1. plans'[i].status = st
        BY <1>1, <1>2, <2>1
      <3>2. QED  BY <1>4, <3>1 DEF Open
    <2>2. CASE i \notin Mine(s)
      BY <1>2, <1>4, <2>2
    <2>3. QED  BY <2>1, <2>2
  <1>5. QED  BY <1>3, <1>4

LEMMA BecomesIdle ==
  ASSUME PipeInv, NEW s \in Slots, job' = [job EXCEPT ![s] = Idle]
  PROVE  /\ job' \in [Slots -> Job]
         /\ \A w \in Slots : job'[w].pc # "idle" => job'[w].proposal \in Proposal
  BY JobFacts

LEMMA RecordDeniedInv ==
  ASSUME PipeInv, OneOpen, NEW s \in Slots, RecordDenied(s)
  PROVE  PipeInv' /\ OneOpen'
  <1>1. /\ plans' \in [DOMAIN plans -> Plan]
        /\ \A i \in DOMAIN plans : Open(plans'[i]) => Open(plans[i])
    BY CloseMine DEF RecordDenied
  <1>2. QED  BY <1>1, BecomesIdle, PlansAndJobsInv DEF RecordDenied

LEMMA CrashInv ==
  ASSUME PipeInv, OneOpen, NEW s \in Slots, Crash(s)
  PROVE  PipeInv' /\ OneOpen'
  <1>1. counts' \in [runs : Nat, main : Nat, others : Nat, crashes : Nat]
    <2>1. counts' = [counts EXCEPT !.crashes = @ + 1]
      BY DEF Crash
    <2>2. counts \in [runs : Nat, main : Nat, others : Nat, crashes : Nat]
      BY DEF PipeInv, PipeTypeOK
    <2>3. QED  BY <2>1, <2>2
  <1>2. /\ job' \in [Slots -> Job]
        /\ \A w \in Slots : job'[w].pc # "idle" => job'[w].proposal \in Proposal
    BY BecomesIdle DEF Crash
  <1>3. UNCHANGED <<dryRun, ledgerVars, reading, draft, chain, stood, aged, landed>>
    BY DEF Crash
  <1>4. PipeInv'
    BY <1>1, <1>2, <1>3 DEF ledgerVars, PipeInv, PipeTypeOK
  <1>5. OneOpen'
    BY <1>3 DEF ledgerVars, OneOpen, Open
  <1>6. QED  BY <1>4, <1>5

LEMMA SubmitLegInv ==
  ASSUME PipeInv, OneOpen, NEW s \in Slots, NEW lands \in BOOLEAN, NEW throws \in BOOLEAN,
         SubmitLeg(s, lands, throws)
  PROVE  PipeInv' /\ OneOpen'
  <1> DEFINE pc == job[s].pc
             p == job[s].proposal
             at == IF pc = "resupply" THEN p.shape.to ELSE p.shape.from
             asset == AssetOf(pc)
             before == {leg \in landed : leg.id = p.id /\ leg.asset = asset}
             next == [pc |-> IF throws THEN "finish" ELSE After(pc), proposal |-> p,
                      failed |-> throws]
             leg == [id |-> p.id, asset |-> asset, nth |-> Cardinality(before) + 1]
  <1>1. /\ pc \in {"supply", "borrow", "resupply"}
        /\ job' = [job EXCEPT ![s] = next]
        /\ \/ /\ chain' = [chain EXCEPT ![at] = @ \cup {asset}]
              /\ stood' = [stood EXCEPT ![at] = @ \cup {asset}]
              /\ landed' = landed \cup {leg}
           \/ UNCHANGED <<chain, stood, landed>>
        /\ UNCHANGED <<dryRun, ledgerVars, reading, draft, aged, counts>>
    BY Zenon DEF SubmitLeg
  <1>2. p \in Proposal
    BY <1>1, JobFacts
  <1>3. /\ asset \in Assets
        /\ After(pc) \in {"borrow", "resupply", "finish"}
    BY DEF AssetOf, After, Assets
  <1>4. next \in Job /\ next.proposal \in Proposal
    <2> HIDE DEF p
    <2> QED  BY <1>2, <1>3 DEF Job
  <1>5. /\ job' \in [Slots -> Job]
        /\ \A w \in Slots : job'[w].pc # "idle" => job'[w].proposal \in Proposal
    <2> HIDE DEF next
    <2> QED  BY <1>1, <1>4, JobFacts
  <1>6. leg \in Leg
    <2>1. IsFiniteSet(landed)
      BY DEF PipeInv
    <2>2. before \in SUBSET landed
      OBVIOUS
    <2>3. Cardinality(before) \in Nat
      <3> HIDE DEF before
      <3> QED  BY <2>1, <2>2, FS_Subset, FS_CardinalityType
    <2>4. p.id \in ProposalId
      BY <1>2 DEF Proposal
    <2> HIDE DEF before, asset, p
    <2>5. QED  BY <1>3, <2>3, <2>4 DEF Leg
  <1>7. chain \in Holdings /\ stood \in Holdings /\ landed \subseteq Leg /\ IsFiniteSet(landed)
    BY DEF PipeInv, PipeTypeOK
  <1> HIDE DEF pc, p, asset, leg, next, at
  <1>8. chain' \in Holdings /\ stood' \in Holdings
    <2>1. CASE UNCHANGED <<chain, stood>>
      BY <1>7, <2>1
    <2>2. CASE /\ chain' = [chain EXCEPT ![at] = @ \cup {asset}]
               /\ stood' = [stood EXCEPT ![at] = @ \cup {asset}]
      BY <1>3, <1>7, <2>2 DEF Holdings
    <2>3. QED  BY <1>1, <2>1, <2>2
  <1>9. landed' \subseteq Leg /\ IsFiniteSet(landed')
    BY <1>1, <1>6, <1>7, FS_AddElement
  <1>10. PipeInv'
    BY <1>1, <1>5, <1>8, <1>9 DEF ledgerVars, PipeInv, PipeTypeOK
  <1>11. OneOpen'
    BY <1>1 DEF ledgerVars, OneOpen, Open
  <1>12. QED  BY <1>10, <1>11

LEMMA RecordOutcomeInv ==
  ASSUME PipeInv, OneOpen, NEW s \in Slots, RecordOutcome(s)
  PROVE  PipeInv' /\ OneOpen'
  <1> DEFINE p == job[s].proposal
             failed == job[s].failed
             receipt == [id |-> p.id, receipt |-> NextReceipt, reconciled |-> FALSE,
                         status |-> IF failed THEN "failed"
                                    ELSE IF dryRun THEN "planned" ELSE "confirmed"]
             loop == [id |-> p.id, receipt |-> NextReceipt, from |-> p.shape.from,
                      status |-> IF dryRun THEN "opening" ELSE "active"]
             outcome == IF failed THEN "failed" ELSE "executed"
  <1>1. /\ job[s].pc = "finish"
        /\ plans' = [i \in DOMAIN plans |->
                       IF i \in Mine(s) THEN [plans[i] EXCEPT !.status = outcome] ELSE plans[i]]
        /\ receipts' = receipts \cup {receipt} \/ receipts' = receipts
        /\ loops' = loops \cup {loop} \/ loops' = loops
        /\ job' = [job EXCEPT ![s] = Idle]
        /\ UNCHANGED <<dryRun, proposals, locked, market, position, reading, draft, chain, stood,
                       aged, landed, counts>>
    BY Zenon DEF RecordOutcome
  <1>2. p.id \in ProposalId /\ p.shape.from \in Protocols
    BY <1>1, JobFacts DEF Proposal, Shape
  <1>3. receipt \in Receipt /\ loop \in Loop /\ outcome \in {"executed", "failed"}
    <2> HIDE DEF p
    <2> QED  BY <1>2, NextReceiptType DEF Receipt, Loop
  <1> HIDE DEF p, failed, receipt, loop, outcome
  <1>4. /\ plans' \in [DOMAIN plans -> Plan]
        /\ \A i \in DOMAIN plans : Open(plans'[i]) => Open(plans[i])
    BY <1>1, <1>3, CloseMine
  <1>5. /\ plans \in Seq(Plan) /\ Len(plans) <= MaxPlans
        /\ receipts \subseteq Receipt /\ IsFiniteSet(receipts) /\ loops \subseteq Loop
    BY DEF PipeInv, PipeTypeOK
  <1>6. plans' \in Seq(Plan) /\ Len(plans') = Len(plans) /\ DOMAIN plans' = DOMAIN plans
    BY <1>4, <1>5, MapProperties
  <1>7. OneOpen'
    BY <1>4, <1>6, NothingOpens
  <1>8. receipts' \subseteq Receipt /\ IsFiniteSet(receipts') /\ loops' \subseteq Loop
    BY <1>1, <1>3, <1>5, FS_AddElement
  <1>9. /\ job' \in [Slots -> Job]
        /\ \A w \in Slots : job'[w].pc # "idle" => job'[w].proposal \in Proposal
    BY <1>1, BecomesIdle
  <1>10. plans' \in Seq(Plan) /\ Len(plans') <= MaxPlans
    BY <1>5, <1>6
  <1>11. PipeInv'
    BY <1>1, <1>8, <1>9, <1>10 DEF PipeInv, PipeTypeOK
  <1>12. QED  BY <1>7, <1>11

LEMMA GuardInv ==
  ASSUME PipeInv, OneOpen, GuardClears \/ GuardLocks
  PROVE  PipeInv' /\ OneOpen'
  <1>0. locked \subseteq Protocols /\ loops \subseteq Loop
    BY DEF PipeInv, PipeTypeOK
  <1>1. loops' \subseteq Loop
    <2>1. \A loop \in loops : /\ [loop EXCEPT !.status = "active"] \in Loop
                             /\ [loop EXCEPT !.status = "unwinding"] \in Loop
      BY <1>0, LoopStatus
    <2>2. CASE GuardClears
      BY <1>0, <2>1, <2>2 DEF GuardClears
    <2>3. CASE GuardLocks
      BY <1>0, <2>1, <2>3 DEF GuardLocks
    <2>4. QED  BY <2>2, <2>3
  <1>2. locked' \subseteq Protocols
    <2>1. CASE GuardClears
      BY <2>1 DEF GuardClears
    <2>2. CASE GuardLocks
      <3>1. position \in Snapshot
        BY <2>2 DEF GuardLocks, PipeInv, PipeTypeOK
      <3>2. position.critical \in SUBSET Protocols /\ position.critical # {}
        BY <2>2, <3>1 DEF GuardLocks, Snapshot
      <3>3. position.critical \in SUBSET Nat
        BY <3>2, PipelineAssumption
      <3>4. Min(position.critical) \in Protocols
        BY <3>2, <3>3, MinIsElement
      <3>5. locked' = locked \cup {Min(position.critical)}
        BY <2>2 DEF GuardLocks
      <3>6. QED  BY <1>0, <3>4, <3>5
    <2>3. QED  BY <2>1, <2>2
  <1>3. UNCHANGED <<dryRun, proposals, plans, receipts, market, position, reading, draft, job,
                    chain, stood, aged, landed, counts>>
    BY DEF GuardClears, GuardLocks
  <1>4. PipeInv'
    BY <1>1, <1>2, <1>3 DEF PipeInv, PipeTypeOK
  <1>5. OneOpen'
    BY <1>3 DEF OneOpen, Open
  <1>6. QED  BY <1>4, <1>5

\* Moves of the wallet by others.
LEMMA OthersMoveInv ==
  ASSUME PipeInv, OneOpen, NEW p \in Protocols, NEW asset \in Assets, OthersMove(p, asset)
  PROVE  PipeInv' /\ OneOpen'
  <1>1. counts' \in [runs : Nat, main : Nat, others : Nat, crashes : Nat]
    BY DEF OthersMove, PipeInv, PipeTypeOK
  <1>2. chain \in Holdings /\ stood \in Holdings
    BY DEF PipeInv, PipeTypeOK
  <1>3. chain' \in Holdings /\ stood' \in Holdings
    BY <1>2 DEF OthersMove, Holdings
  <1>4. UNCHANGED <<dryRun, ledgerVars, reading, draft, job, aged, landed>>
    BY DEF OthersMove
  <1>5. PipeInv'
    BY <1>1, <1>3, <1>4 DEF ledgerVars, PipeInv, PipeTypeOK
  <1>6. OneOpen'
    BY <1>4 DEF ledgerVars, OneOpen, Open
  <1>7. QED  BY <1>5, <1>6

\* What others may move.
LEMMA SharedPairs ==
  ASSUME NEW at \in Shared
  PROVE  at[1] \in Protocols /\ at[2] \in Assets
  BY PipelineAssumption

\* The steps that leave the plans alone.
LEMMA OthersKeepPlans ==
  ASSUME RateScout \/ PositionWrite \/ ProposeNext \/ StrategistInsert \/ AgeNext
         \/ (\E unread \in SUBSET Unreliable, critical \in SUBSET Risky :
                PositionRead(unread, critical))
  PROVE  plans' = plans
  BY DEF RateScout, PositionWrite, ProposeNext, StrategistBuild, MainPropose, StrategistInsert,
         AgeNext, Age, PositionRead, ledgerVars

LEMMA NextInv == PipeInv /\ OneOpen /\ [PipeNext]_pipeVars => PipeInv' /\ OneOpen'
  <1> SUFFICES ASSUME PipeInv, OneOpen, [PipeNext]_pipeVars
               PROVE  PipeInv' /\ OneOpen'
    OBVIOUS
  <1>1. CASE RateScout \/ PositionWrite \/ ProposeNext \/ StrategistInsert \/ AgeNext
             \/ (\E unread \in SUBSET Unreliable, critical \in SUBSET Risky :
                    PositionRead(unread, critical))
    <2>1. PipeInv'
      BY <1>1, ObserversInv, ProposersInv
    <2>2. OneOpen'
      BY <1>1, OthersKeepPlans DEF OneOpen, Open
    <2>3. QED  BY <2>1, <2>2
  <1>2. ASSUME NEW s \in Slots, ExecutorNext(s)
        PROVE  PipeInv' /\ OneOpen'
    BY <1>2, ClaimInv, GateInv, SubmitLegInv, RecordDeniedInv, RecordOutcomeInv DEF ExecutorNext
  <1>3. CASE UNCHANGED pipeVars
    BY <1>3 DEF pipeVars, PipeInv, PipeTypeOK, OneOpen, Open
  <1>4. QED
    BY <1>1, <1>2, <1>3, CoordinatorInv, ClaimLapsesInv, CrashInv, GuardInv, OthersMoveInv,
       SharedPairs
    DEF PipeNext

LEMMA InitOneOpen == PipeInit => PipeInv /\ OneOpen
  BY InitPipeInv DEF PipeInit, OneOpen

\* The types of the ledger, of the roles' copies and of the wallet, through any
\* interleaving, crash and lapse.
THEOREM PipeTypeCorrect == PipeSpec => []PipeTypeOK
  <1>1. PipeInv => PipeTypeOK
    BY DEF PipeInv
  <1>2. QED  BY <1>1, InitOneOpen, NextInv, PTL DEF PipeSpec

\* However many executors claim, lapse, crash and answer late, the coordinator
\* never has two plans open at a time (runCoordinator, activeLoopOpeningPlans).
THEOREM OnePlanAtATime == PipeSpec => []OneOpenPlan
  <1>1. ASSUME PipeInv, OneOpen
        PROVE  OneOpenPlan
    <2> DEFINE open == {i \in DOMAIN plans : Open(plans[i])}
    <2>1. open = {} \/ \E i : open = {i}
      BY <1>1 DEF OneOpen
    <2>2. Cardinality(open) \in {0, 1}
      <3> HIDE DEF open
      <3> QED  BY <2>1, FS_EmptySet, FS_Singleton
    <2>3. QED  BY <2>2 DEF OneOpenPlan
  <1>2. QED  BY <1>1, InitOneOpen, NextInv, PTL DEF PipeSpec

-----------------------------------------------------------------------------
(* No leg lands twice.  A proposal is named by the run that made it, so the *)
(* argument needs the main agent's run to make one proposal at most: with   *)
(* two and a full list of proposals, both would bear one name.              *)

Busy(s) == job[s].pc # "idle"

Held(s) == job[s].proposal.id

\* A plan, an executor or a leg bears the id.
Touched(id) ==
    \/ \E i \in DOMAIN plans : plans[i].id = id
    \/ \E s \in Slots : Busy(s) /\ Held(s) = id
    \/ \E leg \in landed : leg.id = id

Started(id) == IF id[1] = MainRun THEN counts.main > 0 ELSE id[1] <= counts.runs

\* An id names one proposal and one plan, and nothing was done under the id of a
\* proposal that is open or still being built.
QueueInv ==
    /\ \A i \in DOMAIN proposals :
          /\ Started(proposals[i].id)
          /\ proposals[i].status = "open" => ~Touched(proposals[i].id)
    /\ \A i, j \in DOMAIN proposals : proposals[i].id = proposals[j].id => i = j

DraftInv ==
    draft # None => /\ Started(draft.id) /\ ~Touched(draft.id)
                    /\ \A i \in DOMAIN proposals : proposals[i].id # draft.id

TouchedInv ==
    /\ \A i \in DOMAIN plans : Started(plans[i].id)
    /\ \A s \in Slots : Busy(s) => Started(Held(s))
    /\ \A leg \in landed : Started(leg.id)

\* The assets an executor may have moved before a step.
Moved(pc) ==
    CASE pc = "borrow" -> {"collateral"}
      [] pc = "resupply" -> {"collateral", "debt"}
      [] pc = "finish" -> Assets
      [] OTHER -> {}

\* In a live run one executor at most holds a plan, nobody one that is only
\* accepted, and what landed for it is behind the executor.
LiveInv ==
    /\ \A i \in DOMAIN plans : plans[i].status = "accepted" =>
          /\ \A s \in Slots : Busy(s) => Held(s) # plans[i].id
          /\ \A leg \in landed : leg.id # plans[i].id
    /\ \A s, t \in Slots : Busy(s) /\ Busy(t) /\ Held(s) = Held(t) => s = t
    /\ \A s \in Slots : \A leg \in landed :
          Busy(s) /\ leg.id = Held(s) => leg.asset \in Moved(job[s].pc)

DryInv == landed = {} /\ \A s \in Slots : job[s].pc \notin {"supply", "borrow", "resupply"}

LegsInv ==
    /\ QueueInv /\ DraftInv /\ TouchedInv /\ DecidedOnce
    /\ dryRun => DryInv
    /\ ~dryRun => LiveInv
    /\ NoDuplicateLegs

LEMMA InitLegsInv == PipeInit => LegsInv
  BY DEF PipeInit, LegsInv, QueueInv, DraftInv, TouchedInv, DecidedOnce, DryInv, LiveInv,
         NoDuplicateLegs, Idle, Busy

\* Steps that neither propose, nor decide, nor claim, nor move assets.
LEMMA QuietSteps ==
  ASSUME LegsInv,
         UNCHANGED <<dryRun, proposals, plans, draft, job, landed, counts>>
  PROVE  LegsInv'
  BY DEF LegsInv, QueueInv, DraftInv, TouchedInv, DecidedOnce, DryInv, LiveInv,
         NoDuplicateLegs, Busy, Held, Touched, Started

\* Steps that rewrite plans in place, or take an executor one step on without a
\* new leg.
LEMMA InPlaceSteps ==
  ASSUME LegsInv,
         UNCHANGED <<dryRun, proposals, draft, landed, counts>>,
         DOMAIN plans' = DOMAIN plans,
         \A i \in DOMAIN plans :
            /\ plans'[i].id = plans[i].id
            /\ plans'[i].status = "accepted" => plans[i].status = "accepted",
         \A s \in Slots : job'[s].pc # "idle" =>
            /\ Busy(s)
            /\ job'[s].proposal = job[s].proposal
            /\ Moved(job[s].pc) \subseteq Moved(job'[s].pc)
            /\ dryRun => job'[s].pc \notin {"supply", "borrow", "resupply"}
  PROVE  LegsInv'
  <1>1. \A id : Touched(id)' => Touched(id)
    BY DEF Touched, Busy, Held
  <1>2. \A id : Started(id)' <=> Started(id)
    BY DEF Started
  <1>3. QueueInv' /\ DraftInv'
    BY <1>1, <1>2 DEF LegsInv, QueueInv, DraftInv
  <1>4. TouchedInv'
    BY <1>2 DEF LegsInv, TouchedInv, Busy, Held
  <1>5. DecidedOnce'
    BY DEF LegsInv, DecidedOnce
  <1>6. ASSUME dryRun' PROVE DryInv'
    BY <1>6 DEF LegsInv, DryInv, Busy
  <1>7. ASSUME ~dryRun' PROVE LiveInv'
    BY <1>7 DEF LegsInv, LiveInv, Busy, Held
  <1>8. NoDuplicateLegs'
    BY DEF LegsInv, NoDuplicateLegs
  <1>9. QED  BY <1>3, <1>4, <1>5, <1>6, <1>7, <1>8 DEF LegsInv

LEMMA ProposalStatusFields ==
  ASSUME NEW p \in Proposal, NEW st \in {"open", "accepted", "rejected", "expired"}
  PROVE  /\ [p EXCEPT !.status = st].id = p.id
         /\ [p EXCEPT !.status = st].shape = p.shape
         /\ [p EXCEPT !.status = st].status = st
  BY DEF Proposal

\* The inserted proposal comes first, the others follow in their order.
LEMMA InsertShape ==
  ASSUME PipeInv, NEW p \in Proposal, Insert(p)
  PROVE  /\ DOMAIN proposals' \subseteq 1..(Len(proposals) + 1)
         /\ \A i \in DOMAIN proposals' :
               \/ i = 1 /\ proposals'[i].id = p.id /\ proposals'[i].shape = p.shape
               \/ /\ i - 1 \in DOMAIN proposals
                  /\ proposals'[i] = proposals[i - 1]
  <1> DEFINE verdict == IF ValidLoopProposal(p, plans, loops, locked) THEN "open" ELSE "rejected"
             q == [p EXCEPT !.status = verdict]
             pushed == <<q>> \o proposals
  <1>1. proposals \in Seq(Proposal) /\ MaxProposals \in Nat
    BY PipelineAssumption DEF PipeInv, PipeTypeOK
  <1>2. q \in Proposal /\ q.id = p.id /\ q.shape = p.shape
    <2>1. verdict \in {"open", "accepted", "rejected", "expired"}
      OBVIOUS
    <2> HIDE DEF verdict
    <2>2. QED  BY <2>1, ProposalStatus, ProposalStatusFields
  <1>3. proposals' = Keep(pushed, MaxProposals)
    BY DEF Insert
  <1> HIDE DEF q
  <1>4. /\ pushed \in Seq(Proposal) /\ Len(pushed) = Len(proposals) + 1 /\ pushed[1] = q
        /\ \A i \in 2..(Len(proposals) + 1) : pushed[i] = proposals[i - 1]
    BY <1>1, <1>2, PushProperties
  <1> HIDE DEF pushed
  <1>5. /\ proposals' \in Seq(Proposal) /\ Len(proposals') <= Len(proposals) + 1
        /\ \A i \in 1..Len(proposals') : proposals'[i] = pushed[i]
    BY <1>1, <1>3, <1>4, KeepProperties
  <1>6. /\ Len(proposals) \in Nat /\ DOMAIN proposals = 1..Len(proposals)
        /\ Len(proposals') \in Nat /\ DOMAIN proposals' = 1..Len(proposals')
    BY <1>1, <1>5, LenProperties
  <1>7. ASSUME NEW i \in DOMAIN proposals'
        PROVE  \/ i = 1 /\ proposals'[i].id = p.id /\ proposals'[i].shape = p.shape
               \/ i - 1 \in DOMAIN proposals /\ proposals'[i] = proposals[i - 1]
    <2>1. CASE i = 1
      BY <1>2, <1>4, <1>5, <1>6, <2>1
    <2>2. CASE i # 1
      <3>1. i \in 2..(Len(proposals) + 1) /\ i - 1 \in DOMAIN proposals
        BY <1>5, <1>6, <2>2
      <3>2. QED  BY <1>4, <1>5, <1>6, <3>1
    <2>3. QED  BY <2>1, <2>2
  <1>8. QED  BY <1>5, <1>6, <1>7

\* A proposal under a new id keeps the queue in order.
LEMMA InsertQueue ==
  ASSUME PipeInv, LegsInv, NEW p \in Proposal, Insert(p),
         ~Touched(p.id), \A i \in DOMAIN proposals : proposals[i].id # p.id,
         UNCHANGED <<plans, job, landed>>,
         Started(p.id)', \A id : Started(id) => Started(id)'
  PROVE  QueueInv'
  <1>1. \A id : Touched(id)' <=> Touched(id)
    BY DEF Touched, Busy, Held
  <1>2. \A i \in DOMAIN proposals' : \A id : id = proposals'[i].id =>
           /\ Started(id)'
           /\ proposals'[i].status = "open" => ~Touched(id)
    BY InsertShape DEF LegsInv, QueueInv
  <1>3. 0 \notin DOMAIN proposals
    BY LenProperties DEF PipeInv, PipeTypeOK
  <1>4. \A i \in DOMAIN proposals' :
           /\ i \in Int
           /\ i = 1 => proposals'[i].id = p.id
           /\ i # 1 => /\ i - 1 \in DOMAIN proposals /\ proposals'[i].id = proposals[i - 1].id
                       /\ proposals'[i].id # p.id
    <2>1. Len(proposals) \in Nat
      BY LenProperties DEF PipeInv, PipeTypeOK
    <2>2. ASSUME NEW i \in DOMAIN proposals'
          PROVE  /\ i \in Int
                 /\ \/ i = 1 /\ proposals'[i].id = p.id
                    \/ i - 1 \in DOMAIN proposals /\ proposals'[i] = proposals[i - 1]
      BY <2>1, InsertShape
    <2>3. ASSUME NEW i \in DOMAIN proposals', i = 1
          PROVE  proposals'[i].id = p.id
      <3>1. i - 1 = 0
        BY <2>3
      <3>2. QED  BY <1>3, <2>2, <3>1
    <2>4. QED  BY <2>2, <2>3
  <1>5. ASSUME NEW i \in DOMAIN proposals', NEW j \in DOMAIN proposals',
               proposals'[i].id = proposals'[j].id
        PROVE  i = j
    <2>1. CASE i = 1 \/ j = 1
      BY <1>4, <1>5, <2>1
    <2>2. CASE i # 1 /\ j # 1
      <3>1. i - 1 = j - 1
        BY <1>4, <1>5, <2>2 DEF LegsInv, QueueInv
      <3>2. QED  BY <1>4, <3>1
    <2>3. QED  BY <2>1, <2>2
  <1>6. QED  BY <1>1, <1>2, <1>5 DEF QueueInv

LEMMA StrategistBuildLegs ==
  ASSUME PipeInv, LegsInv, NEW shape \in Shapes, StrategistBuild(shape)
  PROVE  LegsInv'
  <1>1. /\ draft = None
        /\ draft'.id = <<counts.runs + 1, Len(proposals)>>
        /\ counts'.runs = counts.runs + 1 /\ counts'.main = counts.main
        /\ counts.runs \in Nat /\ counts.main \in Nat
        /\ UNCHANGED <<dryRun, proposals, plans, job, landed>>
    BY DEF StrategistBuild, Build, ledgerVars, PipeInv, PipeTypeOK
  <1>2. draft'.id[1] = counts.runs + 1 /\ counts.runs + 1 # MainRun
    BY <1>1, PipelineAssumption
  <1>3. \A id : Touched(id)' <=> Touched(id)
    BY <1>1 DEF Touched, Busy, Held
  <1>4. /\ \A i \in DOMAIN proposals : proposals[i].id \in ProposalId
        /\ \A i \in DOMAIN plans : plans[i].id \in ProposalId
        /\ \A s \in Slots : Busy(s) => Held(s) \in ProposalId
        /\ \A leg \in landed : leg.id \in ProposalId
    <2>1. \A i \in DOMAIN proposals : proposals[i] \in Proposal
      BY Indices DEF PipeInv, PipeTypeOK
    <2>2. landed \subseteq Leg
      BY DEF PipeInv, PipeTypeOK
    <2>3. QED  BY <2>1, <2>2, JobFacts DEF Proposal, Plan, Leg, Busy, Held
  <1>5. \A id \in ProposalId : Started(id) => Started(id)'
    <2>1. ASSUME NEW id \in ProposalId, Started(id), id[1] # MainRun
          PROVE  id[1] \in Nat /\ id[1] <= counts.runs + 1
      BY <1>1, <2>1 DEF ProposalId, Runs, Started
    <2>2. QED  BY <1>1, <2>1 DEF Started
  <1>6. Started(draft.id)'
    BY <1>1, <1>2 DEF Started
  <1>7. ASSUME NEW id \in ProposalId, Started(id)
        PROVE  id # draft'.id
    BY <1>1, <1>2, <1>7 DEF Started
  <1>8. ~Touched(draft'.id) /\ \A i \in DOMAIN proposals : proposals[i].id # draft'.id
    BY <1>4, <1>7 DEF LegsInv, QueueInv, TouchedInv, Touched
  <1>9. QueueInv' /\ TouchedInv'
    BY <1>1, <1>3, <1>4, <1>5 DEF LegsInv, QueueInv, TouchedInv, Busy, Held
  <1>10. DraftInv'
    BY <1>1, <1>3, <1>6, <1>8 DEF DraftInv
  <1>11. DecidedOnce' /\ NoDuplicateLegs' /\ (dryRun' => DryInv') /\ (~dryRun' => LiveInv')
    BY <1>1 DEF LegsInv, DecidedOnce, NoDuplicateLegs, DryInv, LiveInv, Busy, Held
  <1>12. QED  BY <1>9, <1>10, <1>11 DEF LegsInv

LEMMA StrategistInsertLegs ==
  ASSUME PipeInv, LegsInv, StrategistInsert
  PROVE  LegsInv'
  <1>1. draft \in Proposal /\ Insert(draft) /\ draft # None /\ draft' = None
        /\ UNCHANGED <<dryRun, plans, job, landed, counts>>
    BY DEF StrategistInsert, PipeInv, PipeTypeOK
  <1>2. \A id : Started(id)' <=> Started(id)
    BY <1>1 DEF Started
  <1>3. Started(draft.id) /\ ~Touched(draft.id) /\ \A i \in DOMAIN proposals : proposals[i].id # draft.id
    BY <1>1 DEF LegsInv, DraftInv
  <1>4. QueueInv'
    <2>1. ASSUME NEW p \in Proposal, p = draft
          PROVE  QueueInv'
      <3>1. Started(p.id)'
        BY <1>1, <1>3, <2>1 DEF Started
      <3>2. QED  BY <1>1, <1>2, <1>3, <2>1, <3>1, InsertQueue
    <2>2. QED  BY <1>1, <2>1
  <1>5. DraftInv'
    BY <1>1 DEF DraftInv
  <1>6. TouchedInv' /\ DecidedOnce' /\ NoDuplicateLegs' /\ (dryRun' => DryInv') /\ (~dryRun' => LiveInv')
    BY <1>1, <1>2 DEF LegsInv, TouchedInv, DecidedOnce, NoDuplicateLegs, DryInv, LiveInv, Busy, Held
  <1>7. QED  BY <1>4, <1>5, <1>6 DEF LegsInv

LEMMA MainProposeLegs ==
  ASSUME MaxMain <= 1, PipeInv, LegsInv, NEW shape \in Shapes, MainPropose(shape)
  PROVE  LegsInv'
  <1> DEFINE p == Build(MainRun, Len(proposals), shape)
  <1>1. /\ counts.main < MaxMain
        /\ counts'.main = counts.main + 1 /\ counts'.runs = counts.runs
        /\ counts.main \in Nat /\ counts.runs \in Nat
        /\ Insert(p)
        /\ UNCHANGED <<dryRun, plans, draft, job, landed>>
    BY DEF MainPropose, PipeInv, PipeTypeOK
  <1>2. p \in Proposal /\ p.id[1] = MainRun
    BY BuildType DEF Runs, Build
  <1> HIDE DEF p
  <1>3. \A id : Started(id) => id[1] # MainRun /\ Started(id)'
    BY <1>1, PipelineAssumption DEF Started
  <1>4. ~Started(p.id)
    BY <1>2, <1>3
  <1>5. ~Touched(p.id) /\ \A i \in DOMAIN proposals : proposals[i].id # p.id
    BY <1>4 DEF LegsInv, QueueInv, TouchedInv, Touched
  <1>6. \A id : id[1] = MainRun => Started(id)'
    BY <1>1 DEF Started
  <1>7. \A id : Touched(id)' <=> Touched(id)
    BY <1>1 DEF Touched, Busy, Held
  <1>8. QueueInv'
    <2>1. ASSUME NEW q \in Proposal, q = p
          PROVE  QueueInv'
      <3>1. Started(q.id)'
        BY <1>2, <1>6, <2>1
      <3>2. QED  BY <1>1, <1>3, <1>5, <2>1, <3>1, InsertQueue
    <2>2. QED  BY <1>2, <2>1
  <1>9. DraftInv'
    <2>1. ASSUME draft' # None
          PROVE  /\ \E id : id = draft'.id /\ Started(id)' /\ ~Touched(id)'
                 /\ \A i \in DOMAIN proposals' : proposals'[i].id # draft'.id
      <3>1. /\ Started(draft.id) /\ ~Touched(draft.id)
            /\ \A i \in DOMAIN proposals : proposals[i].id # draft.id
        BY <1>1, <2>1 DEF LegsInv, DraftInv
      <3>2. p.id # draft.id
        BY <1>4, <3>1
      <3>3. \A i \in DOMAIN proposals' : proposals'[i].id # draft.id
        BY <1>1, <1>2, <3>1, <3>2, InsertShape
      <3>4. QED  BY <1>1, <1>3, <1>7, <3>1, <3>3
    <2>2. QED  BY <2>1 DEF DraftInv
  <1>10. TouchedInv' /\ DecidedOnce' /\ NoDuplicateLegs' /\ (dryRun' => DryInv') /\ (~dryRun' => LiveInv')
    BY <1>1, <1>3 DEF LegsInv, TouchedInv, DecidedOnce, NoDuplicateLegs, DryInv, LiveInv, Busy, Held
  <1>11. QED  BY <1>8, <1>9, <1>10 DEF LegsInv

\* What expiry and reconciliation leave of the queue and the plans.
LEMMA ExpiredKeepsIds ==
  ASSUME PipeInv, NEW i \in DOMAIN proposals
  PROVE  /\ Expired[i].id = proposals[i].id /\ Expired[i].shape = proposals[i].shape
         /\ Expired[i].status = "open" => proposals[i].status = "open"
  <1>1. proposals[i] \in Proposal
    BY Indices DEF PipeInv, PipeTypeOK
  <1> DEFINE expired == [proposals[i] EXCEPT !.status = "expired"]
  <1>2. expired.id = proposals[i].id /\ expired.shape = proposals[i].shape
        /\ expired.status = "expired"
    BY <1>1, ProposalStatusFields
  <1>3. Expired[i] = expired \/ Expired[i] = proposals[i]
    BY DEF Expired
  <1> HIDE DEF expired
  <1>4. QED  BY <1>2, <1>3

LEMMA PlanStatusFields ==
  ASSUME NEW p \in Plan, NEW st \in {"accepted", "executing", "executed", "failed", "cancelled"}
  PROVE  /\ [p EXCEPT !.status = st].id = p.id
         /\ [p EXCEPT !.status = st].run = p.run
         /\ [p EXCEPT !.status = st].status = st
  BY DEF Plan

LEMMA ReconciledKeepsIds ==
  ASSUME PipeInv, NEW i \in DOMAIN plans
  PROVE  /\ Reconciled[i].id = plans[i].id
         /\ Reconciled[i].status = "accepted" => plans[i].status = "accepted"
  <1> DEFINE executed == [plans[i] EXCEPT !.status = "executed"]
             cancelled == [plans[i] EXCEPT !.status = "cancelled"]
  <1>1. /\ executed.id = plans[i].id /\ executed.status = "executed"
        /\ cancelled.id = plans[i].id /\ cancelled.status = "cancelled"
    BY JobFacts, PlanStatusFields
  <1>2. Reconciled[i] \in {executed, cancelled, plans[i]}
    <2>1. CASE Lapsed(plans[i]) /\ FoundOnChain(plans[i])
      BY <2>1 DEF Reconciled
    <2>2. CASE Lapsed(plans[i]) /\ ~FoundOnChain(plans[i])
      BY <2>2 DEF Reconciled
    <2>3. CASE ~Lapsed(plans[i])
      BY <2>3 DEF Reconciled
    <2>4. QED  BY <2>1, <2>2, <2>3
  <1> HIDE DEF executed, cancelled
  <1>3. QED  BY <1>1, <1>2

\* The coordinator decides at most the proposal at index first, and a plan it
\* accepts comes first.
Decides(first) ==
    /\ first \in DOMAIN proposals
    /\ proposals[first].status = "open" /\ proposals'[first].status # "open"
    /\ proposals[first].shape.sound
    /\ \A i \in DOMAIN plans' :
          /\ i \in Int
          /\ i = 1 => plans'[i].id = proposals[first].id
          /\ i # 1 => i - 1 \in DOMAIN plans /\ plans'[i] = Reconciled[i - 1]

LEMMA CoordinatorEffect ==
  ASSUME PipeInv, Coordinator
  PROVE  /\ UNCHANGED <<dryRun, draft, job, landed, counts>>
         /\ DOMAIN proposals' = DOMAIN proposals
         /\ \A i \in DOMAIN proposals :
               /\ proposals'[i].id = proposals[i].id
               /\ proposals'[i].shape = proposals[i].shape
               /\ proposals'[i].status = "open" => proposals[i].status = "open"
         /\ plans' = Reconciled \/ \E first \in DOMAIN proposals : Decides(first)
  <1> DEFINE candidates == {i \in DOMAIN Expired : Expired[i].status = "open"}
             first == Min(candidates)
             chosen == Expired[first]
             plan == [id |-> chosen.id, status |-> "accepted", lapsed |-> FALSE, run |-> None]
             decide == OpenPlans(Reconciled) = {} /\ candidates # {}
             accept == ValidLoopProposal(chosen, Reconciled, ReconciledLoops, locked)
  <1>1. /\ UNCHANGED <<dryRun, draft, job, landed, counts>>
        /\ \/ ~decide /\ proposals' = Expired /\ plans' = Reconciled
           \/ /\ decide /\ accept
              /\ proposals' = [Expired EXCEPT ![first].status = "accepted"]
              /\ plans' = Keep(<<plan>> \o Reconciled, MaxPlans)
           \/ /\ decide /\ ~accept
              /\ proposals' = [Expired EXCEPT ![first].status = "rejected"]
              /\ plans' = Reconciled
    BY Zenon DEF Coordinator
  <1>2. /\ Expired \in Seq(Proposal) /\ DOMAIN Expired = DOMAIN proposals
        /\ DOMAIN proposals \in SUBSET Nat
        /\ \A i \in DOMAIN Expired : Expired[i] \in Proposal
    BY ExpiredType, Indices, LenProperties DEF PipeInv, PipeTypeOK
  <1>3. ASSUME decide
        PROVE  first \in DOMAIN proposals /\ chosen \in Proposal /\ chosen.status = "open"
               /\ chosen.id = proposals[first].id /\ chosen.shape = proposals[first].shape
               /\ proposals[first].status = "open"
    <2>1. candidates \in SUBSET Nat /\ candidates # {}
      BY <1>2, <1>3
    <2>2. first \in candidates
      <3> HIDE DEF candidates
      <3> QED  BY <2>1, MinIsElement
    <2>3. first \in DOMAIN proposals /\ chosen.status = "open"
      BY <1>2, <2>2
    <2> HIDE DEF first
    <2>4. QED  BY <1>2, <2>3, ExpiredKeepsIds
  <1>4. /\ DOMAIN proposals' = DOMAIN proposals
        /\ \A i \in DOMAIN proposals :
              proposals'[i].id = proposals[i].id /\ proposals'[i].shape = proposals[i].shape
        /\ \A i \in DOMAIN proposals :
              proposals'[i].status = "open" => /\ proposals[i].status = "open"
                                               /\ decide => i # first
    <2>1. CASE ~decide
      BY <1>1, <1>2, <2>1, ExpiredKeepsIds
    <2>2. ASSUME decide, NEW st \in {"accepted", "rejected"},
                 proposals' = [Expired EXCEPT ![first].status = st]
          PROVE  <1>4!1 /\ <1>4!2 /\ <1>4!3
      <3> DEFINE decided == [chosen EXCEPT !.status = st]
      <3>1. decided.id = chosen.id /\ decided.shape = chosen.shape /\ decided.status = st
        <4>1. chosen \in Proposal /\ st \in {"open", "accepted", "rejected", "expired"}
          BY <1>3, <2>2
        <4> HIDE DEF chosen
        <4>2. QED  BY <4>1, ProposalStatusFields
      <3>2. proposals' = [Expired EXCEPT ![first] = decided]
        BY <2>2
      <3>3. first \in DOMAIN proposals /\ chosen.id = proposals[first].id
            /\ chosen.shape = proposals[first].shape /\ proposals[first].status = "open"
        BY <1>3, <2>2
      <3> HIDE DEF decided, chosen, first, decide
      <3>4. Expired = [i \in DOMAIN proposals |-> Expired[i]]
        BY DEF Expired
      <3>5. /\ DOMAIN proposals' = DOMAIN proposals /\ proposals'[first] = decided
            /\ \A i \in DOMAIN proposals : i # first => proposals'[i] = Expired[i]
        BY <3>2, <3>3, <3>4
      <3>6. QED  BY <2>2, <3>1, <3>3, <3>5, ExpiredKeepsIds
    <2> HIDE DEF first, chosen, plan, accept
    <2>3. QED  BY <1>1, <2>1, <2>2
  <1>5. ASSUME decide, accept, plans' = Keep(<<plan>> \o Reconciled, MaxPlans)
        PROVE  \E k \in DOMAIN proposals : Decides(k)
    <2> DEFINE pushed == <<plan>> \o Reconciled
    <2>1. /\ first \in DOMAIN proposals /\ chosen \in Proposal
          /\ chosen.id = proposals[first].id /\ chosen.shape = proposals[first].shape
          /\ proposals[first].status = "open"
      BY <1>3, <1>5
    <2>2. chosen.shape.sound
      BY <1>5 DEF ValidLoopProposal, Valid
    <2>3. proposals'[first].status # "open"
      BY <1>4, <1>5, <2>1
    <2> HIDE DEF chosen, decide, accept, first
    <2>4. plan \in Plan /\ plan.id = proposals[first].id
      BY <2>1 DEF Plan, Proposal
    <2> HIDE DEF plan
    <2>5. /\ Reconciled \in Seq(Plan) /\ DOMAIN Reconciled = DOMAIN plans
          /\ Len(Reconciled) \in Nat /\ DOMAIN Reconciled = 1..Len(Reconciled)
          /\ MaxPlans \in Nat
      BY PipelineAssumption, ReconciledType, LenProperties
    <2>6. /\ pushed \in Seq(Plan) /\ Len(pushed) = Len(Reconciled) + 1 /\ pushed[1] = plan
          /\ \A i \in 2..(Len(Reconciled) + 1) : pushed[i] = Reconciled[i - 1]
      BY <2>4, <2>5, PushProperties
    <2> HIDE DEF pushed
    <2>7. plans' = Keep(pushed, MaxPlans)
      BY <1>5 DEF pushed
    <2>8. /\ plans' \in Seq(Plan) /\ Len(plans') <= Len(Reconciled) + 1
          /\ \A i \in 1..Len(plans') : plans'[i] = pushed[i]
      BY <2>5, <2>6, <2>7, KeepProperties
    <2>9. DOMAIN plans' = 1..Len(plans') /\ Len(plans') \in Nat
      BY <2>8, LenProperties
    <2>10. ASSUME NEW i \in DOMAIN plans'
           PROVE  /\ i \in Int
                  /\ i = 1 => plans'[i].id = proposals[first].id
                  /\ i # 1 => i - 1 \in DOMAIN plans /\ plans'[i] = Reconciled[i - 1]
      <3>1. CASE i = 1
        BY <2>4, <2>6, <2>8, <2>9, <3>1
      <3>2. CASE i # 1
        <4>1. i \in 2..(Len(Reconciled) + 1) /\ i - 1 \in DOMAIN plans /\ i \in Int
          BY <2>5, <2>8, <2>9, <3>2
        <4>2. QED  BY <2>6, <2>8, <2>9, <3>2, <4>1
      <3>3. QED  BY <3>1, <3>2
    <2>11. Decides(first)
      BY <2>1, <2>2, <2>3, <2>10 DEF Decides
    <2>12. QED  BY <2>1, <2>11
  <1> HIDE DEF decide, accept, plan, first
  <1>6. plans' = Reconciled \/ \E k \in DOMAIN proposals : Decides(k)
    BY <1>1, <1>5
  <1>7. QED  BY <1>1, <1>4, <1>6

LEMMA CoordinatorLegs ==
  ASSUME PipeInv, LegsInv, Coordinator
  PROVE  LegsInv'
  <1>1. /\ UNCHANGED <<dryRun, draft, job, landed, counts>>
        /\ DOMAIN proposals' = DOMAIN proposals
        /\ \A i \in DOMAIN proposals :
              /\ proposals'[i].id = proposals[i].id
              /\ proposals'[i].status = "open" => proposals[i].status = "open"
    BY CoordinatorEffect
  <1>2. \A id : Started(id)' <=> Started(id)
    BY <1>1 DEF Started
  <1>3. DOMAIN Reconciled = DOMAIN plans
    BY ReconciledType
  <1>4. CASE plans' = Reconciled
    <2>1. /\ DOMAIN plans' = DOMAIN plans
          /\ \A i \in DOMAIN plans :
                /\ plans'[i].id = plans[i].id
                /\ plans'[i].status = "accepted" => plans[i].status = "accepted"
      BY <1>3, <1>4, ReconciledKeepsIds
    <2>2. \A id : Touched(id)' <=> Touched(id)
      BY <1>1, <2>1 DEF Touched, Busy, Held
    <2>3. QueueInv' /\ DraftInv'
      BY <1>1, <1>2, <2>2 DEF LegsInv, QueueInv, DraftInv
    <2>4. TouchedInv' /\ DecidedOnce'
      BY <1>1, <1>2, <2>1 DEF LegsInv, TouchedInv, DecidedOnce, Busy, Held
    <2>5. NoDuplicateLegs' /\ (dryRun' => DryInv') /\ (~dryRun' => LiveInv')
      BY <1>1, <2>1 DEF LegsInv, NoDuplicateLegs, DryInv, LiveInv, Busy, Held
    <2>6. QED  BY <2>3, <2>4, <2>5 DEF LegsInv
  <1>5. ASSUME NEW first \in DOMAIN proposals, Decides(first)
        PROVE  LegsInv'
    <2> DEFINE new == proposals[first].id
    <2>1. first \in DOMAIN proposals /\ ~Touched(new) /\ Started(new)
      BY <1>5 DEF Decides, LegsInv, QueueInv
    <2>2. ASSUME NEW i \in DOMAIN plans'
          PROVE  /\ i \in Int
                 /\ i = 1 => plans'[i].id = new
                 /\ i # 1 => /\ i - 1 \in DOMAIN plans
                             /\ plans'[i].id = plans[i - 1].id
                             /\ plans'[i].id # new
                             /\ plans'[i].status = "accepted" => plans[i - 1].status = "accepted"
      <3>1. CASE i = 1
        BY <1>5, <3>1 DEF Decides
      <3>2. CASE i # 1
        <4>1. i \in Int /\ i - 1 \in DOMAIN plans /\ plans'[i] = Reconciled[i - 1]
          BY <1>5, <3>2 DEF Decides
        <4>2. plans[i - 1].id # new
          BY <2>1, <4>1 DEF Touched
        <4>3. QED  BY <3>2, <4>1, <4>2, ReconciledKeepsIds
      <3>3. QED  BY <3>1, <3>2
    <2> HIDE DEF new
    <2>3. \A id : Touched(id)' => Touched(id) \/ id = new
      BY <1>1, <2>2 DEF Touched, Busy, Held
    <2>4. QueueInv'
      <3>1. ASSUME NEW i \in DOMAIN proposals', proposals'[i].status = "open", NEW id,
                   id = proposals'[i].id
            PROVE  ~Touched(id)'
        <4>1. i # first /\ proposals[i].status = "open" /\ id = proposals[i].id
              /\ i \in DOMAIN proposals
          BY <1>1, <1>5, <3>1 DEF Decides
        <4>2. id # new /\ ~Touched(id)
          BY <2>1, <4>1 DEF LegsInv, QueueInv, new
        <4>3. QED  BY <2>3, <4>2
      <3>2. QED  BY <1>1, <1>2, <3>1 DEF LegsInv, QueueInv
    <2>5. DraftInv'
      <3>1. draft # None => draft.id # new
        BY <2>1 DEF LegsInv, DraftInv, new
      <3>2. QED  BY <1>1, <1>1, <1>2, <2>3, <3>1 DEF LegsInv, DraftInv
    <2>6. TouchedInv'
      BY <1>1, <1>2, <2>1, <2>2 DEF LegsInv, TouchedInv, Busy, Held
    <2>7. DecidedOnce'
      <3>1. ASSUME NEW i \in DOMAIN plans', NEW j \in DOMAIN plans',
                   plans'[i].id = plans'[j].id
            PROVE  i = j
        <4>1. CASE i = 1 \/ j = 1
          BY <2>2, <3>1, <4>1
        <4>2. CASE i # 1 /\ j # 1
          <5>1. i - 1 = j - 1
            BY <2>2, <3>1, <4>2 DEF LegsInv, DecidedOnce
          <5>2. QED  BY <2>2, <5>1
        <4>3. QED  BY <4>1, <4>2
      <3>2. QED  BY <3>1 DEF DecidedOnce
    <2>8. NoDuplicateLegs' /\ (dryRun' => DryInv')
      BY <1>1 DEF LegsInv, NoDuplicateLegs, DryInv
    <2>9. ASSUME ~dryRun' PROVE LiveInv'
      <3>1. LiveInv
        BY <1>1, <2>9 DEF LegsInv
      <3>2. ASSUME NEW i \in DOMAIN plans', plans'[i].status = "accepted"
            PROVE  /\ \A s \in Slots : Busy(s) => Held(s) # plans'[i].id
                   /\ \A leg \in landed : leg.id # plans'[i].id
        <4>1. CASE i = 1
          BY <2>1, <2>2, <4>1 DEF Touched
        <4>2. CASE i # 1
          BY <2>2, <3>1, <3>2, <4>2 DEF LiveInv
        <4>3. QED  BY <4>1, <4>2
      <3>3. QED  BY <1>1, <3>1, <3>2 DEF LiveInv, Busy, Held
    <2>10. QED  BY <2>4, <2>5, <2>6, <2>7, <2>8, <2>9 DEF LegsInv
  <1>6. QED  BY <1>4, <1>5, CoordinatorEffect

LEMMA ProposalOfId ==
  ASSUME PipeInv, NEW plan, HasProposal(plan)
  PROVE  ProposalOf(plan).id = plan.id
  <1>1. DOMAIN proposals \in SUBSET Nat
    BY Indices DEF PipeInv, PipeTypeOK
  <1> DEFINE S == {i \in DOMAIN proposals : proposals[i].id = plan.id}
  <1>2. S \in SUBSET Nat /\ S # {}
    BY <1>1 DEF HasProposal
  <1>3. Min(S) \in S
    <2> HIDE DEF S
    <2> QED  BY <1>2, MinIsElement
  <1>4. QED  BY <1>3 DEF ProposalOf

LEMMA ClaimLapsesLegs ==
  ASSUME PipeInv, LegsInv, NEW i \in DOMAIN plans, ClaimLapses(i)
  PROVE  LegsInv'
  <1> DEFINE lapsed == [plans[i] EXCEPT !.lapsed = TRUE]
  <1>1. plans[i] \in Plan
    BY JobFacts
  <1>2. lapsed.id = plans[i].id /\ lapsed.status = plans[i].status
    BY <1>1 DEF Plan
  <1>3. plans' = [plans EXCEPT ![i] = lapsed]
        /\ UNCHANGED <<dryRun, proposals, draft, job, landed, counts>>
    BY DEF ClaimLapses
  <1> HIDE DEF lapsed
  <1>4. /\ DOMAIN plans' = DOMAIN plans
        /\ \A k \in DOMAIN plans :
              /\ plans'[k].id = plans[k].id
              /\ plans'[k].status = "accepted" => plans[k].status = "accepted"
    BY <1>2, <1>3, JobFacts
  <1>5. \A s \in Slots : job'[s].pc # "idle" =>
            /\ Busy(s)
            /\ job'[s].proposal = job[s].proposal
            /\ Moved(job[s].pc) \subseteq Moved(job'[s].pc)
            /\ dryRun => job'[s].pc \notin {"supply", "borrow", "resupply"}
    BY <1>3 DEF Busy, LegsInv, DryInv
  <1>6. QED  BY <1>3, <1>4, <1>5, InPlaceSteps

LEMMA ClaimLegs ==
  ASSUME PipeInv, LegsInv, NEW s \in Slots, NEW i \in DOMAIN plans, Claim(s, i)
  PROVE  LegsInv'
  <1>1. /\ UNCHANGED <<dryRun, proposals, draft, landed, counts>>
        /\ job[s].pc = "idle" /\ Claimable(plans[i])
    BY DEF Claim, Candidate
  <1>2. CASE ~HasProposal(plans[i])
    <2> DEFINE failed == [plans[i] EXCEPT !.status = "failed"]
    <2>1. failed.id = plans[i].id /\ failed.status = "failed"
      BY JobFacts, PlanStatusFields
    <2>2. plans' = [plans EXCEPT ![i] = failed] /\ job' = job
      BY <1>2 DEF Claim
    <2> HIDE DEF failed
    <2>3. /\ DOMAIN plans' = DOMAIN plans
          /\ \A k \in DOMAIN plans :
                /\ plans'[k].id = plans[k].id
                /\ plans'[k].status = "accepted" => plans[k].status = "accepted"
      BY <2>1, <2>2, JobFacts
    <2>4. \A w \in Slots : job'[w].pc # "idle" =>
              /\ Busy(w)
              /\ job'[w].proposal = job[w].proposal
              /\ Moved(job[w].pc) \subseteq Moved(job'[w].pc)
              /\ dryRun => job'[w].pc \notin {"supply", "borrow", "resupply"}
      BY <2>2 DEF Busy, LegsInv, DryInv
    <2>5. QED  BY <1>1, <2>3, <2>4, InPlaceSteps
  <1>3. CASE HasProposal(plans[i])
    <2> DEFINE mine == [id |-> plans[i].id, status |-> "executing", lapsed |-> FALSE,
                        run |-> RunOf[s]]
               held == [pc |-> "claimed", failed |-> FALSE, proposal |-> ProposalOf(plans[i])]
    <2>1. /\ mine.id = plans[i].id /\ mine.status = "executing"
          /\ held.pc = "claimed" /\ held.proposal.id = plans[i].id
      BY <1>3, ProposalOfId
    <2>2. plans' = [plans EXCEPT ![i] = mine] /\ job' = [job EXCEPT ![s] = held]
      BY <1>3 DEF Claim
    <2> HIDE DEF mine, held
    <2>3. /\ DOMAIN plans' = DOMAIN plans
          /\ \A k \in DOMAIN plans :
                /\ plans'[k].id = plans[k].id
                /\ plans'[k].status = "accepted" => plans[k].status = "accepted" /\ k # i
      BY <2>1, <2>2, JobFacts
    <2>4. /\ job'[s].pc = "claimed" /\ job'[s].proposal.id = plans[i].id
          /\ \A w \in Slots : w # s => job'[w] = job[w]
      BY <2>1, <2>2, JobFacts
    <2>5. \A id : Touched(id)' => Touched(id)
      BY <1>1, <2>3, <2>4 DEF Touched, Busy, Held
    <2>6. \A id : Started(id)' <=> Started(id)
      BY <1>1 DEF Started
    <2>7. QueueInv' /\ DraftInv'
      BY <1>1, <2>5, <2>6 DEF LegsInv, QueueInv, DraftInv
    <2>8. TouchedInv'
      BY <1>1, <2>3, <2>4, <2>6 DEF LegsInv, TouchedInv, Busy, Held
    <2>9. DecidedOnce' /\ NoDuplicateLegs'
      BY <1>1, <2>3 DEF LegsInv, DecidedOnce, NoDuplicateLegs
    <2>10. dryRun' => DryInv'
      BY <1>1, <2>4 DEF LegsInv, DryInv
    <2>11. ASSUME ~dryRun' PROVE LiveInv'
      <3>1. LiveInv /\ plans[i].status = "accepted"
        BY <1>1, <2>11 DEF LegsInv, Claimable
      <3>2. /\ \A w \in Slots : Busy(w) => Held(w) # plans[i].id
            /\ \A leg \in landed : leg.id # plans[i].id
        BY <3>1 DEF LiveInv
      <3>3. \A k \in DOMAIN plans : k # i => plans[k].id # plans[i].id
        BY DEF LegsInv, DecidedOnce
      <3>4. \A k \in DOMAIN plans' : plans'[k].status = "accepted" =>
               /\ \A w \in Slots : job'[w].pc # "idle" => job'[w].proposal.id # plans'[k].id
               /\ \A leg \in landed' : leg.id # plans'[k].id
        BY <1>1, <2>3, <2>4, <3>1, <3>3 DEF LiveInv, Busy, Held
      <3>5. \A v, w \in Slots :
               /\ job'[v].pc # "idle" /\ job'[w].pc # "idle"
               /\ job'[v].proposal.id = job'[w].proposal.id
               => v = w
        BY <2>4, <3>1, <3>2 DEF LiveInv, Busy, Held
      <3>6. \A w \in Slots : \A leg \in landed' :
               job'[w].pc # "idle" /\ leg.id = job'[w].proposal.id =>
                  leg.asset \in Moved(job'[w].pc)
        BY <1>1, <2>4, <3>1, <3>2 DEF LiveInv, Busy, Held
      <3>7. QED  BY <3>4, <3>5, <3>6 DEF LiveInv, Busy, Held
    <2>12. QED  BY <2>7, <2>8, <2>9, <2>10, <2>11 DEF LegsInv
  <1>4. QED  BY <1>2, <1>3

LEMMA GateLegs ==
  ASSUME PipeInv, LegsInv, NEW s \in Slots, Gate(s)
  PROVE  LegsInv'
  <1> DEFINE to == CASE ~Valid(job[s].proposal, loops, locked) -> "denied"
                     [] Valid(job[s].proposal, loops, locked) /\ dryRun -> "finish"
                     [] OTHER -> IF job[s].proposal.shape.fresh THEN "supply" ELSE "borrow"
             next == [job[s] EXCEPT !.pc = to]
  <1>1. to \in {"denied", "finish", "supply", "borrow"} /\ (dryRun => to \in {"denied", "finish"})
    OBVIOUS
  <1>2. job[s] \in Job /\ job[s].pc = "claimed"
    BY JobFacts DEF Gate
  <1>3. /\ job' = [job EXCEPT ![s] = next]
        /\ UNCHANGED <<dryRun, proposals, plans, draft, landed, counts>>
    BY DEF Gate, ledgerVars
  <1>4. next.pc = to /\ next.proposal = job[s].proposal
    <2> HIDE DEF to
    <2> QED  BY <1>2 DEF Job
  <1> HIDE DEF next, to
  <1>5. /\ job'[s] = next /\ \A w \in Slots : w # s => job'[w] = job[w]
    BY <1>3, JobFacts
  <1>6. Moved(job[s].pc) = {}
    BY <1>2 DEF Moved
  <1>7. \A w \in Slots : job'[w].pc # "idle" =>
            /\ Busy(w)
            /\ job'[w].proposal = job[w].proposal
            /\ Moved(job[w].pc) \subseteq Moved(job'[w].pc)
            /\ dryRun => job'[w].pc \notin {"supply", "borrow", "resupply"}
    BY <1>1, <1>2, <1>4, <1>5, <1>6 DEF Busy, LegsInv, DryInv
  <1>8. QED  BY <1>3, <1>7, InPlaceSteps

\* The steps after which an executor is idle.
LEMMA IdleLegs ==
  ASSUME PipeInv, LegsInv, NEW s \in Slots, job' = [job EXCEPT ![s] = Idle]
  PROVE  \A w \in Slots : job'[w].pc # "idle" =>
            /\ Busy(w)
            /\ job'[w].proposal = job[w].proposal
            /\ Moved(job[w].pc) \subseteq Moved(job'[w].pc)
            /\ dryRun => job'[w].pc \notin {"supply", "borrow", "resupply"}
  <1>1. job'[s] = Idle /\ \A w \in Slots : w # s => job'[w] = job[w]
    BY JobFacts
  <1>2. QED  BY <1>1, JobFacts DEF Busy, LegsInv, DryInv

LEMMA CloseMineIds ==
  ASSUME PipeInv, NEW s \in Slots, NEW st \in {"executed", "failed"},
         plans' = [i \in DOMAIN plans |->
                     IF i \in Mine(s) THEN [plans[i] EXCEPT !.status = st] ELSE plans[i]]
  PROVE  /\ DOMAIN plans' = DOMAIN plans
         /\ \A i \in DOMAIN plans :
               /\ plans'[i].id = plans[i].id /\ plans'[i].run = plans[i].run
               /\ plans'[i].status = IF i \in Mine(s) THEN st ELSE plans[i].status
               /\ plans'[i].status = "accepted" => plans[i].status = "accepted"
  <1> DEFINE closed(i) == [plans[i] EXCEPT !.status = st]
  <1>1. \A i \in DOMAIN plans : closed(i).id = plans[i].id /\ closed(i).run = plans[i].run
                               /\ closed(i).status = st
    <2>1. st \in {"accepted", "executing", "executed", "failed", "cancelled"}
      OBVIOUS
    <2>2. ASSUME NEW i \in DOMAIN plans
          PROVE  plans[i] \in Plan
      BY JobFacts
    <2>3. QED  BY <2>1, <2>2, PlanStatusFields
  <1>2. plans' = [i \in DOMAIN plans |-> IF i \in Mine(s) THEN closed(i) ELSE plans[i]]
    OBVIOUS
  <1> HIDE DEF closed
  <1>3. QED  BY <1>1, <1>2

LEMMA RecordLegs ==
  ASSUME PipeInv, LegsInv, NEW s \in Slots, RecordDenied(s) \/ RecordOutcome(s) \/ Crash(s)
  PROVE  LegsInv'
  <1>1. CASE RecordDenied(s)
    <2>1. /\ job' = [job EXCEPT ![s] = Idle]
          /\ UNCHANGED <<dryRun, proposals, draft, landed, counts>>
      BY <1>1 DEF RecordDenied
    <2>2. /\ DOMAIN plans' = DOMAIN plans
          /\ \A i \in DOMAIN plans :
                /\ plans'[i].id = plans[i].id
                /\ plans'[i].status = "accepted" => plans[i].status = "accepted"
      BY <1>1, CloseMineIds DEF RecordDenied
    <2>3. QED  BY <2>1, <2>2, IdleLegs, InPlaceSteps
  <1>2. CASE RecordOutcome(s)
    <2> DEFINE outcome == IF job[s].failed THEN "failed" ELSE "executed"
    <2>1. /\ job' = [job EXCEPT ![s] = Idle]
          /\ UNCHANGED <<dryRun, proposals, draft, landed, counts>>
      BY <1>2 DEF RecordOutcome
    <2>2. outcome \in {"executed", "failed"}
      OBVIOUS
    <2>3. plans' = [i \in DOMAIN plans |->
                      IF i \in Mine(s) THEN [plans[i] EXCEPT !.status = outcome] ELSE plans[i]]
      BY <1>2 DEF RecordOutcome
    <2> HIDE DEF outcome
    <2>4. /\ DOMAIN plans' = DOMAIN plans
          /\ \A i \in DOMAIN plans :
                /\ plans'[i].id = plans[i].id
                /\ plans'[i].status = "accepted" => plans[i].status = "accepted"
      BY <2>2, <2>3, CloseMineIds
    <2>5. QED  BY <2>1, <2>4, IdleLegs, InPlaceSteps
  <1>3. CASE Crash(s)
    <2>1. /\ job' = [job EXCEPT ![s] = Idle]
          /\ counts'.runs = counts.runs /\ counts'.main = counts.main
          /\ UNCHANGED <<dryRun, proposals, plans, draft, landed>>
      BY <1>3 DEF Crash, ledgerVars, PipeInv, PipeTypeOK
    <2>2. \A id : Started(id)' <=> Started(id)
      BY <2>1 DEF Started
    <2>3. job'[s].pc = "idle" /\ \A w \in Slots : w # s => job'[w] = job[w]
      BY <2>1, JobFacts
    <2>4. \A id : Touched(id)' => Touched(id)
      BY <2>1, <2>3 DEF Touched, Busy, Held
    <2>5. QueueInv' /\ DraftInv'
      BY <2>1, <2>2, <2>4 DEF LegsInv, QueueInv, DraftInv
    <2>6. TouchedInv' /\ DecidedOnce' /\ NoDuplicateLegs'
      BY <2>1, <2>2, <2>3 DEF LegsInv, TouchedInv, DecidedOnce, NoDuplicateLegs, Busy, Held
    <2>7. (dryRun' => DryInv') /\ (~dryRun' => LiveInv')
      BY <2>1, <2>3 DEF LegsInv, DryInv, LiveInv, Busy, Held
    <2>8. QED  BY <2>5, <2>6, <2>7 DEF LegsInv
  <1>4. QED  BY <1>1, <1>2, <1>3

LEMMA SubmitLegLegs ==
  ASSUME PipeInv, LegsInv, NEW s \in Slots, NEW lands \in BOOLEAN, NEW throws \in BOOLEAN,
         SubmitLeg(s, lands, throws)
  PROVE  LegsInv'
  <1> DEFINE pc == job[s].pc
             p == job[s].proposal
             asset == AssetOf(pc)
             before == {leg \in landed : leg.id = p.id /\ leg.asset = asset}
             next == [pc |-> IF throws THEN "finish" ELSE After(pc), proposal |-> p,
                      failed |-> throws]
             new == [id |-> p.id, asset |-> asset, nth |-> Cardinality(before) + 1]
  <1>1. /\ pc \in {"supply", "borrow", "resupply"}
        /\ job' = [job EXCEPT ![s] = next]
        /\ landed' = landed \cup {new} \/ landed' = landed
        /\ UNCHANGED <<dryRun, proposals, plans, draft, counts>>
    BY Zenon DEF SubmitLeg, ledgerVars
  <1>2. ~dryRun /\ LiveInv
    <2>1. ~dryRun
      BY <1>1 DEF LegsInv, DryInv
    <2>2. QED  BY <2>1 DEF LegsInv
  <1>3. next.pc \in {"borrow", "resupply", "finish"} /\ next.proposal = p
    BY DEF After
  <1>4. Moved(pc) \cup {asset} \subseteq Moved(next.pc) /\ asset \notin Moved(pc)
    <2>1. CASE pc = "supply"
      BY <2>1 DEF Moved, AssetOf, After, Assets
    <2>2. CASE pc = "borrow"
      BY <2>2 DEF Moved, AssetOf, After, Assets
    <2>3. CASE pc = "resupply"
      BY <2>3 DEF Moved, AssetOf, After, Assets
    <2>4. QED  BY <1>1, <2>1, <2>2, <2>3
  <1>5. /\ job'[s] = next /\ \A w \in Slots : w # s => job'[w] = job[w]
    <2> HIDE DEF next
    <2> QED  BY <1>1, JobFacts
  <1>6. Busy(s) /\ Held(s) = p.id
    BY <1>1 DEF Busy, Held
  <1>7. before = {}
    BY <1>2, <1>4, <1>6 DEF LiveInv
  <1>8. new.nth = 1 /\ new.id = p.id /\ new.asset = asset
    <2>1. Cardinality(before) = 0
      BY <1>7, FS_EmptySet
    <2> HIDE DEF before
    <2>2. QED  BY <2>1
  <1> HIDE DEF next, new, before, asset
  <1>9. \A id : Touched(id)' => Touched(id)
    BY <1>1, <1>3, <1>5, <1>6, <1>8 DEF Touched, Busy, Held
  <1>10. \A id : Started(id)' <=> Started(id)
    BY <1>1 DEF Started
  <1>11. QueueInv' /\ DraftInv'
    BY <1>1, <1>9, <1>10 DEF LegsInv, QueueInv, DraftInv
  <1>12. TouchedInv'
    BY <1>1, <1>3, <1>5, <1>6, <1>8, <1>10 DEF LegsInv, TouchedInv, Busy, Held
  <1>13. DecidedOnce' /\ NoDuplicateLegs'
    BY <1>1, <1>8 DEF LegsInv, DecidedOnce, NoDuplicateLegs
  <1>14. LiveInv'
    <2>1. \A w \in Slots : job'[w].pc # "idle" =>
             Busy(w) /\ job'[w].proposal = job[w].proposal
      BY <1>3, <1>5, <1>6 DEF Busy
    <2>2. \A i \in DOMAIN plans' : plans'[i].status = "accepted" =>
             /\ \A w \in Slots : job'[w].pc # "idle" => job'[w].proposal.id # plans'[i].id
             /\ \A leg \in landed' : leg.id # plans'[i].id
      BY <1>1, <1>2, <1>6, <1>8, <2>1 DEF LiveInv, Held
    <2>3. \A v, w \in Slots :
             /\ job'[v].pc # "idle" /\ job'[w].pc # "idle"
             /\ job'[v].proposal.id = job'[w].proposal.id
             => v = w
      BY <1>2, <2>1 DEF LiveInv, Held
    <2>4. ASSUME NEW w \in Slots, NEW leg \in landed', job'[w].pc # "idle",
                 leg.id = job'[w].proposal.id
          PROVE  leg.asset \in Moved(job'[w].pc)
      <3>1. Busy(w) /\ Held(w) = leg.id
        BY <2>1, <2>4 DEF Held
      <3>2. CASE w = s
        <4>1. leg = new \/ (leg \in landed /\ leg.asset \in Moved(pc))
          BY <1>1, <1>2, <3>1, <3>2 DEF LiveInv
        <4>2. QED  BY <1>4, <1>5, <1>8, <3>2, <4>1
      <3>3. CASE w # s
        <4>1. leg # new
          BY <1>2, <1>6, <1>8, <3>1, <3>3 DEF LiveInv
        <4>2. QED  BY <1>1, <1>2, <1>5, <3>1, <3>3, <4>1 DEF LiveInv
      <3>4. QED  BY <3>2, <3>3
    <2>5. QED  BY <2>2, <2>3, <2>4 DEF LiveInv, Busy, Held
  <1>15. QED  BY <1>1, <1>2, <1>11, <1>12, <1>13, <1>14 DEF LegsInv

LEMMA QuietLegs ==
  ASSUME LegsInv,
         RateScout \/ PositionWrite \/ GuardClears \/ GuardLocks \/ AgeNext
         \/ (\E unread \in SUBSET Unreliable, critical \in SUBSET Risky :
                PositionRead(unread, critical))
  PROVE  LegsInv'
  <1>1. UNCHANGED <<dryRun, proposals, plans, draft, job, landed, counts>>
    BY DEF RateScout, PositionWrite, GuardClears, GuardLocks, AgeNext, Age, PositionRead, ledgerVars
  <1>2. QED  BY <1>1, QuietSteps

\* Others touch neither a plan nor a leg of one.
LEMMA OthersMoveLegs ==
  ASSUME PipeInv, LegsInv, NEW p, NEW asset, OthersMove(p, asset)
  PROVE  LegsInv'
  <1>1. UNCHANGED <<dryRun, proposals, plans, draft, job, landed>>
    BY DEF OthersMove, ledgerVars
  <1>2. counts'.runs = counts.runs /\ counts'.main = counts.main
    BY DEF OthersMove, PipeInv, PipeTypeOK
  <1>3. QED
    BY <1>1, <1>2 DEF LegsInv, QueueInv, DraftInv, TouchedInv, LiveInv, DryInv, DecidedOnce,
                      NoDuplicateLegs, Touched, Started, Busy, Held

LEMMA NextLegsInv ==
  MaxMain <= 1 /\ PipeInv /\ LegsInv /\ [PipeNext]_pipeVars => LegsInv'
  <1> SUFFICES ASSUME MaxMain <= 1, PipeInv, LegsInv, [PipeNext]_pipeVars
               PROVE  LegsInv'
    OBVIOUS
  <1>1. ASSUME NEW s \in Slots, ExecutorNext(s)
        PROVE  LegsInv'
    BY <1>1, ClaimLegs, GateLegs, SubmitLegLegs, RecordLegs DEF ExecutorNext
  <1>2. CASE ProposeNext
    BY <1>2, StrategistBuildLegs, MainProposeLegs DEF ProposeNext
  <1>3. CASE UNCHANGED pipeVars
    BY <1>3, QuietSteps DEF pipeVars
  <1>4. QED
    BY <1>1, <1>2, <1>3, QuietLegs, StrategistInsertLegs, CoordinatorLegs, ClaimLapsesLegs,
       RecordLegs, OthersMoveLegs
    DEF PipeNext

PipeLegsInv == PipeInv /\ OneOpen /\ LegsInv

LEMMA PipeLegsInductive ==
  /\ PipeInit => PipeLegsInv
  /\ MaxMain <= 1 /\ PipeLegsInv /\ [PipeNext]_pipeVars => PipeLegsInv'
  BY InitOneOpen, InitLegsInv, NextInv, NextLegsInv DEF PipeLegsInv

\* Where a run of the main agent proposes once, a proposal that was decided is
\* never promoted a second time, through expiry, pruning and lapsed claims
\* (runCoordinator).
THEOREM DecisionsAreFinal == MaxMain <= 1 => (PipeSpec => []DecidedOnce)
  <1> SUFFICES ASSUME MaxMain <= 1
               PROVE  PipeSpec => []DecidedOnce
    OBVIOUS
  <1>1. PipeLegsInv => DecidedOnce
    BY DEF PipeLegsInv, LegsInv
  <1>2. PipeInit => PipeLegsInv
    BY PipeLegsInductive
  <1>3. PipeLegsInv /\ [PipeNext]_pipeVars => PipeLegsInv'
    BY PipeLegsInductive
  <1>4. QED  BY <1>1, <1>2, <1>3, PTL DEF PipeSpec

\* And no supply or borrow of a plan lands twice, whichever executors claim,
\* crash, lapse or time out after sending (claimAndExecuteAcceptedPlan, whose
\* failure reason says "to avoid duplicate transactions").
THEOREM LegsLandOnce == MaxMain <= 1 => (PipeSpec => []NoDuplicateLegs)
  <1> SUFFICES ASSUME MaxMain <= 1
               PROVE  PipeSpec => []NoDuplicateLegs
    OBVIOUS
  <1>1. PipeLegsInv => NoDuplicateLegs
    BY DEF PipeLegsInv, LegsInv
  <1>2. PipeInit => PipeLegsInv
    BY PipeLegsInductive
  <1>3. PipeLegsInv /\ [PipeNext]_pipeVars => PipeLegsInv'
    BY PipeLegsInductive
  <1>4. QED  BY <1>1, <1>2, <1>3, PTL DEF PipeSpec

-----------------------------------------------------------------------------
(* Loops in the ledger: those of a live run were opened for their plan or  *)
(* concluded from positions that stood.                                    *)

Apart(shape) == shape.sound => shape.from # shape.to

\* A snapshot shows nothing the wallet never held, whatever was moved since.
SeenInv ==
    /\ \A p \in Protocols : chain[p] \subseteq stood[p]
    /\ \A snap \in {position, reading} : snap # None =>
          \A p \in Protocols : snap.seen[p] \subseteq stood[p]

ShapesInv ==
    /\ \A i \in DOMAIN proposals : Apart(proposals[i].shape)
    /\ draft # None => Apart(draft.shape)
    /\ \A s \in Slots : Busy(s) => Apart(job[s].proposal.shape)

\* A plan was made of a sound proposal.
SoundInv ==
    \A i \in DOMAIN proposals, k \in DOMAIN plans :
       proposals[i].id = plans[k].id => proposals[i].shape.sound

\* The legs a live executor has behind it have landed for its plan.
BehindExecutor(j) ==
    LET done == j.pc = "finish" /\ ~j.failed
    IN  /\ j.pc = "resupply" \/ done => Landed(j.proposal.id, "debt")
        /\ done => Landed(j.proposal.id, "target")

ExecutorsInv == ~dryRun => \A s \in Slots : BehindExecutor(job[s])

BackedInv == SeenInv /\ ShapesInv /\ SoundInv /\ ExecutorsInv /\ LoopsAreBacked

LEMMA InitBacked == PipeInit => BackedInv
  BY DEF PipeInit, BackedInv, SeenInv, ShapesInv, SoundInv, ExecutorsInv, BehindExecutor,
         LoopsAreBacked, Busy, Idle

LEMMA StepFacts ==
  ASSUME PipeInv
  PROVE  /\ \A i \in DOMAIN proposals : proposals[i] \in Proposal
         /\ \A s \in Slots : Busy(s) => /\ job[s].proposal.shape.from \in Protocols
                                        /\ job[s].proposal.shape.to \in Protocols
         /\ chain \in [Protocols -> SUBSET Assets] /\ stood \in [Protocols -> SUBSET Assets]
  BY Indices, JobFacts DEF PipeInv, PipeTypeOK, Busy, Proposal, Shape, Holdings

\* Steps that leave proposals, plans, loops and the wallet alone and take
\* executors nowhere but to idle.
LEMMA BackedFrame ==
  ASSUME BackedInv,
         UNCHANGED <<dryRun, proposals, loops, receipts, chain, stood, landed>>,
         position' = position \/ position' = reading,
         reading' \in {reading, None} \/ \A p \in Protocols : reading'.seen[p] \subseteq chain[p],
         draft' \in {draft, None} \/ Apart(draft'.shape),
         DOMAIN plans' = DOMAIN plans, \A k \in DOMAIN plans : plans'[k].id = plans[k].id,
         \A s \in Slots : job'[s] = job[s] \/ job'[s].pc = "idle"
  PROVE  BackedInv'
  <1>1. SeenInv'
    BY DEF BackedInv, SeenInv
  <1>2. ShapesInv'
    BY DEF BackedInv, ShapesInv, Apart, Busy
  <1>3. SoundInv'
    BY DEF BackedInv, SoundInv
  <1>4. ExecutorsInv'
    BY DEF BackedInv, ExecutorsInv, BehindExecutor, Landed
  <1>5. LoopsAreBacked'
    BY DEF BackedInv, LoopsAreBacked, Backed, OpenedForPlan, Landed, Concluded, OnceStood
  <1>6. QED  BY <1>1, <1>2, <1>3, <1>4, <1>5 DEF BackedInv

\* What a loop rests on is history, and stays.
LEMMA BackedStays ==
  ASSUME NEW l, NEW k, Backed(l), k.id = l.id, k.receipt = l.receipt, k.from = l.from,
         k.from \in Protocols, receipts \subseteq receipts', landed \subseteq landed',
         \A p \in Protocols : stood[p] \subseteq stood'[p]
  PROVE  Backed(k)'
  <1>1. ASSUME NEW asset, Landed(l.id, asset)
        PROVE  Landed(k.id, asset)'
    BY <1>1 DEF Landed
  <1>2. CASE OpenedForPlan(l)
    BY <1>1, <1>2 DEF OpenedForPlan, Backed
  <1>3. CASE Concluded(l) /\ OnceStood(l)
    <2>1. Concluded(k)'
      BY <1>3 DEF Concluded
    <2>2. OnceStood(k)'
      BY <1>3 DEF OnceStood
    <2>3. QED  BY <2>1, <2>2 DEF Backed
  <1>4. QED  BY <1>2, <1>3 DEF Backed

LEMMA LoopsStayBacked ==
  ASSUME PipeInv, LoopsAreBacked, dryRun' = dryRun,
         receipts \subseteq receipts', landed \subseteq landed',
         \A p \in Protocols : stood[p] \subseteq stood'[p],
         \A k \in loops' : \E l \in loops : k.id = l.id /\ k.receipt = l.receipt /\ k.from = l.from
  PROVE  LoopsAreBacked'
  <1> SUFFICES ASSUME NEW k \in loops', ~dryRun'
               PROVE  Backed(k)'
    BY DEF LoopsAreBacked
  <1>1. PICK l \in loops : k.id = l.id /\ k.receipt = l.receipt /\ k.from = l.from
    OBVIOUS
  <1>2. Backed(l) /\ l.from \in Protocols
    BY DEF LoopsAreBacked, PipeInv, PipeTypeOK, Loop
  <1>3. QED  BY <1>1, <1>2, BackedStays

LEMMA ShapesApart ==
  ASSUME NEW shape \in Shapes
  PROVE  Apart(shape)
  BY PipelineAssumption DEF Apart

LEMMA ObserversBacked ==
  ASSUME PipeInv, BackedInv,
         RateScout \/ PositionWrite \/ AgeNext
         \/ (\E unread \in SUBSET Unreliable, critical \in SUBSET Risky :
               PositionRead(unread, critical))
         \/ (\E shape \in Shapes : StrategistBuild(shape))
  PROVE  BackedInv'
  <1>1. CASE RateScout \/ AgeNext
    BY <1>1, BackedFrame DEF RateScout, AgeNext, Age, ledgerVars
  <1>2. CASE PositionWrite
    BY <1>2, BackedFrame DEF PositionWrite
  <1>3. ASSUME NEW unread \in SUBSET Unreliable, NEW critical \in SUBSET Risky,
               PositionRead(unread, critical)
        PROVE  BackedInv'
    <2>1. \A p \in Protocols : reading'.seen[p] \subseteq chain[p]
      BY <1>3 DEF PositionRead
    <2>2. QED  BY <1>3, <2>1, BackedFrame DEF PositionRead, ledgerVars
  <1>4. ASSUME NEW shape \in Shapes, StrategistBuild(shape)
        PROVE  BackedInv'
    <2>1. draft'.shape = shape
      BY <1>4 DEF StrategistBuild, Build
    <2>2. Apart(draft'.shape)
      BY <2>1, ShapesApart
    <2>3. QED  BY <1>4, <2>2, BackedFrame DEF StrategistBuild, ledgerVars
  <1>5. QED  BY <1>1, <1>2, <1>3, <1>4

LEMMA InsertBacked ==
  ASSUME PipeInv, BackedInv, NEW p \in Proposal, Insert(p), Apart(p.shape), ~Touched(p.id),
         UNCHANGED <<dryRun, plans, loops, receipts, position, reading, job, chain, stood, landed>>,
         draft' \in {draft, None}
  PROVE  BackedInv'
  <1>1. \A i \in DOMAIN proposals' :
           \/ proposals'[i].id = p.id /\ proposals'[i].shape = p.shape
           \/ \E k \in DOMAIN proposals : proposals'[i] = proposals[k]
    BY InsertShape
  <1>2. ShapesInv'
    BY <1>1 DEF BackedInv, ShapesInv, Apart, Busy
  <1>3. SoundInv'
    BY <1>1 DEF BackedInv, SoundInv, Touched
  <1>4. SeenInv' /\ ExecutorsInv' /\ LoopsAreBacked'
    BY DEF BackedInv, SeenInv, ExecutorsInv, BehindExecutor, LoopsAreBacked, Backed,
           OpenedForPlan, Landed, Concluded, OnceStood
  <1>5. QED  BY <1>2, <1>3, <1>4 DEF BackedInv

LEMMA MainBuildFresh ==
  ASSUME MaxMain <= 1, PipeInv, LegsInv, NEW shape \in Shapes, MainPropose(shape)
  PROVE  LET p == Build(MainRun, Len(proposals), shape)
         IN  p \in Proposal /\ p.shape = shape /\ Insert(p) /\ ~Started(p.id) /\ ~Touched(p.id)
  <1> DEFINE p == Build(MainRun, Len(proposals), shape)
  <1>1. p \in Proposal /\ p.shape = shape /\ Insert(p) /\ p.id[1] = MainRun
    BY BuildType DEF MainPropose, Runs, Build
  <1>2. counts.main = 0
    <2>1. counts.main \in Nat /\ counts.main < MaxMain /\ MaxMain \in Nat
      BY PipelineAssumption DEF MainPropose, PipeInv, PipeTypeOK
    <2>2. QED  BY <2>1
  <1>3. ~Started(p.id)
    <2> HIDE DEF p
    <2> QED  BY <1>1, <1>2 DEF Started
  <1>4. ~Touched(p.id)
    <2> HIDE DEF p
    <2> QED  BY <1>3 DEF LegsInv, TouchedInv, Touched
  <1>5. QED  BY <1>1, <1>3, <1>4

LEMMA ProposersBacked ==
  ASSUME MaxMain <= 1, PipeInv, LegsInv, BackedInv,
         StrategistInsert \/ (\E shape \in Shapes : MainPropose(shape))
  PROVE  BackedInv'
  <1>1. CASE StrategistInsert
    <2>1. draft \in Proposal /\ draft # None /\ Insert(draft)
      BY <1>1 DEF StrategistInsert, PipeInv, PipeTypeOK
    <2>2. ~Touched(draft.id) /\ Apart(draft.shape)
      BY <2>1 DEF LegsInv, DraftInv, BackedInv, ShapesInv
    <2>3. /\ UNCHANGED <<dryRun, plans, loops, receipts, position, reading, job, chain, stood, landed>>
          /\ draft' = None
      BY <1>1 DEF StrategistInsert
    <2>4. QED  BY <2>1, <2>2, <2>3, InsertBacked
  <1>2. ASSUME NEW shape \in Shapes, MainPropose(shape)
        PROVE  BackedInv'
    <2> DEFINE p == Build(MainRun, Len(proposals), shape)
    <2>1. p \in Proposal /\ p.shape = shape /\ Insert(p) /\ ~Touched(p.id)
      BY <1>2, MainBuildFresh
    <2> HIDE DEF p
    <2>2. Apart(p.shape)
      BY <2>1, ShapesApart
    <2>3. UNCHANGED <<dryRun, plans, loops, receipts, position, reading, draft, job, chain, stood,
                      landed>>
      BY <1>2 DEF MainPropose
    <2>4. QED  BY <2>1, <2>2, <2>3, InsertBacked
  <1>3. QED  BY <1>1, <1>2

LEMMA ProposalOfEntry ==
  ASSUME PipeInv, NEW plan, HasProposal(plan)
  PROVE  \E i \in DOMAIN proposals : ProposalOf(plan) = proposals[i] /\ proposals[i].id = plan.id
  <1> DEFINE S == {i \in DOMAIN proposals : proposals[i].id = plan.id}
  <1>1. S \in SUBSET Nat /\ S # {}
    BY Indices DEF HasProposal, PipeInv, PipeTypeOK
  <1>2. Min(S) \in S
    <2> HIDE DEF S
    <2> QED  BY <1>1, MinIsElement
  <1>3. QED  BY <1>2 DEF ProposalOf

\* What the coordinator concludes of a lapsed claim was on chain.
LEMMA FoundIsBacked ==
  ASSUME PipeInv, BackedInv, NEW id \in FoundIds, NEW p, p = ProposalOf([id |-> id])
  PROVE  /\ p.shape.from \in Protocols /\ p.shape.to \in Protocols /\ p.shape.from # p.shape.to
         /\ "debt" \in stood[p.shape.from] /\ "target" \in stood[p.shape.to]
  <1>1. PICK k \in DOMAIN plans : FoundOnChain(plans[k]) /\ plans[k].id = id
    BY DEF FoundIds
  <1>2. ProposalOf(plans[k]) = p
    BY <1>1 DEF ProposalOf
  <1>3. HasProposal([id |-> id])
    BY <1>1 DEF FoundOnChain, HasProposal
  <1>4. p \in Proposal
    BY <1>3, ProposalOfType
  <1>5. /\ position # None
        /\ "debt" \in position.seen[p.shape.from] /\ "target" \in position.seen[p.shape.to]
    BY <1>1, <1>2 DEF FoundOnChain, AppearsOnChain
  <1>6. PICK i \in DOMAIN proposals : p = proposals[i] /\ proposals[i].id = id
    BY <1>3, ProposalOfEntry
  <1>7. p.shape.from \in Protocols /\ p.shape.to \in Protocols
    BY <1>4 DEF Proposal, Shape
  <1>8. p.shape.from # p.shape.to
    BY <1>1, <1>6 DEF BackedInv, ShapesInv, SoundInv, Apart
  <1>9. "debt" \in stood[p.shape.from] /\ "target" \in stood[p.shape.to]
    BY <1>5, <1>7 DEF BackedInv, SeenInv
  <1>10. QED  BY <1>7, <1>8, <1>9

LEMMA CoordinatorBacked ==
  ASSUME PipeInv, LegsInv, BackedInv, Coordinator
  PROVE  BackedInv'
  <1>1. /\ UNCHANGED <<dryRun, draft, job, chain, stood, position, reading, landed>>
        /\ loops' = ReconciledLoops /\ receipts' = ReconciledReceipts
        /\ DOMAIN proposals' = DOMAIN proposals
        /\ \A i \in DOMAIN proposals :
              proposals'[i].id = proposals[i].id /\ proposals'[i].shape = proposals[i].shape
    BY CoordinatorEffect DEF Coordinator
  <1>2. SeenInv' /\ ShapesInv' /\ ExecutorsInv'
    BY <1>1 DEF BackedInv, SeenInv, ShapesInv, Apart, Busy, ExecutorsInv, BehindExecutor, Landed
  <1>3. DOMAIN Reconciled = DOMAIN plans /\ \A k \in DOMAIN plans : Reconciled[k].id = plans[k].id
    BY ReconciledType, ReconciledKeepsIds
  <1>4. SoundInv'
    <2>1. CASE plans' = Reconciled
      BY <1>1, <1>3, <2>1 DEF BackedInv, SoundInv
    <2>2. ASSUME NEW first \in DOMAIN proposals, Decides(first)
          PROVE  SoundInv'
      <3>1. ASSUME NEW i \in DOMAIN proposals, NEW k \in DOMAIN plans',
                   proposals[i].id = plans'[k].id
            PROVE  proposals[i].shape.sound
        <4>1. CASE k = 1
          <5>1. proposals[i].id = proposals[first].id
            BY <2>2, <3>1, <4>1 DEF Decides
          <5>2. i = first
            BY <5>1 DEF LegsInv, QueueInv
          <5>3. QED  BY <2>2, <5>2 DEF Decides
        <4>2. CASE k # 1
          BY <1>3, <2>2, <3>1, <4>2 DEF Decides, BackedInv, SoundInv
        <4>3. QED  BY <4>1, <4>2
      <3>2. QED  BY <1>1, <3>1 DEF SoundInv
    <2>3. QED  BY <2>1, <2>2, CoordinatorEffect
  <1>5. LoopsAreBacked'
    <2>1. ASSUME NEW loop \in loops', ~dryRun'
          PROVE  Backed(loop)'
      <3>1. CASE loop \in loops
        <4>1. receipts \subseteq receipts'
          BY <1>1 DEF ReconciledReceipts
        <4>2. Backed(loop) /\ loop.from \in Protocols
          BY <1>1, <2>1, <3>1 DEF BackedInv, LoopsAreBacked, PipeInv, PipeTypeOK, Loop
        <4>3. QED  BY <1>1, <4>1, <4>2, BackedStays
      <3>2. CASE loop \notin loops
        <4> DEFINE added(id) == [id |-> id, receipt |-> NextReceipt, status |-> "active",
                                 from |-> ProposalOf([id |-> id]).shape.from]
                   receipt(id) == [id |-> id, receipt |-> NextReceipt, status |-> "confirmed",
                                   reconciled |-> TRUE]
        <4>1. /\ \A id : /\ added(id).from = ProposalOf([id |-> id]).shape.from
                         /\ added(id).id = id /\ receipt(id).id = id
                         /\ added(id).receipt = receipt(id).receipt /\ receipt(id).reconciled
              /\ ReconciledLoops = loops \cup {added(id) : id \in {n \in FoundIds :
                                                 ~\E other \in loops : other.id = n}}
              /\ \A id \in FoundIds : receipt(id) \in ReconciledReceipts
          BY DEF ReconciledLoops, ReconciledReceipts
        <4> HIDE DEF added, receipt
        <4>2. PICK id \in FoundIds : loop = added(id)
          BY <1>1, <3>2, <4>1
        <4>3. PICK p : p = ProposalOf([id |-> id])
          OBVIOUS
        <4>4. loop.from = p.shape.from
          BY <4>1, <4>2, <4>3
        <4>5. /\ p.shape.to \in Protocols /\ p.shape.from # p.shape.to
              /\ "debt" \in stood[p.shape.from] /\ "target" \in stood[p.shape.to]
          BY <4>3, FoundIsBacked
        <4>6. OnceStood(loop)'
          BY <1>1, <4>4, <4>5 DEF OnceStood
        <4>7. receipt(id) \in receipts'
          BY <1>1, <4>1
        <4>8. Concluded(loop)'
          BY <4>1, <4>2, <4>7 DEF Concluded
        <4>9. QED  BY <4>6, <4>8 DEF Backed
      <3>3. QED  BY <3>1, <3>2
    <2>2. QED  BY <2>1 DEF LoopsAreBacked
  <1>6. QED  BY <1>2, <1>4, <1>5 DEF BackedInv

\* Steps that only rewrite plans, locks and executors that stay or turn idle.
LEMMA ClaimLapsesBacked ==
  ASSUME PipeInv, BackedInv, NEW i \in DOMAIN plans, ClaimLapses(i)
  PROVE  BackedInv'
  <1> DEFINE lapsed == [plans[i] EXCEPT !.lapsed = TRUE]
  <1>1. lapsed.id = plans[i].id
    BY JobFacts DEF Plan
  <1>2. plans' = [plans EXCEPT ![i] = lapsed]
    BY DEF ClaimLapses
  <1> HIDE DEF lapsed
  <1>3. DOMAIN plans' = DOMAIN plans /\ \A k \in DOMAIN plans : plans'[k].id = plans[k].id
    BY <1>1, <1>2, JobFacts
  <1>4. UNCHANGED <<dryRun, proposals, loops, receipts, chain, stood, position, reading, draft, job,
                    landed>>
    BY DEF ClaimLapses
  <1>5. QED  BY <1>3, <1>4, BackedFrame

LEMMA ClaimBacked ==
  ASSUME PipeInv, BackedInv, NEW s \in Slots, NEW i \in DOMAIN plans, Claim(s, i)
  PROVE  BackedInv'
  <1>1. UNCHANGED <<dryRun, proposals, loops, receipts, chain, stood, position, reading, draft,
                    landed>>
    BY DEF Claim
  <1>2. CASE ~HasProposal(plans[i])
    <2> DEFINE closed == [plans[i] EXCEPT !.status = "failed"]
    <2>1. closed.id = plans[i].id
      BY JobFacts, PlanStatusFields
    <2>2. plans' = [plans EXCEPT ![i] = closed] /\ job' = job
      BY <1>2 DEF Claim
    <2> HIDE DEF closed
    <2>3. DOMAIN plans' = DOMAIN plans /\ \A k \in DOMAIN plans : plans'[k].id = plans[k].id
      BY <2>1, <2>2, JobFacts
    <2>4. QED  BY <1>1, <2>2, <2>3, BackedFrame
  <1>3. CASE HasProposal(plans[i])
    <2> DEFINE mine == [id |-> plans[i].id, status |-> "executing", lapsed |-> FALSE,
                        run |-> RunOf[s]]
               held == [pc |-> "claimed", failed |-> FALSE, proposal |-> ProposalOf(plans[i])]
    <2>1. mine.id = plans[i].id /\ held.pc = "claimed" /\ held.proposal = ProposalOf(plans[i])
      OBVIOUS
    <2>2. plans' = [plans EXCEPT ![i] = mine] /\ job' = [job EXCEPT ![s] = held]
      BY <1>3 DEF Claim
    <2> HIDE DEF mine, held
    <2>3. DOMAIN plans' = DOMAIN plans /\ \A k \in DOMAIN plans : plans'[k].id = plans[k].id
      BY <2>1, <2>2, JobFacts
    <2>4. /\ job'[s].pc = "claimed" /\ job'[s].proposal = ProposalOf(plans[i])
          /\ \A w \in Slots : w # s => job'[w] = job[w]
      BY <2>1, <2>2, JobFacts
    <2>5. PICK n \in DOMAIN proposals : ProposalOf(plans[i]) = proposals[n]
      BY <1>3, ProposalOfEntry
    <2>6. ShapesInv'
      BY <1>1, <2>4, <2>5 DEF BackedInv, ShapesInv, Apart, Busy
    <2>7. SoundInv'
      BY <1>1, <2>3 DEF BackedInv, SoundInv
    <2>8. SeenInv' /\ LoopsAreBacked'
      BY <1>1 DEF BackedInv, SeenInv, LoopsAreBacked, Backed, OpenedForPlan, Landed, Concluded,
                  OnceStood
    <2>9. ExecutorsInv'
      BY <1>1, <2>4 DEF BackedInv, ExecutorsInv, BehindExecutor, Landed
    <2>10. QED  BY <2>6, <2>7, <2>8, <2>9 DEF BackedInv
  <1>4. QED  BY <1>2, <1>3

LEMMA GateBacked ==
  ASSUME PipeInv, BackedInv, NEW s \in Slots, Gate(s)
  PROVE  BackedInv'
  <1> DEFINE to == CASE ~Valid(job[s].proposal, loops, locked) -> "denied"
                     [] Valid(job[s].proposal, loops, locked) /\ dryRun -> "finish"
                     [] OTHER -> IF job[s].proposal.shape.fresh THEN "supply" ELSE "borrow"
             next == [job[s] EXCEPT !.pc = to]
  <1>1. /\ ~dryRun => to \in {"denied", "supply", "borrow"}
        /\ to # "denied" => Valid(job[s].proposal, loops, locked)
    OBVIOUS
  <1>2. job[s] \in Job /\ Busy(s)
    BY JobFacts DEF Gate, Busy
  <1>3. /\ job' = [job EXCEPT ![s] = next]
        /\ UNCHANGED <<dryRun, proposals, plans, loops, receipts, position, reading, draft, chain,
                       stood, landed>>
    BY DEF Gate, ledgerVars
  <1>4. next.pc = to /\ next.proposal = job[s].proposal
    <2> HIDE DEF to
    <2> QED  BY <1>2 DEF Job
  <1> HIDE DEF next, to
  <1>6. /\ job'[s] = next /\ \A w \in Slots : w # s => job'[w] = job[w]
    BY <1>3, JobFacts
  <1>7. ShapesInv'
    BY <1>2, <1>3, <1>4, <1>6 DEF BackedInv, ShapesInv, Apart, Busy
  <1>8. ExecutorsInv'
    BY <1>1, <1>3, <1>4, <1>6 DEF BackedInv, ExecutorsInv, BehindExecutor, Landed
  <1>9. SeenInv' /\ SoundInv' /\ LoopsAreBacked'
    BY <1>3 DEF BackedInv, SeenInv, SoundInv, LoopsAreBacked, Backed, OpenedForPlan, Landed,
                Concluded, OnceStood
  <1>10. QED  BY <1>7, <1>8, <1>9 DEF BackedInv

LEMMA SubmitLegBacked ==
  ASSUME PipeInv, BackedInv, NEW s \in Slots, NEW lands \in BOOLEAN, NEW throws \in BOOLEAN,
         SubmitLeg(s, lands, throws)
  PROVE  BackedInv'
  <1> DEFINE pc == job[s].pc
             p == job[s].proposal
             at == IF pc = "resupply" THEN p.shape.to ELSE p.shape.from
             asset == AssetOf(pc)
             next == [pc |-> IF throws THEN "finish" ELSE After(pc), proposal |-> p,
                      failed |-> throws]
             before == {leg \in landed : leg.id = p.id /\ leg.asset = asset}
             leg == [id |-> p.id, asset |-> asset, nth |-> Cardinality(before) + 1]
  <1>1. /\ pc \in {"supply", "borrow", "resupply"} /\ Busy(s)
        /\ job' = [job EXCEPT ![s] = next]
        /\ \/ /\ chain' = [chain EXCEPT ![at] = @ \cup {asset}]
              /\ stood' = [stood EXCEPT ![at] = @ \cup {asset}]
              /\ landed' = landed \cup {leg}
           \/ throws /\ UNCHANGED <<chain, stood, landed>>
        /\ UNCHANGED <<dryRun, proposals, plans, loops, receipts, position, reading, draft>>
    BY Zenon DEF SubmitLeg, ledgerVars, Busy
  <1>2. /\ p.shape.from \in Protocols /\ p.shape.to \in Protocols
        /\ chain \in [Protocols -> SUBSET Assets] /\ stood \in [Protocols -> SUBSET Assets]
    BY <1>1, StepFacts
  <1>3. /\ next.proposal = p /\ next.failed = throws
        /\ next.pc = IF throws THEN "finish" ELSE After(pc)
        /\ leg.id = p.id /\ leg.asset = asset
    OBVIOUS
  <1>4. at \in Protocols
    BY <1>2
  <1> HIDE DEF next, leg, before
  <1>0. PICK id, moved : id = p.id /\ moved = asset
    OBVIOUS
  <1>5. /\ job'[s] = next /\ \A w \in Slots : w # s => job'[w] = job[w]
    BY <1>1, JobFacts
  <1>6. /\ \A q \in Protocols : stood[q] \subseteq stood'[q]
        /\ \A q \in Protocols : chain[q] \subseteq stood[q] => chain'[q] \subseteq stood'[q]
        /\ landed \subseteq landed' /\ (~throws => Landed(id, moved)')
    <2> HIDE DEF at, asset, p
    <2>1. CASE UNCHANGED <<chain, stood, landed>> /\ throws
      BY <2>1
    <2>2. CASE /\ chain' = [chain EXCEPT ![at] = @ \cup {asset}]
               /\ stood' = [stood EXCEPT ![at] = @ \cup {asset}]
               /\ landed' = landed \cup {leg}
      <3>1. \A q \in Protocols : /\ chain'[q] = IF q = at THEN chain[q] \cup {asset} ELSE chain[q]
                                /\ stood'[q] = IF q = at THEN stood[q] \cup {asset} ELSE stood[q]
        BY <1>2, <1>4, <2>2
      <3>2. Landed(id, moved)'
        BY <1>0, <1>3, <2>2 DEF Landed
      <3>3. QED  BY <2>2, <3>1, <3>2
    <2>3. QED  BY <1>1, <2>1, <2>2
  <1>7. SeenInv' /\ LoopsAreBacked'
    <2>1. LoopsAreBacked'
      BY <1>1, <1>6, LoopsStayBacked DEF BackedInv
    <2>2. SeenInv'
      BY <1>1, <1>6 DEF BackedInv, SeenInv
    <2>3. QED  BY <2>1, <2>2
  <1>8. ShapesInv'
    <2>1. \A w \in Slots : job'[w].pc # "idle" => Busy(w) /\ job'[w].proposal = job[w].proposal
      BY <1>1, <1>3, <1>5 DEF Busy
    <2> HIDE DEF pc, p
    <2>2. QED  BY <1>1, <2>1 DEF BackedInv, ShapesInv, Apart, Busy
  <1>9. SoundInv'
    BY <1>1 DEF BackedInv, SoundInv
  <1>10. ASSUME ~dryRun, NEW w \in Slots
         PROVE  BehindExecutor(job[w])'
    <2>1. BehindExecutor(job[w]) /\ BehindExecutor(job[s])
      BY <1>10 DEF BackedInv, ExecutorsInv
    <2>2. ASSUME NEW i, NEW x, Landed(i, x)
          PROVE  Landed(i, x)'
      BY <1>6, <2>2 DEF Landed
    <2>3. CASE w # s
      BY <1>5, <2>1, <2>2, <2>3 DEF BehindExecutor
    <2>4. CASE w = s /\ throws
      BY <1>3, <1>5, <2>4 DEF BehindExecutor
    <2>5. CASE w = s /\ ~throws
      <3>1. CASE pc = "supply"
        <4>1. next.pc = "borrow"
          BY <1>3, <2>5, <3>1 DEF After
        <4>2. QED  BY <1>3, <1>5, <2>5, <4>1 DEF BehindExecutor
      <3>2. CASE pc = "borrow"
        <4>1. next.pc = "resupply" /\ moved = "debt"
          BY <1>0, <1>3, <2>5, <3>2 DEF After, AssetOf
        <4>2. Landed(id, "debt")'
          BY <1>6, <2>5, <4>1
        <4>3. QED  BY <1>0, <1>3, <1>5, <2>5, <4>1, <4>2 DEF BehindExecutor
      <3>3. CASE pc = "resupply"
        <4>1. next.pc = "finish" /\ moved = "target"
          BY <1>0, <1>3, <2>5, <3>3 DEF After, AssetOf
        <4>2. Landed(id, "target")'
          BY <1>6, <2>5, <4>1
        <4>3. Landed(id, "debt")'
          BY <1>0, <2>1, <2>2, <3>3 DEF BehindExecutor
        <4>4. QED  BY <1>0, <1>3, <1>5, <2>5, <4>1, <4>2, <4>3 DEF BehindExecutor
      <3>4. QED  BY <1>1, <3>1, <3>2, <3>3
    <2>6. QED  BY <2>3, <2>4, <2>5
  <1>11. ExecutorsInv'
    BY <1>1, <1>10 DEF ExecutorsInv
  <1>12. QED  BY <1>7, <1>8, <1>9, <1>11 DEF BackedInv

LEMMA RecordBacked ==
  ASSUME PipeInv, BackedInv, NEW s \in Slots, RecordDenied(s) \/ RecordOutcome(s) \/ Crash(s)
  PROVE  BackedInv'
  <1>1. /\ job' = [job EXCEPT ![s] = Idle]
        /\ UNCHANGED <<dryRun, proposals, position, reading, draft, chain, stood, landed>>
    BY Zenon DEF RecordDenied, RecordOutcome, Crash, ledgerVars
  <1>2. \A w \in Slots : job'[w] = job[w] \/ job'[w].pc = "idle"
    BY <1>1, JobFacts
  <1>3. DOMAIN plans' = DOMAIN plans /\ \A k \in DOMAIN plans : plans'[k].id = plans[k].id
    <2>1. CASE RecordDenied(s)
      BY <2>1, CloseMineIds DEF RecordDenied
    <2>2. CASE RecordOutcome(s)
      <3> DEFINE outcome == IF job[s].failed THEN "failed" ELSE "executed"
      <3>1. outcome \in {"executed", "failed"}
        OBVIOUS
      <3>2. plans' = [i \in DOMAIN plans |->
                        IF i \in Mine(s) THEN [plans[i] EXCEPT !.status = outcome] ELSE plans[i]]
        BY <2>2 DEF RecordOutcome
      <3> HIDE DEF outcome
      <3>3. QED  BY <3>1, <3>2, CloseMineIds
    <2>3. CASE Crash(s)
      BY <2>3 DEF Crash, ledgerVars
    <2>4. QED  BY <2>1, <2>2, <2>3
  <1>4. CASE RecordDenied(s) \/ Crash(s)
    <2>1. loops' = loops /\ receipts' = receipts
      BY <1>4 DEF RecordDenied, Crash, ledgerVars
    <2>2. QED  BY <1>1, <1>2, <1>3, <2>1, BackedFrame
  <1>5. CASE RecordOutcome(s)
    <2> DEFINE loop == [id |-> job[s].proposal.id, receipt |-> NextReceipt,
                        from |-> job[s].proposal.shape.from,
                        status |-> IF dryRun THEN "opening" ELSE "active"]
    <2>1. /\ job[s].pc = "finish" /\ receipts \subseteq receipts'
          /\ loops' = loops \/ (~job[s].failed /\ loops' = loops \cup {loop})
      BY <1>5 DEF RecordOutcome
    <2>2. ~dryRun /\ ~job[s].failed => Landed(loop.id, "debt") /\ Landed(loop.id, "target")
      BY <2>1 DEF BackedInv, ExecutorsInv, BehindExecutor
    <2> HIDE DEF loop
    <2>3. PICK new : new = loop
      OBVIOUS
    <2>4. ~dryRun /\ ~job[s].failed => Backed(new)'
      BY <1>1, <2>2, <2>3 DEF Backed, OpenedForPlan, Landed
    <2>5. /\ landed \subseteq landed'
          /\ \A p \in Protocols : stood[p] \subseteq stood'[p]
      BY <1>1
    <2>6. LoopsAreBacked'
      <3>1. ASSUME NEW l \in loops', ~dryRun'
            PROVE  Backed(l)'
        <4>1. CASE l \in loops
          <5>1. Backed(l) /\ l.from \in Protocols
            BY <1>1, <3>1, <4>1 DEF BackedInv, LoopsAreBacked, PipeInv, PipeTypeOK, Loop
          <5>2. QED  BY <2>1, <2>5, <5>1, BackedStays
        <4>2. CASE l \notin loops
          BY <1>1, <2>1, <2>3, <2>4, <3>1, <4>2
        <4>3. QED  BY <4>1, <4>2
      <3>2. QED  BY <3>1 DEF LoopsAreBacked
    <2>7. SeenInv' /\ ShapesInv' /\ SoundInv' /\ ExecutorsInv'
      BY <1>1, <1>2, <1>3 DEF BackedInv, SeenInv, ShapesInv, SoundInv, ExecutorsInv,
                              BehindExecutor, Landed, Apart, Busy
    <2>8. QED  BY <2>6, <2>7 DEF BackedInv
  <1>6. QED  BY <1>4, <1>5

LEMMA GuardBacked ==
  ASSUME PipeInv, BackedInv, GuardClears \/ GuardLocks
  PROVE  BackedInv'
  <1>1. UNCHANGED <<dryRun, proposals, plans, receipts, position, reading, draft, job, chain, stood,
                    landed>>
    BY DEF GuardClears, GuardLocks
  <1>2. \A l \in loops' : \E loop \in loops :
           l.id = loop.id /\ l.receipt = loop.receipt /\ l.from = loop.from
    <2>1. ASSUME NEW loop \in loops, NEW st \in {"opening", "active", "unwinding"}
          PROVE  /\ [loop EXCEPT !.status = st].id = loop.id
                 /\ [loop EXCEPT !.status = st].receipt = loop.receipt
                 /\ [loop EXCEPT !.status = st].from = loop.from
      BY DEF PipeInv, PipeTypeOK, Loop
    <2>2. CASE GuardClears
      <3> DEFINE f == [loop \in loops |->
                         IF loop.status = "unwinding" /\ loop.from \in locked
                           THEN [loop EXCEPT !.status = "active"] ELSE loop]
      <3>1. loops' = {f[loop] : loop \in loops}
        BY <2>2 DEF GuardClears
      <3>2. \A loop \in loops : /\ f[loop].id = loop.id
                                /\ f[loop].receipt = loop.receipt
                                /\ f[loop].from = loop.from
        BY <2>1
      <3> HIDE DEF f
      <3>3. QED  BY <3>1, <3>2
    <2>3. CASE GuardLocks
      <3> DEFINE f == [loop \in loops |->
                         IF loop.status = "active"
                           THEN [loop EXCEPT !.status = "unwinding"] ELSE loop]
      <3>1. loops' = {f[loop] : loop \in loops}
        BY <2>3 DEF GuardLocks
      <3>2. \A loop \in loops : /\ f[loop].id = loop.id
                                /\ f[loop].receipt = loop.receipt
                                /\ f[loop].from = loop.from
        BY <2>1
      <3> HIDE DEF f
      <3>3. QED  BY <3>1, <3>2
    <2>4. QED  BY <2>2, <2>3
  <1>3. LoopsAreBacked'
    BY <1>1, <1>2, LoopsStayBacked DEF BackedInv
  <1>4. SeenInv' /\ ShapesInv' /\ SoundInv' /\ ExecutorsInv'
    BY <1>1 DEF BackedInv, SeenInv, ShapesInv, SoundInv, ExecutorsInv, BehindExecutor, Landed, Busy
  <1>5. QED  BY <1>3, <1>4 DEF BackedInv

\* Others may take a position away; that it stood stays.
LEMMA OthersMoveBacked ==
  ASSUME PipeInv, BackedInv, NEW p \in Protocols, NEW asset \in Assets, OthersMove(p, asset)
  PROVE  BackedInv'
  <1>1. UNCHANGED <<dryRun, proposals, plans, loops, receipts, position, reading, draft, job, landed>>
    BY DEF OthersMove, ledgerVars
  <1>2. chain \in [Protocols -> SUBSET Assets] /\ stood \in [Protocols -> SUBSET Assets]
    BY StepFacts
  <1>3. /\ \A q \in Protocols : stood[q] \subseteq stood'[q]
        /\ \A q \in Protocols : chain[q] \subseteq stood[q] => chain'[q] \subseteq stood'[q]
    BY <1>2 DEF OthersMove
  <1>4. LoopsAreBacked'
    BY <1>1, <1>3, LoopsStayBacked DEF BackedInv
  <1>5. SeenInv'
    BY <1>1, <1>3 DEF BackedInv, SeenInv
  <1>6. ShapesInv' /\ SoundInv' /\ ExecutorsInv'
    BY <1>1 DEF BackedInv, ShapesInv, SoundInv, ExecutorsInv, BehindExecutor, Landed, Busy
  <1>7. QED  BY <1>4, <1>5, <1>6 DEF BackedInv

LEMMA NextBacked ==
  MaxMain <= 1 /\ PipeLegsInv /\ BackedInv /\ [PipeNext]_pipeVars => BackedInv'
  <1> SUFFICES ASSUME MaxMain <= 1, PipeInv, LegsInv, BackedInv, [PipeNext]_pipeVars
               PROVE  BackedInv'
    BY DEF PipeLegsInv
  <1>1. ASSUME NEW s \in Slots, ExecutorNext(s)
        PROVE  BackedInv'
    BY <1>1, ClaimBacked, GateBacked, SubmitLegBacked, RecordBacked DEF ExecutorNext
  <1>2. CASE ProposeNext
    BY <1>2, ObserversBacked, ProposersBacked DEF ProposeNext
  <1>3. CASE UNCHANGED pipeVars
    BY <1>3, BackedFrame DEF pipeVars
  <1>4. QED
    BY <1>1, <1>2, <1>3, ObserversBacked, ProposersBacked, CoordinatorBacked, ClaimLapsesBacked,
       RecordBacked, GuardBacked, OthersMoveBacked, SharedPairs
    DEF PipeNext

\* A loop the ledger of a live run shows was opened for its plan, by an executor
\* both of whose legs landed, or the coordinator concluded it after the claim lapsed
\* (executionAppearsOnChain), and then debt and target have stood on chain, whatever
\* crashed and whatever others moved.
THEOREM LoopsAreOpened == MaxMain <= 1 => (PipeSpec => []LoopsAreBacked)
  <1> SUFFICES ASSUME MaxMain <= 1
               PROVE  PipeSpec => []LoopsAreBacked
    OBVIOUS
  <1> DEFINE Inv == PipeLegsInv /\ BackedInv
  <1>1. Inv => LoopsAreBacked
    BY DEF BackedInv
  <1>2. PipeInit => Inv
    BY PipeLegsInductive, InitBacked
  <1>3. Inv /\ [PipeNext]_pipeVars => Inv'
    BY PipeLegsInductive, NextBacked
  <1> HIDE DEF Inv
  <1>4. QED  BY <1>1, <1>2, <1>3, PTL DEF PipeSpec
-----------------------------------------------------------------------------
(* A plan of a dry run has one outcome.  Slots are concurrent calls, and no *)
(* two of them bear the same actor and runId.                              *)

RunsApart == \A s, t \in Slots : RunOf[s] = RunOf[t] => s = t

\* A receipt or a loop bears the id.
Settled(id) == \/ \E r \in receipts : r.id = id
               \/ \E l \in loops : l.id = id

\* The plan of the id is closed, its proposal no longer waits, and no executor
\* that still holds it passes for its owner.
Behind(id) ==
    /\ Started(id)
    /\ draft # None => draft.id # id
    /\ \A i \in DOMAIN proposals : proposals[i].id = id => proposals[i].status # "open"
    /\ \A i \in DOMAIN plans : plans[i].id = id =>
          /\ ~Open(plans[i])
          /\ \A s \in Slots : Busy(s) /\ Held(s) = id => plans[i].run # RunOf[s]

OneOutcome ==
    /\ \A r, q \in receipts : r.id = q.id => r = q
    /\ \A l, k \in loops : l.id = k.id => l = k

OutcomesInv == dryRun => OneOutcome /\ \A id : Settled(id) => Behind(id)

LEMMA InitOutcomes == PipeInit => OutcomesInv
  BY DEF PipeInit, OutcomesInv, OneOutcome, Settled

LEMMA SettledIds ==
  ASSUME PipeInv, NEW id, Settled(id)
  PROVE  id \in ProposalId
  BY DEF PipeInv, PipeTypeOK, Settled, Receipt, Loop

\* Steps that propose, promote and settle nothing and claim for nobody.
LEMMA OutcomesFrame ==
  ASSUME OutcomesInv, dryRun' = dryRun,
         dryRun => OneOutcome', \A id : Settled(id)' => Settled(id),
         \A id : Started(id) => Started(id)',
         draft' \in {draft, None},
         \A i \in DOMAIN proposals' : proposals'[i].status = "open" =>
            \E k \in DOMAIN proposals :
               proposals'[i].id = proposals[k].id /\ proposals[k].status = "open",
         \A i \in DOMAIN plans' : \E k \in DOMAIN plans :
            /\ plans'[i].id = plans[k].id /\ plans'[i].run = plans[k].run
            /\ Open(plans'[i]) => Open(plans[k]),
         \A s \in Slots : job'[s].pc # "idle" => Busy(s) /\ job'[s].proposal = job[s].proposal
  PROVE  OutcomesInv'
  <1>1. ASSUME dryRun, NEW id, Settled(id)'
        PROVE  Behind(id)'
    <2>1. Behind(id)
      BY <1>1 DEF OutcomesInv
    <2>2. \A i \in DOMAIN proposals' : proposals'[i].id = id => proposals'[i].status # "open"
      BY <2>1 DEF Behind
    <2>3. \A i \in DOMAIN plans' : plans'[i].id = id =>
             /\ ~Open(plans'[i])
             /\ \A s \in Slots : job'[s].pc # "idle" /\ job'[s].proposal.id = id =>
                   plans'[i].run # RunOf[s]
      BY <2>1 DEF Behind, Held
    <2>4. Started(id)' /\ (draft' # None => draft'.id # id)
      BY <2>1 DEF Behind
    <2>5. QED  BY <2>2, <2>3, <2>4 DEF Behind, Busy, Held, Open
  <1>2. QED  BY <1>1 DEF OutcomesInv

LEMMA SameOutcomes ==
  ASSUME OutcomesInv, UNCHANGED <<receipts, loops>>
  PROVE  (dryRun => OneOutcome') /\ \A id : Settled(id)' => Settled(id)
  BY DEF OutcomesInv, OneOutcome, Settled

LEMMA QuietOutcomes ==
  ASSUME PipeInv, OutcomesInv,
         RateScout \/ PositionWrite \/ AgeNext \/ GuardClears \/ GuardLocks
         \/ (\E unread \in SUBSET Unreliable, critical \in SUBSET Risky :
               PositionRead(unread, critical))
  PROVE  OutcomesInv'
  <1>1. UNCHANGED <<dryRun, proposals, plans, draft, job, receipts, counts>>
    BY DEF RateScout, PositionWrite, GuardClears, GuardLocks, AgeNext, Age, PositionRead, ledgerVars
  <1>2. (dryRun => OneOutcome') /\ \A id : Settled(id)' => Settled(id)
    <2>1. CASE GuardClears \/ GuardLocks
      <3>1. ASSUME NEW loop \in loops, NEW st \in {"opening", "active", "unwinding"}
            PROVE  [loop EXCEPT !.status = st].id = loop.id
        BY DEF PipeInv, PipeTypeOK, Loop
      <3>2. PICK f : /\ loops' = {f[loop] : loop \in loops}
                     /\ \A loop \in loops : f[loop].id = loop.id
        <4>1. CASE GuardClears
          <5> DEFINE f == [loop \in loops |->
                             IF loop.status = "unwinding" /\ loop.from \in locked
                               THEN [loop EXCEPT !.status = "active"] ELSE loop]
          <5>1. loops' = {f[loop] : loop \in loops}
            BY <4>1 DEF GuardClears
          <5>2. \A loop \in loops : f[loop].id = loop.id
            BY <3>1
          <5> HIDE DEF f
          <5>3. QED  BY <5>1, <5>2
        <4>2. CASE GuardLocks
          <5> DEFINE f == [loop \in loops |->
                             IF loop.status = "active"
                               THEN [loop EXCEPT !.status = "unwinding"] ELSE loop]
          <5>1. loops' = {f[loop] : loop \in loops}
            BY <4>2 DEF GuardLocks
          <5>2. \A loop \in loops : f[loop].id = loop.id
            BY <3>1
          <5> HIDE DEF f
          <5>3. QED  BY <5>1, <5>2
        <4>3. QED  BY <2>1, <4>1, <4>2
      <3>3. QED  BY <1>1, <3>2 DEF OutcomesInv, OneOutcome, Settled
    <2>2. CASE loops' = loops
      BY <1>1, <2>2, SameOutcomes
    <2>3. QED
      BY <2>1, <2>2 DEF RateScout, PositionWrite, AgeNext, Age, PositionRead, ledgerVars
  <1>3. \A id : Started(id) => Started(id)'
    BY <1>1 DEF Started
  <1>4. QED  BY <1>1, <1>2, <1>3, OutcomesFrame DEF Busy, Open

LEMMA OthersMoveOutcomes ==
  ASSUME PipeInv, OutcomesInv, NEW p, NEW asset, OthersMove(p, asset)
  PROVE  OutcomesInv'
  <1>1. UNCHANGED <<dryRun, proposals, plans, draft, job, receipts, loops>>
    BY DEF OthersMove, ledgerVars
  <1>2. counts'.runs = counts.runs /\ counts'.main = counts.main
    BY DEF OthersMove, PipeInv, PipeTypeOK
  <1>3. (dryRun => OneOutcome') /\ \A id : Settled(id)' => Settled(id)
    BY <1>1, SameOutcomes
  <1>4. \A id : Started(id) => Started(id)'
    BY <1>2 DEF Started
  <1>5. QED  BY <1>1, <1>3, <1>4, OutcomesFrame DEF Busy, Open

LEMMA StrategistBuildOutcomes ==
  ASSUME PipeInv, OutcomesInv, NEW shape \in Shapes, StrategistBuild(shape)
  PROVE  OutcomesInv'
  <1>1. /\ draft'.id = <<counts.runs + 1, Len(proposals)>>
        /\ counts'.runs = counts.runs + 1 /\ counts'.main = counts.main
        /\ counts.runs \in Nat /\ counts.main \in Nat
        /\ UNCHANGED <<dryRun, proposals, plans, receipts, loops, job>>
    BY DEF StrategistBuild, Build, ledgerVars, PipeInv, PipeTypeOK
  <1>2. draft'.id[1] = counts.runs + 1 /\ counts.runs + 1 # MainRun
    BY <1>1, PipelineAssumption
  <1>3. ASSUME NEW id \in ProposalId, Started(id)
        PROVE  Started(id)' /\ id # draft'.id
    <2>1. id[1] # MainRun => id[1] \in Nat
      BY DEF ProposalId, Runs
    <2>2. QED  BY <1>1, <1>2, <1>3, <2>1 DEF Started
  <1>4. (dryRun => OneOutcome') /\ \A id : Settled(id)' => Settled(id)
    BY <1>1, SameOutcomes
  <1>5. ASSUME dryRun, NEW id, Settled(id)
        PROVE  Behind(id)'
    <2>1. Behind(id) /\ id \in ProposalId
      BY <1>5, SettledIds DEF OutcomesInv
    <2>2. QED  BY <1>1, <1>3, <2>1 DEF Behind, Busy, Held, Open
  <1>6. QED  BY <1>1, <1>4, <1>5 DEF OutcomesInv

LEMMA InsertOutcomes ==
  ASSUME PipeInv, OutcomesInv, NEW p \in Proposal, Insert(p),
         dryRun => ~Settled(p.id), \A id : Started(id) => Started(id)',
         UNCHANGED <<dryRun, plans, receipts, loops, job>>,
         draft' \in {draft, None}
  PROVE  OutcomesInv'
  <1>1. \A i \in DOMAIN proposals' :
           \/ proposals'[i].id = p.id
           \/ \E k \in DOMAIN proposals : proposals'[i] = proposals[k]
    BY InsertShape
  <1>2. (dryRun => OneOutcome') /\ \A id : Settled(id)' => Settled(id)
    BY SameOutcomes
  <1>3. ASSUME dryRun, NEW id, Settled(id)
        PROVE  Behind(id)'
    <2>1. Behind(id) /\ id # p.id
      BY <1>3 DEF OutcomesInv
    <2>2. \A i \in DOMAIN proposals' : proposals'[i].id = id => proposals'[i].status # "open"
      BY <1>1, <2>1 DEF Behind
    <2>3. Started(id)'
      BY <2>1 DEF Behind
    <2>4. QED  BY <2>1, <2>2, <2>3 DEF Behind, Busy, Held, Open
  <1>4. QED  BY <1>2, <1>3 DEF OutcomesInv

LEMMA ProposersOutcomes ==
  ASSUME MaxMain <= 1, PipeInv, LegsInv, OutcomesInv,
         StrategistInsert \/ (\E shape \in Shapes : MainPropose(shape))
  PROVE  OutcomesInv'
  <1>1. CASE StrategistInsert
    <2>1. /\ draft \in Proposal /\ draft # None /\ Insert(draft) /\ draft' = None
          /\ UNCHANGED <<dryRun, plans, receipts, loops, job, counts>>
      BY <1>1 DEF StrategistInsert, PipeInv, PipeTypeOK
    <2>2. \A id : Started(id) => Started(id)'
      BY <2>1 DEF Started
    <2>3. dryRun => ~Settled(draft.id)
      BY <2>1 DEF OutcomesInv, Behind
    <2>4. ASSUME NEW p \in Proposal, p = draft
          PROVE  OutcomesInv'
      BY <2>1, <2>2, <2>3, <2>4, InsertOutcomes
    <2>5. QED  BY <2>1, <2>4
  <1>2. ASSUME NEW shape \in Shapes, MainPropose(shape)
        PROVE  OutcomesInv'
    <2> DEFINE p == Build(MainRun, Len(proposals), shape)
    <2>1. p \in Proposal /\ Insert(p) /\ ~Started(p.id)
      BY <1>2, MainBuildFresh
    <2> HIDE DEF p
    <2>2. /\ UNCHANGED <<dryRun, plans, receipts, loops, draft, job>>
          /\ counts'.main = counts.main + 1 /\ counts'.runs = counts.runs
          /\ counts.main \in Nat
      BY <1>2 DEF MainPropose, PipeInv, PipeTypeOK
    <2>3. \A id : Started(id) => Started(id)'
      BY <2>2 DEF Started
    <2>4. dryRun => ~Settled(p.id)
      BY <2>1 DEF OutcomesInv, Behind
    <2>5. QED  BY <2>1, <2>2, <2>3, <2>4, InsertOutcomes
  <1>3. QED  BY <1>1, <1>2

\* The coordinator of a dry run settles nothing.
LEMMA DryCoordinator ==
  ASSUME PipeInv, dryRun
  PROVE  ReconciledReceipts = receipts /\ ReconciledLoops = loops /\ Reconciled = plans
  <1>1. \A i \in DOMAIN plans : ~Lapsed(plans[i])
    BY DEF Lapsed
  <1>2. FoundIds = {}
    BY <1>1 DEF FoundIds
  <1>3. ReconciledReceipts = receipts
    BY <1>2 DEF ReconciledReceipts
  <1>4. ReconciledLoops = loops
    BY <1>2 DEF ReconciledLoops
  <1>5. Reconciled = [i \in DOMAIN plans |-> plans[i]]
    BY <1>1 DEF Reconciled
  <1>6. QED  BY <1>3, <1>4, <1>5, JobFacts

LEMMA CoordinatorOutcomes ==
  ASSUME PipeInv, LegsInv, OutcomesInv, Coordinator
  PROVE  OutcomesInv'
  <1>1. /\ UNCHANGED <<dryRun, draft, job, counts>>
        /\ DOMAIN proposals' = DOMAIN proposals
        /\ \A i \in DOMAIN proposals :
              /\ proposals'[i].id = proposals[i].id
              /\ proposals'[i].status = "open" => proposals[i].status = "open"
        /\ receipts' = ReconciledReceipts /\ loops' = ReconciledLoops
    BY CoordinatorEffect DEF Coordinator
  <1>2. \A id : Started(id) => Started(id)'
    BY <1>1 DEF Started
  <1>3. SUFFICES ASSUME dryRun
                 PROVE  OneOutcome' /\ \A id : Settled(id)' => Behind(id)'
    BY <1>1 DEF OutcomesInv
  <1>4. receipts' = receipts /\ loops' = loops /\ Reconciled = plans
    BY <1>1, <1>3, DryCoordinator
  <1>5. OneOutcome' /\ \A id : Settled(id)' => Settled(id)
    BY <1>3, <1>4, SameOutcomes
  <1>6. ASSUME NEW id, Settled(id)
        PROVE  Behind(id)'
    <2>1. Behind(id)
      BY <1>3, <1>6 DEF OutcomesInv
    <2>2. ASSUME NEW i \in DOMAIN plans', plans'[i].id = id
          PROVE  \E k \in DOMAIN plans : plans'[i] = plans[k]
      <3>1. CASE plans' = plans
        BY <2>2, <3>1
      <3>2. ASSUME NEW first \in DOMAIN proposals, Decides(first)
            PROVE  \E k \in DOMAIN plans : plans'[i] = plans[k]
        <4>1. i # 1
          BY <2>1, <2>2, <3>2 DEF Decides, Behind
        <4>2. QED  BY <1>4, <2>2, <3>2, <4>1 DEF Decides
      <3>3. QED  BY <1>4, <3>1, <3>2, CoordinatorEffect
    <2>3. \A i \in DOMAIN plans' : plans'[i].id = id =>
             /\ ~Open(plans'[i])
             /\ \A s \in Slots : Busy(s) /\ Held(s) = id => plans'[i].run # RunOf[s]
      BY <2>1, <2>2 DEF Behind
    <2>4. Started(id)' /\ (draft' # None => draft'.id # id)
      BY <1>1, <1>2, <2>1 DEF Behind
    <2>5. \A i \in DOMAIN proposals' : proposals'[i].id = id => proposals'[i].status # "open"
      BY <1>1, <2>1 DEF Behind
    <2>6. QED  BY <1>1, <2>3, <2>4, <2>5 DEF Behind, Busy, Held, Open
  <1>7. QED  BY <1>5, <1>6

LEMMA ClaimLapsesOutcomes ==
  ASSUME PipeInv, OutcomesInv, NEW i \in DOMAIN plans, ClaimLapses(i)
  PROVE  OutcomesInv'
  <1> DEFINE lapsed == [plans[i] EXCEPT !.lapsed = TRUE]
  <1>1. lapsed.id = plans[i].id /\ lapsed.run = plans[i].run /\ lapsed.status = plans[i].status
    BY JobFacts DEF Plan
  <1>2. plans' = [plans EXCEPT ![i] = lapsed]
        /\ UNCHANGED <<dryRun, proposals, receipts, loops, draft, job, counts>>
    BY DEF ClaimLapses
  <1> HIDE DEF lapsed
  <1>3. \A n \in DOMAIN plans' : \E k \in DOMAIN plans :
           /\ plans'[n].id = plans[k].id /\ plans'[n].run = plans[k].run
           /\ Open(plans'[n]) => Open(plans[k])
    BY <1>1, <1>2, JobFacts DEF Open
  <1>4. \A id : Started(id) => Started(id)'
    BY <1>2 DEF Started
  <1>5. (dryRun => OneOutcome') /\ \A id : Settled(id)' => Settled(id)
    BY <1>2, SameOutcomes
  <1>6. QED  BY <1>2, <1>3, <1>4, <1>5, OutcomesFrame DEF Busy

LEMMA ClaimOutcomes ==
  ASSUME PipeInv, OutcomesInv, NEW s \in Slots, NEW i \in DOMAIN plans, Claim(s, i)
  PROVE  OutcomesInv'
  <1>1. UNCHANGED <<dryRun, proposals, receipts, loops, draft, counts>>
    BY DEF Claim
  <1>2. \A id : Started(id) => Started(id)'
    BY <1>1 DEF Started
  <1>3. (dryRun => OneOutcome') /\ \A id : Settled(id)' => Settled(id)
    BY <1>1, SameOutcomes
  <1>4. Open(plans[i])
    BY DEF Claim, Candidate, Claimable, Open
  <1>5. CASE ~HasProposal(plans[i])
    <2> DEFINE closed == [plans[i] EXCEPT !.status = "failed"]
    <2>1. closed.id = plans[i].id /\ closed.run = plans[i].run /\ closed.status = "failed"
      BY JobFacts, PlanStatusFields
    <2>2. plans' = [plans EXCEPT ![i] = closed] /\ job' = job
      BY <1>5 DEF Claim
    <2> HIDE DEF closed
    <2>3. \A n \in DOMAIN plans' : \E k \in DOMAIN plans :
             /\ plans'[n].id = plans[k].id /\ plans'[n].run = plans[k].run
             /\ Open(plans'[n]) => Open(plans[k])
      BY <2>1, <2>2, JobFacts DEF Open
    <2>4. QED  BY <1>1, <1>2, <1>3, <2>2, <2>3, OutcomesFrame DEF Busy
  <1>6. CASE HasProposal(plans[i])
    <2> DEFINE mine == [id |-> plans[i].id, status |-> "executing", lapsed |-> FALSE,
                        run |-> RunOf[s]]
               held == [pc |-> "claimed", failed |-> FALSE, proposal |-> ProposalOf(plans[i])]
    <2>1. mine.id = plans[i].id /\ held.proposal.id = plans[i].id
      BY <1>6, ProposalOfId
    <2>2. plans' = [plans EXCEPT ![i] = mine] /\ job' = [job EXCEPT ![s] = held]
      BY <1>6 DEF Claim
    <2> HIDE DEF mine, held
    <2>3. /\ DOMAIN plans' = DOMAIN plans
          /\ \A k \in DOMAIN plans : IF k = i THEN plans'[k].id = plans[i].id
                                              ELSE plans'[k] = plans[k]
          /\ job'[s].proposal.id = plans[i].id
          /\ \A w \in Slots : w # s => job'[w] = job[w]
      BY <2>1, <2>2, JobFacts
    <2>4. ASSUME dryRun, NEW id, Settled(id)
          PROVE  Behind(id)'
      <3>1. Behind(id) /\ id # plans[i].id
        BY <1>4, <2>4 DEF OutcomesInv, Behind
      <3>2. \A k \in DOMAIN plans' : plans'[k].id = id =>
               /\ ~Open(plans'[k])
               /\ \A w \in Slots : job'[w].pc # "idle" /\ job'[w].proposal.id = id =>
                     plans'[k].run # RunOf[w]
        BY <2>3, <3>1 DEF Behind, Busy, Held
      <3>3. Started(id)' /\ (draft' # None => draft'.id # id)
            /\ \A k \in DOMAIN proposals' : proposals'[k].id = id => proposals'[k].status # "open"
        BY <1>1, <1>2, <3>1 DEF Behind
      <3>4. QED  BY <3>2, <3>3 DEF Behind, Busy, Held, Open
    <2>5. QED  BY <1>1, <1>3, <2>4 DEF OutcomesInv
  <1>7. QED  BY <1>5, <1>6

LEMMA StepsOnOutcomes ==
  ASSUME PipeInv, LegsInv, OutcomesInv, NEW s \in Slots,
         Gate(s) \/ Crash(s) \/ RecordDenied(s)
         \/ (\E lands, throws \in BOOLEAN : SubmitLeg(s, lands, throws))
  PROVE  OutcomesInv'
  <1>1. /\ UNCHANGED <<dryRun, proposals, receipts, loops, draft>>
        /\ counts'.main = counts.main /\ counts'.runs = counts.runs
    BY DEF Gate, Crash, RecordDenied, SubmitLeg, ledgerVars, PipeInv, PipeTypeOK
  <1>2. \A id : Started(id) => Started(id)'
    BY <1>1 DEF Started
  <1>3. (dryRun => OneOutcome') /\ \A id : Settled(id)' => Settled(id)
    BY <1>1, SameOutcomes
  <1>4. \A i \in DOMAIN plans' : \E k \in DOMAIN plans :
           /\ plans'[i].id = plans[k].id /\ plans'[i].run = plans[k].run
           /\ Open(plans'[i]) => Open(plans[k])
    <2>1. CASE RecordDenied(s)
      BY <2>1, CloseMineIds DEF RecordDenied, Open
    <2>2. CASE plans' = plans
      BY <2>2
    <2>3. QED  BY <2>1, <2>2 DEF Gate, Crash, SubmitLeg, ledgerVars
  <1>5. \A w \in Slots : job'[w].pc # "idle" => Busy(w) /\ job'[w].proposal = job[w].proposal
    <2>1. PICK next : /\ job' = [job EXCEPT ![s] = next]
                      /\ next.pc # "idle" => Busy(s) /\ next.proposal = job[s].proposal
      <3>1. CASE Gate(s)
        <4> DEFINE to == CASE ~Valid(job[s].proposal, loops, locked) -> "denied"
                           [] Valid(job[s].proposal, loops, locked) /\ dryRun -> "finish"
                           [] OTHER -> IF job[s].proposal.shape.fresh THEN "supply" ELSE "borrow"
                   next == [job[s] EXCEPT !.pc = to]
        <4>1. job' = [job EXCEPT ![s] = next] /\ Busy(s)
          BY <3>1 DEF Gate, Busy
        <4>2. next.proposal = job[s].proposal
          BY JobFacts DEF Job
        <4> HIDE DEF next
        <4>3. QED  BY <4>1, <4>2
      <3>2. CASE Crash(s) \/ RecordDenied(s)
        BY <3>2, JobFacts DEF Crash, RecordDenied
      <3>3. ASSUME NEW lands \in BOOLEAN, NEW throws \in BOOLEAN, SubmitLeg(s, lands, throws)
            PROVE  \E next : /\ job' = [job EXCEPT ![s] = next]
                             /\ next.pc # "idle" => Busy(s) /\ next.proposal = job[s].proposal
        <4> DEFINE next == [pc |-> IF throws THEN "finish" ELSE After(job[s].pc),
                            proposal |-> job[s].proposal, failed |-> throws]
        <4>1. job' = [job EXCEPT ![s] = next] /\ Busy(s)
          BY <3>3, Zenon DEF SubmitLeg, Busy
        <4>2. next.proposal = job[s].proposal
          OBVIOUS
        <4> HIDE DEF next
        <4>3. QED  BY <4>1, <4>2
      <3>4. QED  BY <3>1, <3>2, <3>3
    <2>2. job'[s] = next /\ \A w \in Slots : w # s => job'[w] = job[w]
      BY <2>1, JobFacts
    <2>3. QED  BY <2>1, <2>2 DEF Busy
  <1>6. QED  BY <1>1, <1>2, <1>3, <1>4, <1>5, OutcomesFrame

LEMMA RecordOutcomeOutcomes ==
  ASSUME RunsApart, PipeInv, LegsInv, OutcomesInv, NEW s \in Slots, RecordOutcome(s)
  PROVE  OutcomesInv'
  <1> DEFINE outcome == IF job[s].failed THEN "failed" ELSE "executed"
             receipt == [id |-> Held(s), receipt |-> NextReceipt, reconciled |-> FALSE,
                         status |-> IF job[s].failed THEN "failed"
                                    ELSE IF dryRun THEN "planned" ELSE "confirmed"]
             loop == [id |-> Held(s), receipt |-> NextReceipt, from |-> job[s].proposal.shape.from,
                      status |-> IF dryRun THEN "opening" ELSE "active"]
  <1>1. /\ job[s].pc = "finish"
        /\ plans' = [i \in DOMAIN plans |->
                       IF i \in Mine(s) THEN [plans[i] EXCEPT !.status = outcome] ELSE plans[i]]
        /\ receipts' = IF Mine(s) # {} THEN receipts \cup {receipt} ELSE receipts
        /\ loops' = IF Mine(s) # {} /\ ~job[s].failed THEN loops \cup {loop} ELSE loops
        /\ job' = [job EXCEPT ![s] = Idle]
        /\ UNCHANGED <<dryRun, proposals, draft, counts>>
    BY Zenon DEF RecordOutcome, Held
  <1>2. outcome \in {"executed", "failed"} /\ receipt.id = Held(s) /\ loop.id = Held(s)
    OBVIOUS
  <1> HIDE DEF outcome, receipt, loop
  <1>3. /\ DOMAIN plans' = DOMAIN plans
        /\ \A i \in DOMAIN plans :
              /\ plans'[i].id = plans[i].id /\ plans'[i].run = plans[i].run
              /\ plans'[i].status = IF i \in Mine(s) THEN outcome ELSE plans[i].status
    BY <1>1, <1>2, CloseMineIds
  <1>4. /\ Busy(s) /\ job'[s].pc = "idle"
        /\ \A w \in Slots : w # s => job'[w] = job[w]
    BY <1>1, JobFacts DEF Busy
  <1>5. \A id : Started(id) => Started(id)'
    BY <1>1 DEF Started
  <1>6. CASE Mine(s) = {}
    <2>1. (dryRun => OneOutcome') /\ \A id : Settled(id)' => Settled(id)
      BY <1>1, <1>6, SameOutcomes
    <2>2. \A i \in DOMAIN plans' : \E k \in DOMAIN plans :
             /\ plans'[i].id = plans[k].id /\ plans'[i].run = plans[k].run
             /\ Open(plans'[i]) => Open(plans[k])
      BY <1>3, <1>6 DEF Open
    <2>3. \A w \in Slots : job'[w].pc # "idle" => Busy(w) /\ job'[w].proposal = job[w].proposal
      BY <1>4 DEF Busy
    <2>4. QED  BY <1>1, <1>5, <2>1, <2>2, <2>3, OutcomesFrame
  <1>7. CASE Mine(s) # {}
    <2>1. PICK m \in DOMAIN plans : /\ m \in Mine(s) /\ plans[m].id = Held(s)
                                    /\ plans[m].run = RunOf[s]
      BY <1>7 DEF Mine, Held
    <2>2. \A i \in DOMAIN plans : plans[i].id = Held(s) => i = m
      BY <2>1 DEF LegsInv, DecidedOnce
    <2>3. dryRun => ~Settled(Held(s))
      BY <1>4, <2>1 DEF OutcomesInv, Behind
    <2>4. ASSUME dryRun PROVE OneOutcome'
      BY <1>1, <1>2, <2>3, <2>4 DEF OutcomesInv, OneOutcome, Settled
    <2>5. \A id : Settled(id)' => Settled(id) \/ id = Held(s)
      BY <1>1, <1>2 DEF Settled
    <2>6. ASSUME dryRun, NEW id, Settled(id)'
          PROVE  Behind(id)'
      <3>1. CASE id = Held(s)
        <4>1. ~(draft # None /\ draft.id = id) /\ Started(id)
          BY <1>4, <3>1 DEF LegsInv, DraftInv, TouchedInv, Touched
        <4>2. \A i \in DOMAIN proposals : proposals[i].id = id => proposals[i].status # "open"
          BY <1>4, <3>1 DEF LegsInv, QueueInv, Touched
        <4>3. \A i \in DOMAIN plans' : plans'[i].id = id =>
                 /\ ~Open(plans'[i])
                 /\ \A w \in Slots : job'[w].pc # "idle" => plans'[i].run # RunOf[w]
          BY <1>2, <1>3, <1>4, <2>1, <2>2, <3>1 DEF Open, RunsApart
        <4>4. QED  BY <1>1, <1>5, <4>1, <4>2, <4>3 DEF Behind, Busy, Held, Open
      <3>2. CASE id # Held(s)
        <4>1. Behind(id)
          BY <2>5, <2>6, <3>2 DEF OutcomesInv
        <4>2. \A i \in DOMAIN plans' : plans'[i].id = id =>
                 /\ ~Open(plans'[i])
                 /\ \A w \in Slots : job'[w].pc # "idle" /\ job'[w].proposal.id = id =>
                       plans'[i].run # RunOf[w]
          <5>1. \A i \in DOMAIN plans : plans[i].id = id => i \notin Mine(s)
            BY <3>2 DEF Mine, Held
          <5>2. QED  BY <1>3, <1>4, <4>1, <5>1 DEF Behind, Busy, Held, Open
        <4>3. QED  BY <1>1, <1>5, <4>1, <4>2 DEF Behind, Busy, Held, Open
      <3>3. QED  BY <3>1, <3>2
    <2>7. QED  BY <1>1, <2>4, <2>6 DEF OutcomesInv
  <1>8. QED  BY <1>6, <1>7

LEMMA NextOutcomes ==
  /\ RunsApart /\ MaxMain <= 1
  /\ PipeLegsInv /\ OutcomesInv /\ [PipeNext]_pipeVars
  => OutcomesInv'
  <1> SUFFICES ASSUME RunsApart, MaxMain <= 1, PipeInv, LegsInv, OutcomesInv,
                      [PipeNext]_pipeVars
               PROVE  OutcomesInv'
    BY DEF PipeLegsInv
  <1>1. ASSUME NEW s \in Slots, ExecutorNext(s)
        PROVE  OutcomesInv'
    BY <1>1, ClaimOutcomes, StepsOnOutcomes, RecordOutcomeOutcomes DEF ExecutorNext
  <1>2. CASE ProposeNext
    BY <1>2, StrategistBuildOutcomes, ProposersOutcomes DEF ProposeNext
  <1>3. CASE UNCHANGED pipeVars
    BY <1>3 DEF pipeVars, OutcomesInv, OneOutcome, Settled, Behind, Started, Busy, Held, Open
  <1>4. QED
    BY <1>1, <1>2, <1>3, QuietOutcomes, ProposersOutcomes, CoordinatorOutcomes,
       ClaimLapsesOutcomes, StepsOnOutcomes, OthersMoveOutcomes
    DEF PipeNext

\* However claims of a dry run lapse and are taken over, and however late the
\* first executor comes back, a plan gets one receipt and one loop: only the run
\* that claimed it last may record (the claimedBy and executorRunId guard).
THEOREM OneOutcomePerPlan == RunsApart /\ MaxMain <= 1 => (PipeSpec => []OneReceiptPerPlan)
  <1> SUFFICES ASSUME RunsApart, MaxMain <= 1
               PROVE  PipeSpec => []OneReceiptPerPlan
    OBVIOUS
  <1> DEFINE Inv == PipeLegsInv /\ OutcomesInv
  <1>1. Inv => OneReceiptPerPlan
    BY DEF OutcomesInv, OneOutcome, OneReceiptPerPlan
  <1>2. PipeInit => Inv
    BY PipeLegsInductive, InitOutcomes
  <1>3. Inv /\ [PipeNext]_pipeVars => Inv'
    BY PipeLegsInductive, NextOutcomes
  <1> HIDE DEF Inv
  <1>4. QED  BY <1>1, <1>2, <1>3, PTL DEF PipeSpec
=============================================================================
