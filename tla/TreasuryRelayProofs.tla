------------------------- MODULE TreasuryRelayProofs -------------------------
(***************************************************************************)
(* Theorems about TreasuryRelay, for any calls, deployments and clocks:    *)
(* its state keeps its types, one budget is spent once, a reported digest  *)
(* stands for its legs, and a promised budget is honoured.                 *)
(*                                                                         *)
(* The argument keeps an account of every read: what was released since    *)
(* the treasury was read is what its funds have lost, and what the window  *)
(* has gained while it is the same window.  Landing is an induction along  *)
(* the legs of a transaction; what the solver makes of the budget plays no *)
(* part in it.                                                             *)
(***************************************************************************)
EXTENDS TreasuryRelay, AllocationProofs

\* A record with the fields of a call.
Fields == {"pc", "budget", "seen", "curves", "at", "cap", "minPosition", "legs", "expiresAt", "tx",
           "report"}

IsCall(r) == r = [f \in Fields |-> r[f]]

\* So is the call that has not begun.
LEMMA IdleIsCall == IsCall(Idle)
  BY DEF Idle, IsCall, Fields

\* A report changes nothing else of a call.
LEMMA CallDone ==
  ASSUME NEW r, IsCall(r), NEW x
  PROVE  LET s == [r EXCEPT !.pc = "done", !.report = x]
         IN  /\ IsCall(s) /\ s.pc = "done" /\ s.report = x /\ s.budget = r.budget /\ s.seen = r.seen
             /\ s.tx = r.tx /\ s.legs = r.legs /\ s.cap = r.cap /\ s.expiresAt = r.expiresAt
  BY DEF IsCall, Fields

-----------------------------------------------------------------------------
(* Induction along the legs of a transaction. *)

\* f tells what the treasury is after each of the first n legs.
RunsLegs(f, n, legs, expiresAt) ==
    f = [k \in 0..n |-> IF k = 0 THEN vault ELSE AfterLeg(f[k - 1], legs[k], expiresAt)]

\* The recursion of Executed is well defined.
LEMMA LegsRun ==
  ASSUME NEW legs, Len(legs) \in Nat, NEW e
  PROVE  \E f : RunsLegs(f, Len(legs), legs, e) /\ Executed(legs, e) = f[Len(legs)]
  <1> DEFINE P == {k \in Nat : \E f : RunsLegs(f, k, legs, e)}
  <1>1. 0 \in P
    <2>1. RunsLegs([k \in 0..0 |-> vault], 0, legs, e)
      BY DEF RunsLegs
    <2>2. QED  BY <2>1
  <1>2. ASSUME NEW k \in 0..(Len(legs) - 1), k \in P
        PROVE  k + 1 \in P
    <2>1. PICK f : RunsLegs(f, k, legs, e)
      BY <1>2
    <2> DEFINE g == [j \in 0..(k + 1) |->
                       IF j = k + 1 THEN AfterLeg(f[k], legs[k + 1], e) ELSE f[j]]
    <2>2. ASSUME NEW j \in 0..(k + 1)
          PROVE  g[j] = IF j = 0 THEN vault ELSE AfterLeg(g[j - 1], legs[j], e)
      <3>1. CASE j = k + 1
        <4>1. g[k] = f[k] /\ j - 1 = k /\ j # 0
          BY <3>1
        <4>2. QED  BY <3>1, <4>1
      <3>2. CASE j # k + 1
        <4>1. j \in 0..k /\ g[j] = f[j]
          BY <3>2
        <4>2. f[j] = IF j = 0 THEN vault ELSE AfterLeg(f[j - 1], legs[j], e)
          BY <2>1, <4>1 DEF RunsLegs
        <4>3. j # 0 => g[j - 1] = f[j - 1]
          BY <4>1
        <4>4. QED  BY <4>1, <4>2, <4>3
      <3>3. QED  BY <3>1, <3>2
    <2>3. g = [j \in 0..(k + 1) |-> g[j]]
      OBVIOUS
    <2>4. RunsLegs(g, k + 1, legs, e)
      <3> HIDE DEF g
      <3>1. QED  BY <2>2, <2>3 DEF RunsLegs
    <2>5. QED  BY <2>4
  <1>3. Len(legs) \in P
    <2> HIDE DEF P
    <2>1. 0..Len(legs) \subseteq P
      BY <1>1, <1>2, UpTo
    <2>2. QED  BY <2>1
  <1>4. Executed(legs, e) = (CHOOSE f : RunsLegs(f, Len(legs), legs, e))[Len(legs)]
    BY DEF Executed, RunsLegs
  <1>5. QED  BY <1>3, <1>4

-----------------------------------------------------------------------------
(* The books of the treasury, and the account of one read of it. *)

\* One release, and what was released since the treasury was read.
Entry == [call : Calls, nonce : Nat, amount : Nat]

Since(seen, rel) == SumFunction([r \in {r \in rel : r.nonce > seen.lastNonce} |-> r.amount])

\* The treasury v with these releases behind it: within its window's cap, and no
\* nonce above its last.
Book(v, rel) ==
    /\ v \in VaultType /\ v.spent <= config.terms.periodCap
    /\ IsFiniteSet(rel) /\ rel \subseteq Entry
    /\ \A r \in rel : r.nonce <= v.lastNonce

\* What was released since seen is what funds and window have changed by.
Account(seen, v, rel) ==
    /\ seen \in VaultType
    /\ seen.lastNonce <= v.lastNonce /\ seen.start <= v.start
    /\ others = 0 => Since(seen, rel) = seen.funds - v.funds
    /\ (config.terms.periodMs > 0 /\ v.start = seen.start) =>
          Since(seen, rel) = v.spent - seen.spent

\* What the deployment and the clock are.
ConfigTyped == clock \in Nat /\ config.funds \in Nat /\ config.skew \in Int /\ config.terms \in TermsType

\* One release more.
LEMMA SinceMore ==
  ASSUME NEW rel, IsFiniteSet(rel), rel \subseteq Entry, NEW x \in Entry, x \notin rel,
         NEW seen \in VaultType, x.nonce > seen.lastNonce
  PROVE  /\ Since(seen, rel) \in Int
         /\ Since(seen, rel \cup {x}) = Since(seen, rel) + x.amount
  <1> DEFINE S == {r \in rel : r.nonce > seen.lastNonce}
             T == {r \in rel \cup {x} : r.nonce > seen.lastNonce}
             g == [r \in S |-> r.amount]
             f == [r \in T |-> r.amount]
  <1>1. IsFiniteSet(S) /\ x \notin S
    BY FS_Subset
  <1>2. T = S \cup {x}
    OBVIOUS
  <1>3. f \in [S \cup {x} -> Int] /\ f[x] = x.amount /\ x.amount \in Nat
    BY <1>2 DEF Entry
  <1>4. g = [r \in S |-> f[r]]
    BY <1>2
  <1>5. Since(seen, rel) = SumFunction(g) /\ Since(seen, rel \cup {x}) = SumFunction(f)
    BY DEF Since
  <1> HIDE DEF S, T, g, f
  <1>6. SumFunction(g) \in Int /\ SumFunction(f) = f[x] + SumFunction(g)
    BY <1>1, <1>3, <1>4, SumInsert
  <1>7. QED  BY <1>3, <1>5, <1>6

\* No release since.
LEMMA SinceNothing ==
  ASSUME NEW rel, NEW seen, \A r \in rel : ~(r.nonce > seen.lastNonce)
  PROVE  Since(seen, rel) = 0
  <1> DEFINE g == [r \in {} |-> r.amount]
  <1>1. {r \in rel : r.nonce > seen.lastNonce} = {}
    OBVIOUS
  <1>2. Since(seen, rel) = SumFunction(g)
    BY <1>1 DEF Since
  <1>3. DOMAIN g = {}
    OBVIOUS
  <1> HIDE DEF g
  <1>4. SumFunction(g) = SumFunctionOnSet(g, {})
    BY <1>3 DEF SumFunction
  <1>5. QED  BY <1>2, <1>4, SumEmpty

\* A leg that verified_release lets through keeps the books.
LEMMA LegBooked ==
  ASSUME ConfigTyped, NEW v, NEW rel, Book(v, rel), NEW leg \in Intent, NEW e, NEW c \in Calls,
         LegAllowed(v, leg, e)
  PROVE  /\ Released(v, leg) \in VaultType
         /\ Book(Released(v, leg), rel \cup {ReleaseOf(c, leg)})
         /\ ReleaseOf(c, leg) \in Entry /\ ReleaseOf(c, leg) \notin rel
  <1>1. ReleaseOf(c, leg) \in Entry /\ ReleaseOf(c, leg).nonce = leg.nonce
    BY DEF ReleaseOf, Entry, Intent, U64
  <1>2. Released(v, leg) \in VaultType
    BY DEF Released, LegAllowed, Book, VaultType, TermsType, ConfigTyped, Intent, U64, WindowElapsed, WindowEnds,
           SpentBefore
  <1>3. Released(v, leg).lastNonce = leg.nonce /\ v.lastNonce < leg.nonce
    BY DEF Released, LegAllowed, Book, VaultType, Intent, U64
  <1>4. ReleaseOf(c, leg) \notin rel
    BY <1>1, <1>3 DEF Book, VaultType, Entry, Intent, U64
  <1>5. Released(v, leg).spent <= config.terms.periodCap
    BY DEF Released, LegAllowed
  <1>6. ASSUME NEW r \in rel \cup {ReleaseOf(c, leg)}
        PROVE  r.nonce <= Released(v, leg).lastNonce
    BY <1>1, <1>3 DEF Book, VaultType, Entry, Intent, U64
  <1>7. IsFiniteSet(rel \cup {ReleaseOf(c, leg)}) /\ rel \cup {ReleaseOf(c, leg)} \subseteq Entry
    BY <1>1, FS_AddElement DEF Book
  <1>8. QED  BY <1>1, <1>2, <1>4, <1>5, <1>6, <1>7 DEF Book

\* It goes into every account of an earlier read.
LEMMA LegAccounted ==
  ASSUME ConfigTyped, NEW v, NEW rel, Book(v, rel), NEW leg \in Intent, NEW e, NEW c \in Calls,
         LegAllowed(v, leg, e), NEW seen, Account(seen, v, rel)
  PROVE  Account(seen, Released(v, leg), rel \cup {ReleaseOf(c, leg)})
  <1> DEFINE w == Released(v, leg)
             x == ReleaseOf(c, leg)
  <1>1. x \in Entry /\ x.nonce = leg.nonce /\ x.amount = leg.amount /\ x \notin rel
    BY LegBooked DEF ReleaseOf
  <1>2. /\ seen \in VaultType /\ v \in VaultType
        /\ w.funds = v.funds - leg.amount /\ w.lastNonce = leg.nonce
        /\ leg.nonce > v.lastNonce /\ leg.nonce \in Nat /\ leg.amount \in Nat
        /\ seen.lastNonce <= v.lastNonce /\ seen.start <= v.start
    BY DEF Account, Book, Released, LegAllowed, Intent, U64
  <1>3. w.start >= v.start /\ w.start \in Nat
    BY <1>2 DEF Released, WindowElapsed, WindowEnds, VaultType, ConfigTyped, TermsType, U64
  <1>4. (config.terms.periodMs > 0 /\ w.start = seen.start) =>
           v.start = seen.start /\ w.spent = v.spent + leg.amount
    BY <1>2 DEF Released, WindowElapsed, WindowEnds, SpentBefore, VaultType, ConfigTyped, TermsType, U64
  <1>5. /\ Since(seen, rel) \in Int
        /\ Since(seen, rel \cup {x}) = Since(seen, rel) + leg.amount
    <2>1. x.nonce > seen.lastNonce
      BY <1>1, <1>2 DEF VaultType
    <2> HIDE DEF x
    <2>2. QED  BY <1>1, <1>2, <2>1, SinceMore DEF Book
  <1>6. seen.funds \in Nat /\ v.funds \in Nat /\ seen.spent \in Nat /\ v.spent \in Nat
        /\ v.lastNonce \in Nat /\ seen.lastNonce \in Nat /\ seen.start \in Nat /\ v.start \in Nat
    BY <1>2 DEF VaultType
  <1> HIDE DEF w, x
  <1>7. others = 0 => Since(seen, rel \cup {x}) = seen.funds - w.funds
    BY <1>2, <1>5, <1>6 DEF Account
  <1>8. ASSUME config.terms.periodMs > 0, w.start = seen.start
        PROVE  Since(seen, rel \cup {x}) = w.spent - seen.spent
    <2>1. v.start = seen.start /\ w.spent = v.spent + leg.amount
      BY <1>4, <1>8
    <2>2. Since(seen, rel) = v.spent - seen.spent
      BY <1>8, <2>1 DEF Account
    <2>3. QED  BY <1>2, <1>5, <1>6, <2>1, <2>2
  <1>9. seen.lastNonce <= w.lastNonce /\ seen.start <= w.start
    BY <1>2, <1>3, <1>6
  <1>10. QED  BY <1>2, <1>7, <1>8, <1>9 DEF Account, w, x

\* The releases once the first k legs are through.
Through(c, legs, k) ==
    releases \cup {ReleaseOf(c, legs[i]) : i \in {i \in Executable(legs) : i <= k}}

\* One leg more.
LEMMA ThroughOne ==
  ASSUME NEW c, NEW legs \in Seq(Intent), NEW k \in 0..(Len(legs) - 1)
  PROVE  Through(c, legs, k + 1) =
            IF hasRefFor(legs[k + 1]) THEN Through(c, legs, k) \cup {ReleaseOf(c, legs[k + 1])}
            ELSE Through(c, legs, k)
  <1> DEFINE E == Executable(legs)
             D(m) == {i \in E : i <= m}
  <1>1. E \subseteq 1..Len(legs) /\ \A i \in 1..Len(legs) : i \in E <=> hasRefFor(legs[i])
    BY DEF Executable
  <1>2. k + 1 \in 1..Len(legs)
    OBVIOUS
  <1>3. CASE hasRefFor(legs[k + 1])
    <2>1. k + 1 \in E
      BY <1>1, <1>2, <1>3
    <2> HIDE DEF E
    <2>2. D(k + 1) = D(k) \cup {k + 1}
      <3>1. \A i \in E : i <= k + 1 <=> (i <= k \/ i = k + 1)
        BY <1>1
      <3>2. QED  BY <2>1, <3>1
    <2> HIDE DEF D
    <2>3. {ReleaseOf(c, legs[i]) : i \in D(k + 1)} =
             {ReleaseOf(c, legs[i]) : i \in D(k)} \cup {ReleaseOf(c, legs[k + 1])}
      BY <2>2
    <2>4. QED  BY <1>3, <2>3 DEF Through, D, E
  <1>4. CASE ~hasRefFor(legs[k + 1])
    <2>1. k + 1 \notin E
      BY <1>1, <1>2, <1>4
    <2> HIDE DEF E
    <2>2. D(k + 1) = D(k)
      <3>1. \A i \in E : i <= k + 1 <=> i <= k
        BY <1>1, <2>1
      <3>2. QED  BY <3>1
    <2> HIDE DEF D
    <2>3. QED  BY <1>4, <2>2 DEF Through, D, E
  <1>5. QED  BY <1>3, <1>4

\* No leg, and all of them.
LEMMA ThroughAll ==
  ASSUME NEW c, NEW legs \in Seq(Intent)
  PROVE  /\ Through(c, legs, 0) = releases
         /\ Through(c, legs, Len(legs)) = releases \cup {ReleaseOf(c, legs[i]) : i \in Executable(legs)}
  <1> DEFINE E == Executable(legs)
  <1>1. E \subseteq 1..Len(legs) /\ Len(legs) \in Nat
    BY DEF Executable
  <1> HIDE DEF E
  <1>2. \A i \in E : i \in Int /\ ~(i <= 0) /\ i <= Len(legs)
    BY <1>1
  <1>3. {i \in E : i <= 0} = {} /\ {i \in E : i <= Len(legs)} = E
    BY <1>2
  <1>4. QED  BY <1>3 DEF Through, E

\* A transaction that goes through keeps the books and every account, whatever
\* its legs.
LEMMA Landed ==
  ASSUME ConfigTyped, Book(vault, releases), NEW legs \in Seq(Intent), NEW e, NEW c \in Calls,
         Executed(legs, e) # Aborted
  PROVE  LET rel == releases \cup {ReleaseOf(c, legs[i]) : i \in Executable(legs)}
         IN  /\ Book(Executed(legs, e), rel)
             /\ \A seen : Account(seen, vault, releases) => Account(seen, Executed(legs, e), rel)
  <1>1. PICK f : RunsLegs(f, Len(legs), legs, e) /\ Executed(legs, e) = f[Len(legs)]
    BY LegsRun
  <1> DEFINE R(k) == Through(c, legs, k)
             Q(k) == /\ Book(f[k], R(k))
                     /\ \A seen : Account(seen, vault, releases) => Account(seen, f[k], R(k))
             P == {k \in Nat : f[k] # Aborted => Q(k)}
  <1>2. 0 \in P
    <2>1. f[0] = vault /\ R(0) = releases
      BY <1>1, ThroughAll DEF RunsLegs
    <2> HIDE DEF R
    <2>2. QED  BY <2>1
  <1>3. ASSUME NEW k \in 0..(Len(legs) - 1), k \in P
        PROVE  k + 1 \in P
    <2> DEFINE leg == legs[k + 1]
    <2>1. leg \in Intent /\ k + 1 \in 0..Len(legs) /\ k + 1 # 0 /\ k + 1 - 1 = k
      OBVIOUS
    <2>2. f[k + 1] = AfterLeg(f[k], leg, e)
      BY <1>1, <2>1 DEF RunsLegs
    <2>3. R(k + 1) = IF hasRefFor(leg) THEN R(k) \cup {ReleaseOf(c, leg)} ELSE R(k)
      BY ThroughOne
    <2> HIDE DEF leg, R
    <2>4. CASE f[k + 1] = Aborted
      BY <2>4
    <2>5. CASE f[k + 1] # Aborted /\ ~hasRefFor(leg)
      <3>1. f[k + 1] = f[k] /\ R(k + 1) = R(k)
        BY <2>2, <2>3, <2>5 DEF AfterLeg
      <3>2. Q(k)
        BY <1>3, <2>5, <3>1
      <3> HIDE DEF P
      <3>3. Q(k + 1)
        BY <3>1, <3>2
      <3>4. QED  BY <3>3 DEF P
    <2>6. CASE f[k + 1] # Aborted /\ hasRefFor(leg)
      <3>1. /\ f[k] # Aborted /\ LegAllowed(f[k], leg, e) /\ f[k + 1] = Released(f[k], leg)
            /\ R(k + 1) = R(k) \cup {ReleaseOf(c, leg)}
        BY <2>2, <2>3, <2>6 DEF AfterLeg
      <3>2. Q(k)
        BY <1>3, <3>1
      <3>3. Book(f[k + 1], R(k + 1))
        BY <2>1, <3>1, <3>2, LegBooked
      <3>4. ASSUME NEW seen, Account(seen, vault, releases)
            PROVE  Account(seen, f[k + 1], R(k + 1))
        BY <2>1, <3>1, <3>2, <3>4, LegAccounted
      <3>5. QED  BY <3>3, <3>4
    <2>7. QED  BY <2>4, <2>5, <2>6
  <1>4. Len(legs) \in P
    <2> HIDE DEF P
    <2>1. 0..Len(legs) \subseteq P
      BY <1>2, <1>3, UpTo
    <2>2. QED  BY <2>1
  <1>5. QED  BY <1>1, <1>4, ThroughAll

-----------------------------------------------------------------------------
(* The invariant. *)

\* What a call is, and how its parts go together.
CallTyped(r) ==
    /\ IsCall(r) /\ r.seen \in VaultType
    /\ r.pc \in {"idle", "gather", "sent", "done"}
    /\ r.tx \in {"none", "inflight", "accepted", "aborted"}
    /\ r.pc \in {"idle", "gather"} => r.tx = "none"
    /\ r.report = "none" <=> r.pc # "done"
    /\ r.pc = "idle" => ~r.seen.agent
    /\ r.pc = "gather" => r.seen.agent
    /\ r.report = "submitted" => r.tx = "accepted"
    /\ r.tx # "none" => r.legs \in Seq(Intent)

\* The budget is what computeDeployable made of the treasury at some moment.
Promised(r) ==
    /\ r.budget # 0
    /\ \E t \in 2..clock : r.budget = computeDeployable(r.seen, config.terms, t + config.skew)

\* The account of what a call has read.
CallRead(r) == r.seen.agent => Account(r.seen, vault, releases) /\ Promised(r)

\* What is on its way: legs of consecutive nonces, none above the cap.
CallSent(r) ==
    r.tx = "inflight" =>
       /\ r.seen.agent /\ r.expiresAt \in Int
       /\ \A i \in DOMAIN r.legs : /\ r.legs[i].nonce = r.legs[1].nonce + i - 1
                                  /\ r.legs[i].amount <= config.terms.perTxCap

\* What was released for a call: nothing, or each leg of it that could be built.
CallLanded(c, r) ==
    {x \in releases : x.call = c} =
       IF r.tx = "accepted" THEN {ReleaseOf(c, r.legs[i]) : i \in Executable(r.legs)} ELSE {}

\* All of it, of one call and of the system.
CallInv(c, r) == CallTyped(r) /\ CallRead(r) /\ CallSent(r) /\ CallLanded(c, r)

RelayInv ==
    /\ config \in Deployments /\ clock \in 2..MaxClock /\ others \in 0..MaxOwner
    /\ Book(vault, releases)
    /\ calls = [c \in Calls |-> calls[c]]
    /\ \A c \in Calls : CallInv(c, calls[c])

\* The invariant types the deployment, and with it all the rest.
LEMMA InvConfig == RelayInv => ConfigTyped
  BY RelayAssumption DEF RelayInv, ConfigTyped

\* And every variable.
LEMMA InvType == RelayInv => RelayTypeOK
  BY DEF RelayInv, RelayTypeOK, CallInv, CallTyped, Book

\* It holds at first.
LEMMA InitInv == RelayInit => RelayInv
  <1> SUFFICES ASSUME RelayInit
               PROVE  RelayInv
    OBVIOUS
  <1>1. /\ config \in Deployments /\ clock \in 2..MaxClock /\ others \in 0..MaxOwner
        /\ config.funds \in Nat /\ config.terms \in TermsType
    BY RelayAssumption DEF RelayInit
  <1>2. Book(vault, releases)
    <2>1. vault \in VaultType /\ vault.spent = 0
      BY <1>1 DEF RelayInit, NoVault, VaultType
    <2>2. IsFiniteSet({}) /\ releases = {}
      BY FS_EmptySet DEF RelayInit
    <2>3. config.terms.periodCap \in Nat
      BY <1>1 DEF TermsType, U64
    <2>4. QED  BY <2>1, <2>2, <2>3 DEF Book
  <1>3. calls = [c \in Calls |-> calls[c]] /\ \A c \in Calls : calls[c] = Idle
    BY DEF RelayInit
  <1>4. ASSUME NEW c \in Calls
        PROVE  CallInv(c, Idle)
    <2>1. /\ Idle.seen = NoVault /\ Idle.pc = "idle" /\ Idle.tx = "none" /\ Idle.report = "none"
      BY DEF Idle
    <2>2. NoVault \in VaultType /\ ~NoVault.agent
      BY DEF NoVault, VaultType
    <2>3. {x \in releases : x.call = c} = {}
      BY DEF RelayInit
    <2>4. QED
      BY <2>1, <2>2, <2>3, IdleIsCall DEF CallInv, CallTyped, CallRead, CallSent, CallLanded
  <1>5. QED  BY <1>1, <1>2, <1>3, <1>4 DEF RelayInv

\* A call that does nothing while the rest stands still.
LEMMA CallStill ==
  ASSUME NEW d \in Calls, NEW r, CallInv(d, r), UNCHANGED <<config, clock, vault, others, releases>>
  PROVE  CallInv(d, r)'
  <1>1. CallTyped(r)'
    BY DEF CallInv, CallTyped
  <1>2. CallRead(r)'
    BY DEF CallInv, CallRead, Account, Promised, computeDeployable, Since
  <1>3. CallSent(r)'
    BY DEF CallInv, CallSent
  <1>4. CallLanded(d, r)'
    BY DEF CallInv, CallLanded, Executable, hasRefFor
  <1>5. QED  BY <1>1, <1>2, <1>3, <1>4 DEF CallInv

\* Books nobody writes.
LEMMA BookStill ==
  ASSUME Book(vault, releases), UNCHANGED <<config, vault, releases>>
  PROVE  Book(vault, releases)'
  BY DEF Book

\* A step of one call that leaves the treasury alone.
LEMMA OneCall ==
  ASSUME RelayInv, NEW c \in Calls, NEW r, Became(c, r),
         UNCHANGED <<config, clock, vault, others, releases>>, CallInv(c, r)'
  PROVE  RelayInv'
  <1>1. /\ calls' = [d \in Calls |-> IF d = c THEN r ELSE calls[d]]
        /\ calls' = [d \in Calls |-> calls'[d]]
    BY DEF RelayInv, Became
  <1>2. ASSUME NEW d \in Calls
        PROVE  CallInv(d, calls[d])'
    <2>1. CASE d = c
      <3>1. calls'[d] = r
        BY <1>1, <2>1
      <3>2. QED  BY <2>1, <3>1 DEF CallInv, CallTyped, CallRead, CallSent, CallLanded
    <2>2. CASE d # c
      <3>1. PICK q : q = calls[d]
        OBVIOUS
      <3>2. CallInv(d, q) /\ calls'[d] = q
        BY <1>1, <2>2, <3>1 DEF RelayInv
      <3>3. CallInv(d, q)'
        BY <3>2, CallStill
      <3>4. QED  BY <3>2, <3>3 DEF CallInv, CallTyped, CallRead, CallSent, CallLanded
    <2>3. QED  BY <2>1, <2>2
  <1>3. Book(vault, releases)'
    BY BookStill DEF RelayInv
  <1>4. (config \in Deployments /\ clock \in 2..MaxClock /\ others \in 0..MaxOwner)'
    BY DEF RelayInv
  <1>5. QED  BY <1>1, <1>2, <1>3, <1>4 DEF RelayInv

\* A budget is promised under a mandate only.
LEMMA Deployable ==
  ASSUME NEW v, computeDeployable(v, config.terms, Local) # 0
  PROVE  v.agent
  BY DEF computeDeployable

\* The account of a treasury that was read just now.
LEMMA FreshAccount ==
  ASSUME ConfigTyped, NEW v, NEW rel, Book(v, rel)
  PROVE  Account(v, v, rel)
  <1>1. v \in VaultType /\ v.lastNonce \in Nat /\ v.funds \in Nat /\ v.spent \in Nat /\ v.start \in Nat
    BY DEF Book, VaultType
  <1>2. Since(v, rel) = 0
    <2>1. \A r \in rel : ~(r.nonce > v.lastNonce)
      BY <1>1 DEF Book, Entry
    <2>2. QED  BY <2>1, SinceNothing
  <1>3. QED  BY <1>1, <1>2 DEF Account

\* readBudget opens an account of the treasury, and promises what it computes.
LEMMA ReadStep ==
  ASSUME RelayInv, NEW c \in Calls, ReadBudget(c)
  PROVE  RelayInv'
  <1>1. PICK q : q = calls[c]
    OBVIOUS
  <1>2. PICK v : v = vault
    OBVIOUS
  <1>3. PICK b : b = computeDeployable(vault, config.terms, Local)
    OBVIOUS
  <1>4. CallInv(c, q) /\ q.pc = "idle" /\ q.tx = "none" /\ ~q.seen.agent
    BY <1>1 DEF RelayInv, CallInv, CallTyped, ReadBudget
  <1>5. UNCHANGED <<config, clock, vault, others, releases>>
    BY DEF ReadBudget
  <1>6. CASE b = 0
    <2> DEFINE r == [q EXCEPT !.pc = "done", !.report = "cannot supply"]
    <2>1. Became(c, r)
      BY <1>1, <1>3, <1>6 DEF ReadBudget, Reported
    <2>2. /\ IsCall(r) /\ r.pc = "done" /\ r.report = "cannot supply" /\ r.seen = q.seen /\ r.tx = q.tx
      BY <1>4, CallDone DEF CallInv, CallTyped
    <2> HIDE DEF r
    <2>3. CallInv(c, r)
      BY <1>4, <2>2 DEF CallInv, CallTyped, CallRead, CallSent, CallLanded
    <2>4. QED  BY <1>5, <2>1, <2>3, CallStill, OneCall
  <1>7. CASE b # 0
    <2> DEFINE r == [q EXCEPT !.pc = "gather", !.budget = b, !.seen = v]
    <2>1. Became(c, r)
      BY <1>1, <1>2, <1>3, <1>7 DEF ReadBudget
    <2>2. /\ IsCall(r) /\ r.pc = "gather" /\ r.budget = b /\ r.seen = v /\ r.tx = "none"
          /\ r.report = q.report
      <3>1. IsCall(q)
        BY <1>4 DEF CallInv, CallTyped
      <3>2. QED  BY <1>4, <3>1 DEF IsCall, Fields
    <2>3. v \in VaultType /\ Account(v, v, releases) /\ v.agent
      <3>1. Book(v, releases)
        BY <1>2 DEF RelayInv
      <3>2. v \in VaultType /\ Account(v, v, releases)
        BY <3>1, FreshAccount, InvConfig DEF Book
      <3>3. computeDeployable(v, config.terms, Local) # 0
        BY <1>2, <1>3, <1>7
      <3>4. v.agent
        BY <3>3, Deployable
      <3>5. QED  BY <3>2, <3>4
    <2> HIDE DEF r
    <2>4. Promised(r)
      <3>1. clock \in 2..clock /\ b = computeDeployable(v, config.terms, clock + config.skew)
        <4>1. clock \in 2..clock
          BY RelayAssumption DEF RelayInv
        <4>2. b = computeDeployable(v, config.terms, clock + config.skew)
          BY <1>2, <1>3 DEF Local
        <4>3. QED  BY <4>1, <4>2
      <3>2. QED  BY <1>7, <2>2, <3>1 DEF Promised
    <2>5. CallInv(c, r)
      <3>1. CallTyped(r)
        BY <1>4, <2>2, <2>3 DEF CallInv, CallTyped
      <3>2. CallRead(r)
        BY <1>2, <2>2, <2>3, <2>4 DEF CallRead
      <3>3. CallSent(r)
        BY <2>2 DEF CallSent
      <3>4. CallLanded(c, r)
        BY <1>4, <2>2 DEF CallInv, CallLanded
      <3>5. QED  BY <3>1, <3>2, <3>3, <3>4 DEF CallInv
    <2>6. QED  BY <1>5, <2>1, <2>5, CallStill, OneCall
  <1>8. QED  BY <1>6, <1>7

\* A call that ends.
LEMMA Ends ==
  ASSUME RelayInv, NEW c \in Calls, NEW x, Reported(c, x), x # "none",
         x = "submitted" => calls[c].tx = "accepted",
         UNCHANGED <<config, clock, vault, others, releases>>
  PROVE  RelayInv'
  <1>1. PICK q : q = calls[c]
    OBVIOUS
  <1> DEFINE r == [q EXCEPT !.pc = "done", !.report = x]
  <1>2. Became(c, r)
    BY <1>1 DEF Reported
  <1>3. CallInv(c, q)
    BY <1>1 DEF RelayInv
  <1>4. IsCall(q)
    BY <1>3 DEF CallInv, CallTyped
  <1>5. /\ IsCall(r) /\ r.pc = "done" /\ r.report = x /\ r.seen = q.seen /\ r.tx = q.tx
        /\ r.budget = q.budget /\ r.legs = q.legs /\ r.expiresAt = q.expiresAt
    BY <1>4 DEF IsCall, Fields
  <1> HIDE DEF r
  <1>6. CallTyped(r)
    BY <1>1, <1>3, <1>5 DEF CallInv, CallTyped
  <1>7. CallRead(r)
    BY <1>3, <1>5 DEF CallInv, CallRead, Promised
  <1>8. CallSent(r)
    BY <1>3, <1>5 DEF CallInv, CallSent
  <1>9. CallLanded(c, r)
    BY <1>3, <1>5 DEF CallInv, CallLanded
  <1>10. CallInv(c, r)'
    BY <1>6, <1>7, <1>8, <1>9, CallStill DEF CallInv
  <1>11. QED  BY <1>2, <1>10, OneCall

\* A call that throws ends without having sent anything.
LEMMA ThrowsStep ==
  ASSUME RelayInv, NEW c \in Calls, Throws(c)
  PROVE  RelayInv'
  BY Ends DEF Throws

\* A digest is reported once the transaction is accepted.
LEMMA AnswerStep ==
  ASSUME RelayInv, NEW c \in Calls, Answer(c)
  PROVE  RelayInv'
  <1>1. UNCHANGED <<config, clock, vault, others, releases>>
    BY DEF Answer
  <1>2. CASE Confirmed(calls[c].tx) /\ Reported(c, "submitted")
    BY <1>1, <1>2, Ends DEF Confirmed
  <1>3. CASE Reported(c, "reverted")
    BY <1>1, <1>3, Ends
  <1>4. QED  BY <1>2, <1>3 DEF Answer

\* A preview sends nothing.
LEMMA PreviewStep ==
  ASSUME RelayInv, NEW c \in Calls, NEW failed, NEW budget, Preview(c, failed, budget)
  PROVE  RelayInv'
  <1>1. PICK q : q = calls[c]
    OBVIOUS
  <1>2. PICK curves : curves = gatherCurves(config.allowed \cap config.write, failed)
    OBVIOUS
  <1>3. PICK legs : legs = solveAllocation(curves, budget, config.maxSupplyRaw,
                                           config.minIdleRaw, config.above)
    OBVIOUS
  <1>4. PICK cap : cap = config.maxSupplyRaw
    OBVIOUS
  <1>5. PICK least : least = config.minIdleRaw
    OBVIOUS
  <1> DEFINE r == [q EXCEPT !.pc = "done", !.budget = budget, !.curves = curves, !.cap = cap,
                     !.minPosition = least, !.report = "preview", !.legs = legs]
  <1>6. CallInv(c, q) /\ IsCall(q) /\ q.pc = "idle" /\ q.tx = "none" /\ ~q.seen.agent
    BY <1>1 DEF RelayInv, CallInv, CallTyped, Preview
  <1>7. /\ IsCall(r) /\ r.pc = "done" /\ r.report = "preview" /\ r.seen = q.seen /\ r.tx = q.tx
    BY <1>6 DEF IsCall, Fields
  <1> HIDE DEF r
  <1>8. CallInv(c, r)
    BY <1>6, <1>7 DEF CallInv, CallTyped, CallRead, CallSent, CallLanded
  <1>9. UNCHANGED <<config, clock, vault, others, releases>>
    BY DEF Preview
  <1>10. Became(c, r)
    BY <1>1, <1>2, <1>3, <1>4, <1>5 DEF Preview, r
  <1>11. QED  BY <1>8, <1>9, <1>10, CallStill, OneCall

\* The enclave numbers its legs one after the other and caps each of them.
LEMMA DecidedLegs ==
  ASSUME NEW funded, NEW cap \in Nat, NEW n \in Int, decide(funded, cap, n) \in Seq(Intent)
  PROVE  LET legs == decide(funded, cap, n)
         IN  \A i \in DOMAIN legs : legs[i].nonce = legs[1].nonce + i - 1 /\ legs[i].amount <= cap
  <1>1. PICK legs : legs = decide(funded, cap, n)
    OBVIOUS
  <1>2. DOMAIN legs = 1..Len(legs) /\ Len(legs) \in Nat /\ \A i \in DOMAIN legs : legs[i].amount \in Nat
    <2>1. legs \in Seq(Intent)
      BY <1>1
    <2>2. DOMAIN legs = 1..Len(legs) /\ Len(legs) \in Nat /\ \A i \in DOMAIN legs : legs[i] \in Intent
      BY <2>1
    <2>3. QED  BY <2>2 DEF Intent, U64
  <1>3. \A i \in DOMAIN legs :
           /\ legs[i].nonce = n + i - 1
           /\ legs[i].amount = IF funded[i].amount < cap THEN funded[i].amount ELSE cap
    BY <1>1 DEF decide
  <1>4. ASSUME NEW i \in DOMAIN legs
        PROVE  legs[i].nonce = legs[1].nonce + i - 1 /\ legs[i].amount <= cap
    <2>1. 1 \in DOMAIN legs /\ i \in Nat
      BY <1>2
    <2>2. legs[1].nonce = n
      BY <1>3, <2>1
    <2>3. legs[i].nonce = legs[1].nonce + i - 1
      BY <1>3, <2>1, <2>2
    <2>4. legs[i].amount <= cap
      BY <1>2, <1>3
    <2>5. QED  BY <2>3, <2>4
  <1>5. QED  BY <1>1, <1>4

\* treasury_supply sends what the enclave decided, as typed as it was capped.
LEMMA DecideStep ==
  ASSUME RelayInv, NEW c \in Calls, NEW failed, Decide(c, failed)
  PROVE  RelayInv'
  <1>1. UNCHANGED <<config, clock, vault, others, releases>> /\ calls[c].pc = "gather"
    BY DEF Decide
  <1>2. PICK q : q = calls[c]
    OBVIOUS
  <1>3. PICK curves : curves = gatherCurves(config.allowed, failed)
    OBVIOUS
  <1>4. PICK cap : cap = config.terms.perTxCap
    OBVIOUS
  <1>5. PICK funded : funded = solveAllocation(curves, calls[c].budget, cap, 0, config.above)
    OBVIOUS
  <1>6. PICK ms \in 0..(Millis - 1) :
           LET legs == decide(funded, cap, Local * Millis + ms)
           IN  IF Executable(legs) = {} \/ legs \notin Seq(Intent)
               THEN Reported(c, CASE curves = <<>> -> "no curves"
                                  [] curves # <<>> /\ funded = <<>> -> "threw"
                                  [] funded # <<>> /\ Executable(legs) = {} -> "not submitted"
                                  [] OTHER -> "reverted")
               ELSE Became(c, [calls[c] EXCEPT !.pc = "sent", !.curves = curves, !.legs = legs,
                                 !.cap = cap, !.expiresAt = Local + IntentLife,
                                 !.tx = "inflight", !.at = pools])
    BY <1>3, <1>4, <1>5 DEF Decide
  <1>7. PICK n : n = Local * Millis + ms
    OBVIOUS
  <1>8. n \in Int /\ cap \in Nat /\ Local + IntentLife \in Int
    BY <1>4, <1>7, InvConfig, RelayAssumption DEF ConfigTyped, TermsType, U64, Local
  <1> DEFINE legs == decide(funded, cap, n)
  <1>9. CASE Executable(legs) = {} \/ legs \notin Seq(Intent)
    <2>1. PICK x \in {"no curves", "threw", "not submitted", "reverted"} : Reported(c, x)
      BY <1>6, <1>7, <1>9
    <2>2. QED  BY <1>1, <2>1, Ends
  <1>10. CASE ~(Executable(legs) = {} \/ legs \notin Seq(Intent))
    <2>1. PICK l : l = legs
      OBVIOUS
    <2>2. PICK e : e = Local + IntentLife
      OBVIOUS
    <2>3. PICK at : at = pools
      OBVIOUS
    <2> DEFINE r == [q EXCEPT !.pc = "sent", !.curves = curves, !.legs = l, !.cap = cap,
                       !.expiresAt = e, !.tx = "inflight", !.at = at]
    <2>4. Became(c, r)
      BY <1>2, <1>6, <1>7, <1>10, <2>1, <2>2, <2>3
    <2>5. CallInv(c, q) /\ IsCall(q) /\ q.pc = "gather" /\ q.tx = "none" /\ q.seen.agent
      BY <1>1, <1>2 DEF RelayInv, CallInv, CallTyped
    <2>6. /\ IsCall(r) /\ r.pc = "sent" /\ r.report = q.report /\ r.seen = q.seen
          /\ r.budget = q.budget /\ r.tx = "inflight" /\ r.legs = l /\ r.expiresAt = e
      BY <2>5 DEF IsCall, Fields
    <2>7. l \in Seq(Intent)
      BY <1>10, <2>1
    <2>8. \A i \in DOMAIN l : l[i].nonce = l[1].nonce + i - 1 /\ l[i].amount <= cap
      BY <1>8, <1>10, <2>1, DecidedLegs
    <2> HIDE DEF r, legs
    <2>9. CallTyped(r)
      BY <2>5, <2>6, <2>7 DEF CallInv, CallTyped
    <2>10. CallRead(r)
      BY <2>5, <2>6 DEF CallInv, CallRead, Promised
    <2>11. CallSent(r)
      BY <1>4, <1>8, <2>2, <2>5, <2>6, <2>8 DEF CallSent
    <2>12. CallLanded(c, r)
      BY <2>5, <2>6 DEF CallInv, CallLanded
    <2>13. CallInv(c, r)'
      BY <1>1, <2>9, <2>10, <2>11, <2>12, CallStill DEF CallInv
    <2>14. QED  BY <1>1, <2>4, <2>13, OneCall
  <1>11. QED  BY <1>9, <1>10

\* A call that does nothing while the treasury or the clock moves on.
LEMMA CallAlong ==
  ASSUME NEW d \in Calls, NEW r, CallInv(d, r), config' = config,
         clock \in Int, clock' \in Int, clock' >= clock,
         Account(r.seen, vault, releases) => Account(r.seen, vault, releases)',
         {x \in releases : x.call = d}' = {x \in releases : x.call = d}
  PROVE  CallInv(d, r)'
  <1>1. CallTyped(r)'
    BY DEF CallInv, CallTyped
  <1>2. Promised(r) => Promised(r)'
    <2>1. 2..clock \subseteq 2..clock'
      OBVIOUS
    <2>2. QED  BY <2>1 DEF Promised, computeDeployable
  <1>3. CallRead(r)'
    BY <1>2 DEF CallInv, CallRead
  <1>4. CallSent(r)'
    BY DEF CallInv, CallSent
  <1>5. CallLanded(d, r)'
    BY DEF CallInv, CallLanded, Executable, hasRefFor
  <1>6. QED  BY <1>1, <1>3, <1>4, <1>5 DEF CallInv

\* A step that leaves every call as it was.
LEMMA CallsStand ==
  ASSUME RelayInv, UNCHANGED <<config, calls>>, clock' \in 2..MaxClock, others' \in 0..MaxOwner,
         Book(vault, releases)',
         \A d \in Calls : \A q : CallInv(d, q) => CallInv(d, q)'
  PROVE  RelayInv'
  <1>1. calls' = [d \in Calls |-> calls'[d]] /\ config' \in Deployments
    BY DEF RelayInv
  <1>2. ASSUME NEW d \in Calls
        PROVE  CallInv(d, calls[d])'
    <2>1. PICK q : q = calls[d]
      OBVIOUS
    <2>2. CallInv(d, q) /\ calls'[d] = q
      BY <2>1 DEF RelayInv
    <2>3. CallInv(d, q)'
      BY <2>2
    <2>4. QED  BY <2>2, <2>3 DEF CallInv, CallTyped, CallRead, CallSent, CallLanded
  <1>3. QED  BY <1>1, <1>2 DEF RelayInv

\* Time leaves the accounts alone.
LEMMA ClockTickStep ==
  ASSUME RelayInv, ClockTick
  PROVE  RelayInv'
  <1>1. /\ clock \in Int /\ clock' \in Int /\ clock' >= clock /\ clock' \in 2..MaxClock
        /\ UNCHANGED <<config, vault, calls, others, releases>>
    BY RelayAssumption DEF RelayInv, ClockTick
  <1>2. Book(vault, releases)'
    BY <1>1, BookStill DEF RelayInv
  <1>3. ASSUME NEW d \in Calls, NEW q, CallInv(d, q)
        PROVE  CallInv(d, q)'
    <2>1. Account(q.seen, vault, releases) => Account(q.seen, vault, releases)'
      BY <1>1 DEF Account, Since
    <2>2. QED  BY <1>1, <1>3, <2>1, CallAlong
  <1>4. others' \in 0..MaxOwner
    BY <1>1 DEF RelayInv
  <1>5. QED  BY <1>1, <1>2, <1>3, <1>4, CallsStand

\* The owner changes funds and mandate only, and never unseen.
LEMMA OwnerActsStep ==
  ASSUME RelayInv, OwnerActs
  PROVE  RelayInv'
  <1>1. /\ UNCHANGED <<config, clock, calls, releases>>
        /\ others' \in 0..MaxOwner /\ others' # 0 /\ clock \in Int /\ clock \in 2..MaxClock
    BY RelayAssumption DEF RelayInv, OwnerActs
  <1>2. vault \in VaultType
    BY DEF RelayInv, Book
  <1>3. /\ vault' \in VaultType
        /\ vault'.spent = vault.spent /\ vault'.start = vault.start
        /\ vault'.lastNonce = vault.lastNonce
    <2>1. CASE vault' = [vault EXCEPT !.agent = FALSE]
      BY <1>2, <2>1 DEF VaultType
    <2>2. CASE vault.funds > 0 /\ vault' = [vault EXCEPT !.funds = @ - 1]
      BY <1>2, <2>2 DEF VaultType
    <2>3. CASE vault' = [vault EXCEPT !.funds = @ + 1]
      BY <1>2, <2>3 DEF VaultType
    <2>4. QED  BY <2>1, <2>2, <2>3 DEF OwnerActs
  <1>4. Book(vault, releases)'
    BY <1>1, <1>3 DEF RelayInv, Book
  <1>5. ASSUME NEW d \in Calls, NEW q, CallInv(d, q)
        PROVE  CallInv(d, q)'
    <2>1. Account(q.seen, vault, releases) => Account(q.seen, vault, releases)'
      BY <1>1, <1>3 DEF Account, Since
    <2>2. QED  BY <1>1, <1>5, <2>1, CallAlong
  <1>6. QED  BY <1>1, <1>4, <1>5, CallsStand

\* So do other depositors.
LEMMA PoolMovesStep ==
  ASSUME RelayInv, PoolMoves
  PROVE  RelayInv'
  <1>1. /\ UNCHANGED <<config, clock, vault, calls, releases>>
        /\ others' \in 0..MaxOwner /\ others' # 0 /\ clock \in Int /\ clock \in 2..MaxClock
    BY RelayAssumption DEF RelayInv, PoolMoves
  <1>2. Book(vault, releases)'
    BY <1>1, BookStill DEF RelayInv
  <1>3. ASSUME NEW d \in Calls, NEW q, CallInv(d, q)
        PROVE  CallInv(d, q)'
    <2>1. Account(q.seen, vault, releases) => Account(q.seen, vault, releases)'
      BY <1>1 DEF Account, Since
    <2>2. QED  BY <1>1, <1>3, <2>1, CallAlong
  <1>4. QED  BY <1>1, <1>2, <1>3, CallsStand

\* A transaction lands whole or not at all: the treasury with the releases of
\* its legs keeps its books and every account of an earlier read.
LEMMA LandStep ==
  ASSUME RelayInv, NEW c \in Calls, Land(c)
  PROVE  RelayInv'
  <1>1. UNCHANGED <<config, clock, others>> /\ calls[c].tx = "inflight"
    BY DEF Land
  <1>2. PICK q : q = calls[c]
    OBVIOUS
  <1>3. CallInv(c, q) /\ IsCall(q) /\ q.tx = "inflight" /\ q.legs \in Seq(Intent)
    BY <1>1, <1>2 DEF RelayInv, CallInv, CallTyped
  <1>4. {x \in releases : x.call = c} = {}
    BY <1>3 DEF CallInv, CallLanded
  <1>5. ASSUME NEW x \in {"accepted", "aborted"}
        PROVE  LET r == [q EXCEPT !.tx = x]
               IN  /\ CallTyped(r) /\ CallRead(r) /\ CallSent(r)
                   /\ r.tx = x /\ r.legs = q.legs /\ r.seen = q.seen /\ r.budget = q.budget
    <2> DEFINE r == [q EXCEPT !.tx = x]
    <2>1. /\ IsCall(r) /\ r.pc = q.pc /\ r.report = q.report /\ r.seen = q.seen /\ r.tx = x
          /\ r.budget = q.budget /\ r.legs = q.legs /\ r.expiresAt = q.expiresAt
      BY <1>3 DEF IsCall, Fields
    <2> HIDE DEF r
    <2>2. q.report # "submitted" /\ q.pc \notin {"idle", "gather"}
      BY <1>3 DEF CallInv, CallTyped
    <2>3. CallTyped(r)
      BY <1>3, <2>1, <2>2 DEF CallInv, CallTyped
    <2>4. CallRead(r)
      BY <1>3, <2>1 DEF CallInv, CallRead, Promised
    <2>5. CallSent(r)
      BY <2>1 DEF CallSent
    <2>6. QED  BY <2>1, <2>3, <2>4, <2>5 DEF r
  <1>6. PICK after : after = Executed(q.legs, q.expiresAt)
    OBVIOUS
  <1>7. CASE after = Aborted
    <2> DEFINE r == [q EXCEPT !.tx = "aborted"]
    <2>1. Became(c, r) /\ UNCHANGED <<vault, releases>>
      BY <1>2, <1>6, <1>7 DEF Land
    <2>2. CallTyped(r) /\ CallRead(r) /\ CallSent(r) /\ r.tx = "aborted"
      BY <1>5
    <2> HIDE DEF r
    <2>3. CallInv(c, r)
      BY <1>4, <2>2 DEF CallInv, CallLanded
    <2>4. QED  BY <1>1, <2>1, <2>3, CallStill, OneCall
  <1>8. CASE after # Aborted
    <2> DEFINE r == [q EXCEPT !.tx = "accepted"]
               new == {ReleaseOf(c, q.legs[i]) : i \in Executable(q.legs)}
    <2>1. Became(c, r) /\ vault' = after /\ releases' = releases \cup new
      BY <1>2, <1>6, <1>8 DEF Land
    <2>2. /\ CallTyped(r) /\ CallRead(r) /\ CallSent(r)
          /\ r.tx = "accepted" /\ r.legs = q.legs /\ r.seen = q.seen /\ r.budget = q.budget
      BY <1>5
    <2>3. /\ Book(after, releases \cup new)
          /\ \A seen : Account(seen, vault, releases) => Account(seen, after, releases \cup new)
      BY <1>3, <1>6, <1>8, InvConfig, Landed DEF RelayInv
    <2>4. Book(vault, releases)'
      BY <1>1, <2>1, <2>3 DEF Book
    <2>5. ASSUME NEW seen, Account(seen, vault, releases)
          PROVE  Account(seen, vault, releases)'
      <3>1. Account(seen, after, releases \cup new)
        BY <2>3, <2>5
      <3>2. PICK rel : rel = releases \cup new
        OBVIOUS
      <3>3. Account(seen, after, rel) /\ releases' = rel /\ vault' = after
        BY <2>1, <3>1, <3>2
      <3>4. QED  BY <1>1, <3>3 DEF Account, Since
    <2>6. \A x \in new : x.call = c
      BY DEF ReleaseOf
    <2>7. {x \in releases' : x.call = c} = new
      BY <1>4, <2>1, <2>6
    <2>8. CallInv(c, r)'
      <3> HIDE DEF r
      <3>1. CallTyped(r)'
        BY <2>2 DEF CallTyped
      <3>2. CallRead(r)'
        BY <1>1, <2>2, <2>5 DEF CallRead, Promised, computeDeployable
      <3>3. CallSent(r)'
        BY <2>2 DEF CallSent
      <3>4. CallLanded(c, r)'
        BY <1>1, <2>2, <2>7 DEF CallLanded, Executable, hasRefFor
      <3>5. QED  BY <3>1, <3>2, <3>3, <3>4 DEF CallInv
    <2>9. ASSUME NEW d \in Calls
          PROVE  CallInv(d, calls[d])'
      <3>1. calls' = [k \in Calls |-> IF k = c THEN r ELSE calls[k]]
        BY <2>1 DEF Became, RelayInv
      <3>2. CASE d = c
        <4> HIDE DEF r
        <4>1. calls'[d] = r
          BY <3>1, <3>2
        <4>2. QED  BY <2>8, <3>2, <4>1 DEF CallInv, CallTyped, CallRead, CallSent, CallLanded
      <3>3. CASE d # c
        <4>1. PICK k : k = calls[d]
          OBVIOUS
        <4>2. CallInv(d, k) /\ calls'[d] = k
          BY <3>1, <3>3, <4>1 DEF RelayInv
        <4>3. {x \in releases : x.call = d}' = {x \in releases : x.call = d}
          BY <2>1, <2>6, <3>3
        <4>4. clock \in Int /\ clock' \in Int /\ clock' >= clock /\ config' = config
          BY <1>1, RelayAssumption DEF RelayInv
        <4>5. CallInv(d, k)'
          BY <2>5, <4>2, <4>3, <4>4, CallAlong
        <4>6. QED  BY <4>2, <4>5 DEF CallInv, CallTyped, CallRead, CallSent, CallLanded
      <3>4. QED  BY <3>2, <3>3
    <2>10. calls' = [d \in Calls |-> calls'[d]]
      BY <2>1 DEF Became, RelayInv
    <2>11. QED  BY <1>1, <2>4, <2>9, <2>10 DEF RelayInv
  <1>9. QED  BY <1>7, <1>8

\* Every step keeps the invariant.
LEMMA NextInv == RelayInv /\ [RelayNext]_relayVars => RelayInv'
  <1> SUFFICES ASSUME RelayInv, [RelayNext]_relayVars
               PROVE  RelayInv'
    OBVIOUS
  <1>1. CASE UNCHANGED relayVars
    <2>1. UNCHANGED <<config, clock, vault, calls, others, releases>>
      BY <1>1 DEF relayVars
    <2>2. Book(vault, releases)' /\ clock' \in 2..MaxClock /\ others' \in 0..MaxOwner
      BY <2>1, BookStill DEF RelayInv
    <2>3. ASSUME NEW d \in Calls, NEW q, CallInv(d, q)
          PROVE  CallInv(d, q)'
      BY <2>1, <2>3, CallStill
    <2>4. QED  BY <2>1, <2>2, <2>3, CallsStand
  <1>2. CASE ClockTick \/ OwnerActs \/ PoolMoves
    BY <1>2, ClockTickStep, OwnerActsStep, PoolMovesStep
  <1>3. ASSUME NEW c \in Calls,
               ReadBudget(c) \/ Throws(c) \/ Land(c) \/ Answer(c)
        PROVE  RelayInv'
    BY <1>3, ReadStep, ThrowsStep, LandStep, AnswerStep
  <1>4. ASSUME NEW c \in Calls, NEW failed \in SUBSET config.flaky,
               Decide(c, failed) \/ \E budget \in PreviewBudgets : Preview(c, failed, budget)
        PROVE  RelayInv'
    BY <1>4, DecideStep, PreviewStep
  <1>5. QED  BY <1>1, <1>2, <1>3, <1>4 DEF RelayNext

-----------------------------------------------------------------------------
(* What follows at all times. *)

\* In every reachable state the invariant holds.
THEOREM RelayCorrect == RelaySpec => []RelayInv
  BY InitInv, NextInv, PTL DEF RelaySpec

\* Every call, its transaction, its report and the vault keep their types.
THEOREM RelayTypeCorrect == RelaySpec => []RelayTypeOK
  BY RelayCorrect, InvType, PTL

\* What a promised budget is: the funds or what the window has left, the smaller.
LEMMA PromiseIsMin ==
  ASSUME ConfigTyped, NEW v \in VaultType, NEW now \in Int,
         computeDeployable(v, config.terms, now) # 0
  PROVE  LET spent == IF now >= v.start + config.terms.periodMs THEN 0 ELSE v.spent
             budget == computeDeployable(v, config.terms, now)
         IN  /\ budget \in Nat /\ budget <= v.funds /\ budget <= config.terms.periodCap - spent
             /\ budget = v.funds \/ budget = config.terms.periodCap - spent
  <1>1. PICK spent : spent = IF now >= v.start + config.terms.periodMs THEN 0 ELSE v.spent
    OBVIOUS
  <1>2. PICK rest : rest = config.terms.periodCap - spent
    OBVIOUS
  <1>3. spent \in Nat /\ rest \in Int /\ v.funds \in Nat
    BY <1>1, <1>2 DEF VaultType, ConfigTyped, TermsType, U64
  <1>4. PICK room : room = Max({0, rest})
    OBVIOUS
  <1>5. room \in Int /\ room \in {0, rest} /\ room >= 0 /\ room >= rest
    <2>1. ASSUME NEW z \in Int
          PROVE  Max({z, rest}) \in {z, rest} /\ Max({z, rest}) >= z /\ Max({z, rest}) >= rest
      BY <1>3, MaxOfTwo
    <2>2. PICK z : z = 0
      OBVIOUS
    <2>3. Max({z, rest}) \in {z, rest} /\ Max({z, rest}) >= z /\ Max({z, rest}) >= rest
      BY <2>1, <2>2
    <2>4. room = Max({z, rest})
      BY <1>4, <2>2
    <2>5. QED  BY <1>3, <2>2, <2>3, <2>4
  <1>6. PICK budget : budget = Min({v.funds, room})
    OBVIOUS
  <1>7. budget \in {v.funds, room} /\ budget <= v.funds /\ budget <= room
    <2>1. v.funds \in Int
      BY <1>3
    <2>2. /\ Min({v.funds, room}) \in {v.funds, room}
          /\ Min({v.funds, room}) <= v.funds /\ Min({v.funds, room}) <= room
      BY <1>5, <2>1, MinOfTwo
    <2>3. QED  BY <1>6, <2>2
  <1>8. computeDeployable(v, config.terms, now) = budget
    BY <1>1, <1>2, <1>4, <1>6 DEF computeDeployable
  <1>9. budget # 0
    BY <1>8
  <1>10. budget \in Nat /\ budget <= rest /\ (budget = v.funds \/ budget = rest)
    BY <1>3, <1>5, <1>7, <1>9
  <1>11. QED  BY <1>1, <1>2, <1>7, <1>8, <1>10

\* The account of a read bounds what is released of its budget.
LEMMA InvOneBudget == RelayInv => OneBudgetOnce
  <1> SUFFICES ASSUME RelayInv, NEW c \in Calls, calls[c].seen.agent, others = 0,
                      vault.start = calls[c].seen.start, config.terms.periodMs > 0
               PROVE  ReleasedSince(calls[c].seen) <= calls[c].budget
    BY DEF OneBudgetOnce
  <1>1. PICK seen : seen = calls[c].seen
    OBVIOUS
  <1>2. PICK budget : budget = calls[c].budget
    OBVIOUS
  <1>3. PICK total : total = ReleasedSince(seen)
    OBVIOUS
  <1>4. ConfigTyped /\ Book(vault, releases) /\ clock \in Nat
    BY InvConfig, RelayAssumption DEF RelayInv
  <1>5. /\ seen \in VaultType /\ Account(seen, vault, releases)
        /\ \E t \in 2..clock : budget = computeDeployable(seen, config.terms, t + config.skew)
        /\ budget # 0
    BY <1>1, <1>2 DEF RelayInv, CallInv, CallTyped, CallRead, Promised
  <1>6. total = seen.funds - vault.funds /\ total = vault.spent - seen.spent
    BY <1>1, <1>3, <1>5 DEF Account, Since, ReleasedSince
  <1>7. PICK t \in 2..clock : budget = computeDeployable(seen, config.terms, t + config.skew)
    BY <1>5
  <1>8. t + config.skew \in Int
    BY <1>4 DEF ConfigTyped
  <1>9. PICK spent \in {0, seen.spent} : budget = seen.funds \/ budget = config.terms.periodCap - spent
    BY <1>4, <1>5, <1>7, <1>8, PromiseIsMin
  <1>10. /\ vault.funds \in Nat /\ vault.spent \in Nat /\ seen.funds \in Nat /\ seen.spent \in Nat
         /\ vault.spent <= config.terms.periodCap /\ config.terms.periodCap \in Nat
    BY <1>4, <1>5 DEF Book, VaultType, ConfigTyped, TermsType, U64
  <1>11. total <= budget
    BY <1>6, <1>9, <1>10
  <1>12. QED  BY <1>1, <1>2, <1>3, <1>11

\* Calls that read one budget release it once, whatever their number and order,
\* and however late their transactions land: a retry of a transaction that was
\* given up on is held by what the chain has left.
THEOREM OneBudgetIsSpentOnce == RelaySpec => []OneBudgetOnce
  BY RelayCorrect, InvOneBudget, PTL

\* A digest is reported of an accepted transaction only.
LEMMA InvSubmitted == RelayInv => SubmittedMeansReleased
  <1> SUFFICES ASSUME RelayInv, NEW c \in Calls, calls[c].report = "submitted"
               PROVE  {r \in releases : r.call = c} =
                         {ReleaseOf(c, calls[c].legs[i]) : i \in Executable(calls[c].legs)}
    BY DEF SubmittedMeansReleased
  <1>1. calls[c].tx = "accepted"
    BY DEF RelayInv, CallInv, CallTyped
  <1>2. QED  BY <1>1 DEF RelayInv, CallInv, CallLanded

\* A digest that is reported stands for exactly the legs that could be built.
THEOREM SubmittedIsReleased == RelaySpec => []SubmittedMeansReleased
  BY RelayCorrect, InvSubmitted, PTL

-----------------------------------------------------------------------------
(* A promised budget is honoured. *)

\* What the first k legs, and all of them, add up to.
LEMMA SumsOfLegs ==
  ASSUME NEW legs \in Seq(Intent)
  PROVE  /\ SumOf(legs, 1..0) = 0
         /\ \A k \in 0..Len(legs) : SumOf(legs, 1..k) \in Nat /\ SumOf(legs, 1..k) <= Sum(legs)
         /\ \A k \in 0..(Len(legs) - 1) :
               SumOf(legs, 1..(k + 1)) = SumOf(legs, 1..k) + legs[k + 1].amount
  <1>1. Len(legs) \in Nat /\ DOMAIN legs = 1..Len(legs) /\ \A i \in 1..Len(legs) : legs[i] \in Intent
    OBVIOUS
  <1>2. PICK all : all = [i \in 1..Len(legs) |-> legs[i].amount]
    OBVIOUS
  <1>3. \A i \in 1..Len(legs) : all[i] = legs[i].amount /\ all[i] \in Nat
    BY <1>1, <1>2 DEF Intent, U64
  <1>4. ASSUME NEW k \in 0..Len(legs)
        PROVE  /\ SumOf(legs, 1..k) = SumFunctionOnSet(all, 1..k)
               /\ IsFiniteSet(1..k) /\ 1..k \subseteq 1..Len(legs)
    <2>1. IsFiniteSet(1..k) /\ 1..k \subseteq 1..Len(legs)
      BY <1>1, FS_Interval
    <2>2. PICK part : part = [i \in 1..k |-> legs[i].amount]
      OBVIOUS
    <2>3. DOMAIN part = 1..k /\ \A i \in 1..k : part[i] = all[i]
      BY <1>3, <2>1, <2>2
    <2>4. SumOf(legs, 1..k) = SumFunctionOnSet(part, 1..k)
      BY <2>2, <2>3 DEF SumOf, SumFunction
    <2>5. QED  BY <2>1, <2>3, <2>4, SumSame
  <1>5. SumOf(legs, 1..0) = 0
    <2>1. 1..0 = {} /\ 0 \in 0..Len(legs)
      BY <1>1
    <2>2. QED  BY <1>4, <2>1, SumEmpty
  <1>6. ASSUME NEW k \in 0..Len(legs)
        PROVE  SumOf(legs, 1..k) \in Nat /\ SumOf(legs, 1..k) <= Sum(legs)
    <2>1. IsFiniteSet(1..Len(legs)) /\ Len(legs) \in 0..Len(legs)
      BY <1>1, FS_Interval
    <2>2. Sum(legs) = SumFunctionOnSet(all, 1..Len(legs))
      BY <1>1, <1>4, <2>1 DEF Sum
    <2>3. SumFunctionOnSet(all, 1..k) <= SumFunctionOnSet(all, 1..Len(legs))
      BY <1>3, <1>4, <2>1, SumSubset
    <2>4. \A i \in 1..k : all[i] \in Nat
      BY <1>3, <1>4
    <2>5. SumFunctionOnSet(all, 1..k) \in Nat
      BY <1>4, <2>4, SumNat
    <2>6. QED  BY <1>4, <2>2, <2>3, <2>5
  <1>7. ASSUME NEW k \in 0..(Len(legs) - 1)
        PROVE  SumOf(legs, 1..(k + 1)) = SumOf(legs, 1..k) + legs[k + 1].amount
    <2>1. /\ k \in 0..Len(legs) /\ k + 1 \in 0..Len(legs) /\ k + 1 \in 1..Len(legs)
          /\ k + 1 \notin 1..k
      BY <1>1
    <2>2. 1..(k + 1) = 1..k \cup {k + 1}
      BY <1>1
    <2>3. IsFiniteSet(1..k) /\ \A i \in 1..k \cup {k + 1} : all[i] \in Int
      BY <1>3, <1>4, <2>1
    <2>4. SumFunctionOnSet(all, 1..k \cup {k + 1}) = all[k + 1] + SumFunctionOnSet(all, 1..k)
      BY <2>1, <2>3, SumAdd
    <2>5. /\ SumOf(legs, 1..(k + 1)) = SumFunctionOnSet(all, 1..(k + 1))
          /\ SumOf(legs, 1..k) = SumFunctionOnSet(all, 1..k) /\ SumOf(legs, 1..k) \in Nat
      BY <1>4, <1>6, <2>1
    <2>6. all[k + 1] = legs[k + 1].amount /\ all[k + 1] \in Nat
      BY <1>3, <2>1
    <2>7. SumOf(legs, 1..(k + 1)) = all[k + 1] + SumOf(legs, 1..k)
      <3>1. SumFunctionOnSet(all, 1..(k + 1)) = SumFunctionOnSet(all, 1..k \cup {k + 1})
        BY <2>2
      <3>2. SumOf(legs, 1..(k + 1)) = all[k + 1] + SumFunctionOnSet(all, 1..k)
        BY <2>4, <2>5, <3>1
      <3>3. QED  BY <2>5, <3>2
    <2>8. SumOf(legs, 1..k) \in Nat
      BY <2>5
    <2>9. QED  BY <2>6, <2>7, <2>8
  <1>8. QED  BY <1>5, <1>6, <1>7

\* What is left of the treasury once legs of this total are through.
Covers(v, total, last) ==
    /\ v \in VaultType /\ v.agent
    /\ v.funds >= vault.funds - total
    /\ SpentBefore(v) <= SpentBefore(vault) + total
    /\ WindowCountable(v)
    /\ v.lastNonce <= last

\* A window that is countable may be asked for its end, and stays countable when
\* a release opens the next one.
LEMMA CountableStays ==
  ASSUME ConfigTyped, NEW v \in VaultType, WindowCountable(v), NEW leg
  PROVE  /\ WindowEnds(v) <= MaxU64
         /\ WindowCountable(Released(v, leg))
  <1>1. PICK p : p = config.terms.periodMs
    OBVIOUS
  <1>2. PICK s : s = v.start
    OBVIOUS
  <1>3. PICK w : w = Released(v, leg)
    OBVIOUS
  <1>4. p \in Nat /\ s \in Nat /\ clock \in Nat /\ MaxU64 \in Nat
    BY <1>1, <1>2, RelayAssumption DEF ConfigTyped, TermsType, U64, VaultType
  <1>5. WindowElapsed(v) <=> clock >= s + p
    BY <1>1, <1>2 DEF WindowElapsed, WindowEnds
  <1>6. WindowElapsed(v) => clock + p <= MaxU64
    BY <1>1 DEF WindowCountable
  <1>7. ~WindowElapsed(v) => s + p <= MaxU64
    BY <1>1, <1>2 DEF WindowCountable
  <1>8. s + p <= MaxU64
    BY <1>4, <1>5, <1>6, <1>7
  <1>9. w.start = IF WindowElapsed(v) THEN clock ELSE s
    BY <1>2, <1>3 DEF Released
  <1>10. w.start \in {s, clock} /\ w.start + p <= MaxU64
    BY <1>6, <1>7, <1>9
  <1>11. WindowElapsed(w) => clock + p <= MaxU64
    <2>1. WindowElapsed(w) <=> clock >= w.start + p
      BY <1>1 DEF WindowElapsed, WindowEnds
    <2>2. CASE WindowElapsed(v)
      BY <1>6, <2>2
    <2>3. CASE ~WindowElapsed(v)
      BY <1>5, <1>9, <2>1, <2>3
    <2>4. QED  BY <2>2, <2>3
  <1>12. WindowCountable(w)
    BY <1>1, <1>10, <1>11 DEF WindowCountable
  <1>13. WindowEnds(v) <= MaxU64
    BY <1>1, <1>2, <1>8 DEF WindowEnds
  <1>14. QED  BY <1>3, <1>12, <1>13

\* One leg more, as long as the total stays within funds and window.
LEMMA CoversNext ==
  ASSUME ConfigTyped, vault \in VaultType, NEW v, NEW total \in Nat, NEW last \in Int,
         Covers(v, total, last), NEW leg \in Intent, leg.nonce = last + 1, NEW e \in Int,
         clock <= e, clock < config.terms.expiryMs, leg.amount <= config.terms.perTxCap,
         total + leg.amount <= vault.funds,
         SpentBefore(vault) + total + leg.amount <= config.terms.periodCap,
         hasRefFor(leg) => PoolTakes(leg)
  PROVE  /\ AfterLeg(v, leg, e) # Aborted
         /\ Covers(AfterLeg(v, leg, e), total + leg.amount, leg.nonce)
  <1>1. /\ leg.amount \in Nat /\ leg.nonce \in Nat /\ v \in VaultType /\ v.agent
        /\ v.funds \in Nat /\ vault.funds \in Nat /\ v.lastNonce \in Nat
        /\ v.funds >= vault.funds - total /\ v.lastNonce <= last
        /\ SpentBefore(v) <= SpentBefore(vault) + total
    BY DEF Covers, VaultType, Intent, U64
  <1>2. SpentBefore(v) \in Nat /\ SpentBefore(vault) \in Nat
    BY <1>1 DEF SpentBefore, VaultType
  <1>3. v # Aborted
    BY <1>1, RelayAssumption
  <1>4. CASE ~hasRefFor(leg)
    <2>1. AfterLeg(v, leg, e) = v
      BY <1>4 DEF AfterLeg
    <2>2. v.funds >= vault.funds - (total + leg.amount)
      BY <1>1
    <2>3. SpentBefore(v) <= SpentBefore(vault) + (total + leg.amount)
      BY <1>1, <1>2
    <2>4. v.lastNonce <= leg.nonce
      BY <1>1
    <2>5. WindowCountable(v)
      BY DEF Covers
    <2>6. QED  BY <1>1, <1>3, <2>1, <2>2, <2>3, <2>4, <2>5 DEF Covers
  <1>5. CASE hasRefFor(leg)
    <2>1. LegAllowed(v, leg, e)
      <3>1. e >= clock /\ leg.nonce > v.lastNonce /\ leg.amount <= v.funds
        BY <1>1 DEF ConfigTyped
      <3>2. config.terms.periodCap \in Nat
        BY DEF ConfigTyped, TermsType, U64
      <3>3. SpentBefore(v) + leg.amount <= config.terms.periodCap
        BY <1>1, <1>2, <3>2
      <3>4. WindowEnds(v) <= MaxU64
        BY <1>1, CountableStays DEF Covers
      <3>5. QED  BY <1>1, <3>1, <3>3, <3>4 DEF LegAllowed
    <2>2. AfterLeg(v, leg, e) = Released(v, leg)
      BY <1>3, <1>5, <2>1 DEF AfterLeg
    <2>3. PICK w : w = Released(v, leg)
      OBVIOUS
    <2>4. PICK before : before = SpentBefore(v)
      OBVIOUS
    <2>5. /\ w.funds = v.funds - leg.amount /\ w.spent = before + leg.amount
          /\ w.lastNonce = leg.nonce /\ w.agent
      BY <1>1, <2>3, <2>4 DEF Released
    <2>6. w \in VaultType
      <3>1. leg.amount <= v.funds /\ v.start \in Nat /\ clock \in Nat
        BY <1>1, <2>1 DEF LegAllowed, VaultType, ConfigTyped
      <3>2. v.funds - leg.amount \in Nat /\ SpentBefore(v) + leg.amount \in Nat
        BY <1>1, <1>2, <3>1
      <3>3. (IF WindowElapsed(v) THEN clock ELSE v.start) \in Nat
        BY <3>1
      <3>4. QED  BY <1>1, <2>3, <3>2, <3>3 DEF Released, VaultType
    <2>7. SpentBefore(w) <= w.spent
      BY <2>6 DEF SpentBefore, VaultType
    <2>8. before \in Nat /\ before <= SpentBefore(vault) + total
      BY <1>1, <1>2, <2>4
    <2>9. SpentBefore(w) <= SpentBefore(vault) + (total + leg.amount)
      <3>1. SpentBefore(w) \in Nat /\ w.spent \in Nat
        BY <2>6 DEF SpentBefore, VaultType
      <3>2. QED  BY <1>1, <1>2, <2>5, <2>7, <2>8, <3>1
    <2>10. w.funds >= vault.funds - (total + leg.amount)
      BY <1>1, <2>5
    <2>11. w # Aborted
      BY <2>6, RelayAssumption
    <2>12. w.lastNonce <= leg.nonce
      BY <1>1, <2>5
    <2>13. WindowCountable(w)
      BY <1>1, <2>3, CountableStays DEF Covers
    <2>14. QED  BY <2>2, <2>3, <2>5, <2>6, <2>9, <2>10, <2>11, <2>12, <2>13 DEF Covers
  <1>6. QED  BY <1>4, <1>5

\* Legs within a budget that is still covered all go through.
LEMMA LegsCovered ==
  ASSUME ConfigTyped, NEW legs \in Seq(Intent), NEW budget \in Nat, NEW e \in Int,
         clock <= e, clock < config.terms.expiryMs, Sum(legs) <= budget,
         budget <= vault.funds, SpentBefore(vault) + budget <= config.terms.periodCap,
         vault \in VaultType, vault.agent, vault.lastNonce < legs[1].nonce, Len(legs) > 0,
         WindowCountable(vault),
         \A i \in DOMAIN legs : /\ legs[i].nonce = legs[1].nonce + i - 1
                                /\ legs[i].amount <= config.terms.perTxCap,
         \A i \in Executable(legs) : PoolTakes(legs[i])
  PROVE  Executed(legs, e) # Aborted
  <1>1. /\ Len(legs) \in Nat /\ DOMAIN legs = 1..Len(legs) /\ legs[1].nonce \in Nat
        /\ \A i \in 1..Len(legs) : legs[i] \in Intent
    <2>1. Len(legs) \in Nat /\ DOMAIN legs = 1..Len(legs) /\ \A i \in 1..Len(legs) : legs[i] \in Intent
      OBVIOUS
    <2>2. 1 \in 1..Len(legs)
      BY <2>1
    <2>3. QED  BY <2>1, <2>2 DEF Intent, U64
  <1>2. PICK f : RunsLegs(f, Len(legs), legs, e) /\ Executed(legs, e) = f[Len(legs)]
    BY <1>1, LegsRun
  <1>3. PICK first : first = legs[1].nonce
    OBVIOUS
  <1>4. vault.lastNonce \in Nat /\ vault.funds \in Nat /\ config.terms.periodCap \in Nat /\ first \in Nat
    BY <1>1, <1>3 DEF VaultType, ConfigTyped, TermsType, U64
  <1>5. SpentBefore(vault) \in Nat
    BY DEF SpentBefore, VaultType
  <1> DEFINE total(k) == SumOf(legs, 1..k)
             P == {k \in Nat : f[k] # Aborted /\ Covers(f[k], total(k), first + k - 1)}
  <1>6. 0 \in P
    <2>1. f[0] = vault
      BY <1>1, <1>2 DEF RunsLegs
    <2>2. total(0) = 0
      BY SumsOfLegs
    <2>3. Covers(vault, 0, first + 0 - 1)
      <3>1. vault.lastNonce <= first + 0 - 1
        BY <1>3, <1>4
      <3>2. vault.funds >= vault.funds - 0 /\ SpentBefore(vault) <= SpentBefore(vault) + 0
        BY <1>4, <1>5
      <3>3. QED  BY <3>1, <3>2 DEF Covers
    <2>4. vault # Aborted
      BY RelayAssumption
    <2> HIDE DEF total
    <2>5. QED  BY <2>1, <2>2, <2>3, <2>4
  <1>7. ASSUME NEW k \in 0..(Len(legs) - 1), k \in P
        PROVE  k + 1 \in P
    <2>1. /\ k + 1 \in 1..Len(legs) /\ k + 1 \in 0..Len(legs) /\ k \in 0..Len(legs) /\ k \in Nat
          /\ k + 1 # 0 /\ k + 1 - 1 = k
      BY <1>1
    <2>2. PICK leg : leg = legs[k + 1]
      OBVIOUS
    <2>3. f[k + 1] = AfterLeg(f[k], leg, e)
      <3>1. \A j \in 0..Len(legs) : f[j] = IF j = 0 THEN vault ELSE AfterLeg(f[j - 1], legs[j], e)
        BY <1>2 DEF RunsLegs
      <3>2. f[k + 1] = AfterLeg(f[k], legs[k + 1], e)
        BY <2>1, <3>1
      <3>3. QED  BY <2>2, <3>2
    <2>4. PICK t : t = total(k)
      OBVIOUS
    <2>5. t \in Nat /\ total(k + 1) = t + leg.amount /\ total(k + 1) <= Sum(legs)
      BY <2>1, <2>2, <2>4, SumsOfLegs
    <2>6. Sum(legs) \in Nat
      <3>1. Len(legs) \in 0..Len(legs) /\ Sum(legs) = SumOf(legs, 1..Len(legs))
        BY <1>1 DEF Sum
      <3>2. QED  BY <3>1, SumsOfLegs
    <2>7. /\ leg \in Intent /\ leg.amount \in Nat /\ leg.amount <= config.terms.perTxCap
          /\ leg.nonce = first + k
      <3>1. leg \in Intent /\ leg.amount <= config.terms.perTxCap /\ leg.nonce = first + (k + 1) - 1
        BY <1>1, <1>3, <2>1, <2>2
      <3>2. QED  BY <1>4, <2>1, <3>1 DEF Intent, U64
    <2>8. hasRefFor(leg) => PoolTakes(leg)
      BY <1>1, <2>1, <2>2 DEF Executable
    <2>9. t + leg.amount <= budget
      <3> HIDE DEF total
      <3>1. QED  BY <2>5, <2>6, <2>7
    <2>10. t + leg.amount <= vault.funds
      BY <1>4, <2>5, <2>7, <2>9
    <2>11. SpentBefore(vault) + t + leg.amount <= config.terms.periodCap
      <3>1. PICK spent : spent = SpentBefore(vault)
        OBVIOUS
      <3>2. PICK x : x = t + leg.amount
        OBVIOUS
      <3>3. spent \in Nat /\ x \in Nat /\ x <= budget /\ spent + budget <= config.terms.periodCap
        BY <1>5, <2>5, <2>7, <2>9, <3>1, <3>2
      <3>4. spent + x <= config.terms.periodCap
        BY <1>4, <3>3
      <3>5. QED  BY <2>5, <2>7, <3>1, <3>2, <3>3, <3>4
    <2>12. Covers(f[k], t, first + k - 1)
      BY <1>7, <2>4
    <2>13. first + k - 1 \in Int /\ leg.nonce = first + k - 1 + 1 /\ leg.nonce = first + (k + 1) - 1
      BY <1>4, <2>1, <2>7
    <2>14. f[k + 1] # Aborted /\ Covers(f[k + 1], t + leg.amount, leg.nonce)
      BY <2>3, <2>5, <2>7, <2>8, <2>10, <2>11, <2>12, <2>13, CoversNext
    <2> HIDE DEF total
    <2>15. QED  BY <2>1, <2>5, <2>13, <2>14
  <1>8. Len(legs) \in P
    <2> HIDE DEF P
    <2>1. 0..Len(legs) \subseteq P
      BY <1>1, <1>6, <1>7, UpTo
    <2>2. QED  BY <1>1, <2>1
  <1>9. QED  BY <1>2, <1>8

\* Only a transaction that the chain refuses is rolled back.
LEMMA RollsBack ==
  ASSUME RelayInv, [RelayNext]_relayVars, NEW c \in Calls, RolledBack(c)
  PROVE  Executed(calls[c].legs, calls[c].expiresAt) = Aborted
  <1>1. PICK q : q = calls[c]
    OBVIOUS
  <1>2. IsCall(q) /\ q.tx = "inflight" /\ calls'[c].tx = "aborted" /\ q.pc \notin {"idle", "gather"}
    BY <1>1 DEF RelayInv, CallInv, CallTyped, RolledBack
  <1>3. ASSUME NEW d \in Calls, NEW r, Became(d, r)
        PROVE  d = c /\ r.tx = "aborted"
    <2>1. calls' = [k \in Calls |-> IF k = d THEN r ELSE calls[k]]
      BY <1>3 DEF Became, RelayInv
    <2>2. QED  BY <1>1, <1>2, <2>1
  <1>4. ASSUME NEW d \in Calls, NEW x, Reported(d, x)
        PROVE  FALSE
    <2> DEFINE r == [q EXCEPT !.pc = "done", !.report = x]
    <2>1. d = c
      BY <1>3, <1>4 DEF Reported
    <2>2. Became(c, r)
      BY <1>1, <1>4, <2>1 DEF Reported
    <2>3. r.tx = "aborted"
      <3> HIDE DEF r
      <3>1. QED  BY <1>3, <2>2
    <2>4. r.tx = q.tx
      BY <1>2 DEF IsCall, Fields
    <2>5. QED  BY <1>2, <2>3, <2>4
  <1>5. calls' # calls
    BY <1>1, <1>2
  <1>6. CASE UNCHANGED relayVars \/ ClockTick \/ OwnerActs \/ PoolMoves
    BY <1>5, <1>6 DEF relayVars, ClockTick, OwnerActs, PoolMoves
  <1>7. ASSUME NEW d \in Calls, Land(d)
        PROVE  Executed(calls[c].legs, calls[c].expiresAt) = Aborted
    <2>1. CASE Executed(calls[d].legs, calls[d].expiresAt) = Aborted
      <3>1. PICK r : Became(d, r)
        BY <1>7 DEF Land
      <3>2. d = c
        BY <1>3, <3>1
      <3>3. QED  BY <2>1, <3>2
    <2>2. CASE Executed(calls[d].legs, calls[d].expiresAt) # Aborted
      <3> DEFINE r == [q EXCEPT !.tx = "accepted"]
      <3>1. PICK r2 : Became(d, r2)
        BY <1>7 DEF Land
      <3>2. d = c
        BY <1>3, <3>1
      <3>3. Became(c, r)
        BY <1>1, <1>7, <2>2, <3>2 DEF Land
      <3>4. r.tx = "aborted"
        <4> HIDE DEF r
        <4>1. QED  BY <1>3, <3>3
      <3>5. r.tx = "accepted"
        BY <1>2 DEF IsCall, Fields
      <3>6. QED  BY <3>4, <3>5
    <2>3. QED  BY <2>1, <2>2
  <1>8. ASSUME NEW d \in Calls, Throws(d) \/ Answer(d)
        PROVE  FALSE
    BY <1>4, <1>8 DEF Throws, Answer
  <1>9. ASSUME NEW d \in Calls, calls[d].pc \in {"idle", "gather"}, NEW r, Became(d, r)
        PROVE  FALSE
    BY <1>1, <1>2, <1>3, <1>9
  <1>10. ASSUME NEW d \in Calls, ReadBudget(d)
         PROVE  FALSE
    <2>1. calls[d].pc \in {"idle", "gather"}
      BY <1>10 DEF ReadBudget
    <2>2. QED  BY <1>9, <1>10, <2>1 DEF ReadBudget, Reported
  <1>11. ASSUME NEW d \in Calls, NEW failed, Decide(d, failed)
         PROVE  FALSE
    <2>1. calls[d].pc \in {"idle", "gather"}
      BY <1>11 DEF Decide
    <2>2. \E r : Became(d, r)
      BY <1>11 DEF Decide, Reported
    <2>3. QED  BY <1>9, <2>1, <2>2
  <1>12. ASSUME NEW d \in Calls, NEW failed, NEW budget, Preview(d, failed, budget)
         PROVE  FALSE
    <2>1. calls[d].pc \in {"idle", "gather"}
      BY <1>12 DEF Preview
    <2>2. \E r : Became(d, r)
      BY <1>12 DEF Preview
    <2>3. QED  BY <1>9, <2>1, <2>2
  <1>13. QED  BY <1>6, <1>7, <1>8, <1>10, <1>11, <1>12 DEF RelayNext

\* The treasury as it was promised still covers the budget, in the window of the
\* promise or in the one that has rolled since.
LEMMA PromiseHolds ==
  ASSUME RelayInv, NEW c \in Calls, calls[c].tx = "inflight", calls[c].legs # <<>>, ~VaultExcused(c)
  PROVE  /\ calls[c].budget \in Nat /\ calls[c].budget <= vault.funds
         /\ SpentBefore(vault) + calls[c].budget <= config.terms.periodCap
         /\ WindowCountable(vault)
         /\ vault.agent /\ vault.lastNonce < calls[c].legs[1].nonce
  <1>1. PICK q : q = calls[c]
    OBVIOUS
  <1>2. PICK seen : seen = q.seen
    OBVIOUS
  <1>3. ConfigTyped /\ clock \in Nat /\ vault \in VaultType
    BY InvConfig, RelayAssumption DEF RelayInv, Book
  <1>4. /\ seen \in VaultType /\ seen.agent /\ q.legs \in Seq(Intent)
        /\ q.budget # 0
        /\ \E t \in 2..clock : q.budget = computeDeployable(seen, config.terms, t + config.skew)
    BY <1>1, <1>2 DEF RelayInv, CallInv, CallTyped, CallRead, CallSent, Promised
  <1>5. PICK t \in 2..clock : q.budget = computeDeployable(seen, config.terms, t + config.skew)
    BY <1>4
  <1>6. PICK now : now = t + config.skew
    OBVIOUS
  <1>7. now \in Int /\ now <= clock
    BY <1>1, <1>3, <1>5, <1>6 DEF VaultExcused, ConfigTyped
  <1>8. PICK spent : spent = IF now >= seen.start + config.terms.periodMs THEN 0 ELSE seen.spent
    OBVIOUS
  <1>9. q.budget \in Nat /\ q.budget <= seen.funds /\ q.budget <= config.terms.periodCap - spent
    BY <1>3, <1>4, <1>5, <1>6, <1>7, <1>8, PromiseIsMin
  <1>10. [vault EXCEPT !.funds = seen.funds] = seen /\ vault.funds >= seen.funds
    BY <1>1, <1>2 DEF VaultExcused, Undisturbed
  <1>11. /\ vault.spent = seen.spent /\ vault.start = seen.start
         /\ vault.lastNonce = seen.lastNonce /\ vault.agent
    BY <1>3, <1>4, <1>10 DEF VaultType
  <1>12. /\ seen.spent \in Nat /\ seen.start \in Nat /\ seen.funds \in Nat /\ vault.funds \in Nat
         /\ config.terms.periodMs \in Nat /\ config.terms.periodCap \in Nat /\ seen.lastNonce \in Nat
    <2>1. config.terms.periodMs \in Nat /\ config.terms.periodCap \in Nat
      BY <1>3 DEF ConfigTyped, TermsType, U64
    <2>2. QED  BY <1>3, <1>4, <2>1 DEF VaultType
  <1>13. SpentBefore(vault) \in Nat /\ SpentBefore(vault) <= spent /\ spent \in Nat
    BY <1>3, <1>7, <1>8, <1>11, <1>12 DEF SpentBefore, WindowElapsed, WindowEnds
  <1>14. q.legs[1].nonce > seen.lastNonce
    <2>1. ~(q.legs[1].nonce <= seen.lastNonce)
      BY <1>1, <1>2 DEF VaultExcused
    <2>2. q.legs[1] \in Intent
      BY <1>1, <1>4
    <2>3. q.legs[1].nonce \in Nat
      BY <2>2 DEF Intent, U64
    <2>4. QED  BY <1>12, <2>1, <2>3
  <1>15. q.budget <= vault.funds
    BY <1>9, <1>10, <1>12
  <1>16. SpentBefore(vault) + q.budget <= config.terms.periodCap
    <2>1. PICK before : before = SpentBefore(vault)
      OBVIOUS
    <2>2. PICK cap : cap = config.terms.periodCap
      OBVIOUS
    <2>3. before \in Nat /\ cap \in Nat /\ before <= spent /\ q.budget <= cap - spent
      BY <1>9, <1>12, <1>13, <2>1, <2>2
    <2>4. QED  BY <1>9, <1>13, <2>1, <2>2, <2>3
  <1>17. vault.lastNonce < q.legs[1].nonce
    <2>1. q.legs[1] \in Intent
      BY <1>1, <1>4
    <2>2. q.legs[1].nonce \in Nat
      BY <2>1 DEF Intent, U64
    <2>3. QED  BY <1>11, <1>12, <1>14, <2>2
  <1>18. WindowCountable(vault)
    BY DEF VaultExcused
  <1>19. QED  BY <1>1, <1>9, <1>11, <1>15, <1>16, <1>17, <1>18

\* A transaction without legs changes nothing.
LEMMA NothingSent ==
  ASSUME RelayInv, NEW e
  PROVE  Executed(<<>>, e) # Aborted
  <1>1. Len(<<>>) = 0
    OBVIOUS
  <1>2. PICK f : RunsLegs(f, 0, <<>>, e) /\ Executed(<<>>, e) = f[0]
    BY <1>1, LegsRun
  <1>3. Executed(<<>>, e) = vault
    BY <1>2 DEF RunsLegs
  <1>4. QED  BY <1>3, RelayAssumption DEF RelayInv, Book

\* Unless the treasury or a pool refuses, legs within the budget are executed.
LEMMA Honoured ==
  ASSUME RelayInv, NEW c \in Calls, calls[c].tx = "inflight", ~VaultExcused(c),
         \A i \in Executable(calls[c].legs) : PoolTakes(calls[c].legs[i]),
         Sum(calls[c].legs) <= calls[c].budget
  PROVE  Executed(calls[c].legs, calls[c].expiresAt) # Aborted
  <1>1. PICK legs : legs = calls[c].legs
    OBVIOUS
  <1>2. PICK e : e = calls[c].expiresAt
    OBVIOUS
  <1>3. /\ ConfigTyped /\ clock \in Nat /\ vault \in VaultType /\ legs \in Seq(Intent) /\ e \in Int
        /\ \A i \in DOMAIN legs : /\ legs[i].nonce = legs[1].nonce + i - 1
                                  /\ legs[i].amount <= config.terms.perTxCap
    BY <1>1, <1>2, InvConfig, RelayAssumption DEF RelayInv, Book, CallInv, CallTyped, CallSent
  <1>4. CASE legs = <<>>
    BY <1>1, <1>2, <1>4, NothingSent
  <1>5. CASE legs # <<>>
    <2>1. Len(legs) > 0
      BY <1>3, <1>5
    <2>2. PICK budget : budget = calls[c].budget
      OBVIOUS
    <2>3. /\ budget \in Nat /\ budget <= vault.funds
          /\ SpentBefore(vault) + budget <= config.terms.periodCap
          /\ vault.agent /\ vault.lastNonce < legs[1].nonce /\ WindowCountable(vault)
      BY <1>1, <1>5, <2>2, PromiseHolds
    <2>4. clock <= e /\ clock < config.terms.expiryMs
      <3>1. config.terms.expiryMs \in Nat
        BY <1>3 DEF ConfigTyped, TermsType, U64
      <3>2. QED  BY <1>2, <1>3, <3>1 DEF VaultExcused
    <2>5. Sum(legs) <= budget /\ \A i \in Executable(legs) : PoolTakes(legs[i])
      BY <1>1, <2>2
    <2>6. Executed(legs, e) # Aborted
      BY <1>3, <2>1, <2>3, <2>4, <2>5, LegsCovered
    <2>7. QED  BY <1>1, <1>2, <2>6
  <1>6. QED  BY <1>4, <1>5

\* The same of a step of the system.
LEMMA HonouredStep ==
  ASSUME RelayInv, [RelayNext]_relayVars
  PROVE  [\A c \in Calls : RolledBack(c) =>
            \/ VaultExcused(c)
            \/ \E i \in Executable(calls[c].legs) : ~PoolTakes(calls[c].legs[i])
            \/ Sum(calls[c].legs) > calls[c].budget]_relayVars
  <1> SUFFICES ASSUME NEW c \in Calls, RolledBack(c), ~VaultExcused(c),
                      \A i \in Executable(calls[c].legs) : PoolTakes(calls[c].legs[i])
               PROVE  Sum(calls[c].legs) > calls[c].budget
    OBVIOUS
  <1>1. calls[c].tx = "inflight"
    BY DEF RolledBack
  <1>2. ~(Sum(calls[c].legs) <= calls[c].budget)
    BY <1>1, Honoured, RollsBack
  <1>3. calls[c].legs \in Seq(Intent)
    BY <1>1 DEF RelayInv, CallInv, CallTyped
  <1>4. PICK legs : legs = calls[c].legs
    OBVIOUS
  <1>5. Sum(legs) \in Nat
    <2>1. legs \in Seq(Intent) /\ Len(legs) \in Nat /\ Len(legs) \in 0..Len(legs)
      BY <1>3, <1>4
    <2>2. Sum(legs) = SumOf(legs, 1..Len(legs))
      BY <2>1 DEF Sum
    <2>3. QED  BY <2>1, <2>2, SumsOfLegs
  <1>6. CASE legs # <<>>
    <2>1. calls[c].budget \in Nat
      BY <1>1, <1>4, <1>6, PromiseHolds
    <2>2. QED  BY <1>2, <1>4, <1>5, <2>1
  <1>7. CASE legs = <<>>
    BY <1>4, <1>7, NothingSent, RollsBack
  <1>8. QED  BY <1>6, <1>7

\* The promise of computeDeployable: legs within it are rolled back only when
\* the treasury has changed since it was read, when a mandate, an intent or a
\* nonce is out of date, when the end of the window is no number of the chain,
\* when the agent's clock is ahead, or by a pool.
THEOREM PromisedBudgetIsHonoured == RelaySpec => BudgetIsHonoured
  BY RelayCorrect, HonouredStep, PTL DEF RelaySpec, BudgetIsHonoured

-----------------------------------------------------------------------------
(* The split of a call: what its legs have to do with its curves. *)

\* A curve is of the protocol it was built for, and its cap is what the pool has
\* room for, if it has any.
LEMMA BuiltCurve ==
  ASSUME NEW p \in {"suilend", "navi", "scallop"}, NEW pool, IsPool(p, pool)
  PROVE  LET curve == buildCurve(p, pool)
         IN  /\ curve.protocol = p /\ IsCap(curve.depositCap)
             /\ (curve.depositCap # Uncapped /\ curve.depositCap # 0) =>
                   pool.limit \in Nat /\ curve.depositCap = pool.limit - pool.supplied
  <1>1. pool.supplied \in Nat /\ (pool.limit \in Nat \/ pool.limit = Uncapped) /\ Uncapped \notin Int
    BY CurveAssumption DEF IsPool
  <1>2. PICK cap : cap = buildCurve(p, pool).depositCap
    OBVIOUS
  <1>3. PICK room : room = Room(pool)
    OBVIOUS
  <1>4. PICK limit : limit = pool.limit
    OBVIOUS
  <1>5. limit \in Nat => room \in Int /\ room = limit - pool.supplied
    BY <1>1, <1>3, <1>4 DEF Room
  <1>6. CASE p = "suilend"
    <2>1. /\ buildCurve(p, pool).protocol = "suilend"
          /\ cap = IF limit = Uncapped THEN Uncapped ELSE Max({0, room})
      BY <1>2, <1>3, <1>4, <1>6 DEF buildCurve, SuilendCurve
    <2>2. CASE limit = Uncapped
      <3>1. cap = Uncapped
        BY <2>1, <2>2
      <3>2. IsCap(cap)
        BY <3>1 DEF IsCap
      <3>3. QED  BY <1>2, <1>6, <2>1, <3>1, <3>2
    <2>3. CASE limit \in Nat
      <3>1. limit # Uncapped
        BY <1>1, <2>3
      <3>2. room \in Int /\ room = limit - pool.supplied
        BY <1>5, <2>3
      <3>3. cap = IF room > 0 THEN room ELSE 0
        BY <2>1, <3>1, <3>2, ZeroOrMore
      <3>4. cap \in Nat
        BY <3>2, <3>3
      <3>5. IsCap(cap)
        BY <3>4 DEF IsCap
      <3>6. cap # 0 => cap = room
        BY <3>3
      <3>7. QED  BY <1>2, <1>4, <1>6, <2>1, <2>3, <3>2, <3>5, <3>6
    <2>4. QED  BY <1>1, <1>4, <2>2, <2>3
  <1>7. CASE p # "suilend"
    <2>1. /\ buildCurve(p, pool).protocol = p
          /\ cap = IF limit # Uncapped /\ room > 0 THEN room ELSE Uncapped
      <3>1. CASE p = "navi"
        <4>1. buildCurve(p, pool) = NaviCurve(pool)
          BY <3>1 DEF buildCurve
        <4>2. /\ NaviCurve(pool).protocol = "navi"
              /\ NaviCurve(pool).depositCap =
                    IF pool.limit # Uncapped /\ Room(pool) > 0 THEN Room(pool) ELSE Uncapped
          BY DEF NaviCurve, DerivedCurve
        <4>3. QED  BY <1>2, <1>3, <1>4, <3>1, <4>1, <4>2
      <3>2. CASE p = "scallop"
        <4>1. buildCurve(p, pool) = ScallopCurve(pool)
          BY <3>2 DEF buildCurve
        <4>2. /\ ScallopCurve(pool).protocol = "scallop"
              /\ ScallopCurve(pool).depositCap =
                    IF pool.limit # Uncapped /\ Room(pool) > 0 THEN Room(pool) ELSE Uncapped
          BY DEF ScallopCurve, DerivedCurve
        <4>3. QED  BY <1>2, <1>3, <1>4, <3>2, <4>1, <4>2
      <3>3. QED  BY <1>7, <3>1, <3>2
    <2>2. CASE limit # Uncapped /\ room > 0
      <3>1. limit \in Nat /\ room \in Int /\ room = limit - pool.supplied
        BY <1>1, <1>4, <1>5, <2>2
      <3>2. cap = room /\ cap \in Nat
        BY <2>1, <2>2, <3>1
      <3>3. IsCap(cap)
        BY <3>2 DEF IsCap
      <3>4. QED  BY <1>2, <1>4, <2>1, <3>1, <3>2, <3>3
    <2>3. CASE ~(limit # Uncapped /\ room > 0)
      <3>1. cap = Uncapped
        BY <2>1, <2>3
      <3>2. IsCap(cap)
        BY <3>1 DEF IsCap
      <3>3. QED  BY <1>2, <2>1, <3>1, <3>2
    <2>4. QED  BY <2>2, <2>3
  <1>8. QED  BY <1>6, <1>7

\* A curve is made of numbers.
LEMMA BuiltNumbers ==
  ASSUME NEW p \in {"suilend", "navi", "scallop"}, NEW pool, IsPool(p, pool)
  PROVE  IsCurve(buildCurve(p, pool))
  <1>1. /\ pool.supplied \in Nat /\ pool.borrowed \in Nat /\ IsRates(p, pool.rates)
        /\ pool.borrowApr \in Int /\ pool.supplyApr \in Int /\ pool.spreadPct \in Int
        /\ pool.boost \in Int /\ UtilScale \in Nat \ {0}
    BY CurveAssumption DEF IsPool
  <1>2. PICK f : f = pool.rates
    OBVIOUS
  <1>3. PICK util : util = Utilization(pool)
    OBVIOUS
  <1>4. util \in Int
    <2>1. PICK part : part = (pool.borrowed * UtilScale) \div pool.supplied
      OBVIOUS
    <2>2. pool.supplied > 0 => part \in Int
      <3>1. PICK parts : parts = pool.borrowed * UtilScale
        OBVIOUS
      <3>2. parts \in Int
        BY <1>1, <3>1
      <3>3. ASSUME NEW d \in Nat \ {0}
            PROVE  parts \div d \in Int
        BY <3>2
      <3>4. QED  BY <1>1, <2>1, <3>1, <3>3
    <2>3. pool.supplied > 0 => Clamp(part, 0, UtilScale) \in Int
      BY <1>1, <2>2, ClampIsInt
    <2>4. util = IF pool.supplied <= 0 THEN 0 ELSE Clamp(part, 0, UtilScale)
      BY <1>3, <2>1 DEF Utilization
    <2>5. QED  BY <1>1, <2>3, <2>4
  <1>5. PICK free : free = Liquidity(pool)
    OBVIOUS
  <1>6. free \in Nat
    <2>1. PICK rest : rest = pool.supplied - pool.borrowed
      OBVIOUS
    <2>2. rest \in Int
      BY <1>1, <2>1
    <2>3. free = IF rest > 0 THEN rest ELSE 0
      BY <1>5, <2>1, <2>2, ZeroOrMore DEF Liquidity
    <2>4. QED  BY <2>2, <2>3
  <1>7. PICK factor : factor = deriveReserveFactorPct(pool.borrowApr, pool.supplyApr, util)
    OBVIOUS
  <1>8. factor \in Int
    <2>1. PICK gross : gross = (pool.borrowApr * util) \div UtilScale
      OBVIOUS
    <2>2. gross \in Int
      <3>1. PICK scaled : scaled = pool.borrowApr * util
        OBVIOUS
      <3>2. scaled \in Int
        BY <1>1, <1>4, <3>1
      <3>3. QED  BY <1>1, <2>1, <3>1, <3>2
    <2>3. PICK part : part = 100 - (100 * pool.supplyApr) \div gross
      OBVIOUS
    <2>4. gross > 0 => part \in Int
      <3>1. PICK percent : percent = 100 * pool.supplyApr
        OBVIOUS
      <3>2. percent \in Int
        BY <1>1, <3>1
      <3>3. ASSUME NEW d \in Nat \ {0}
            PROVE  100 - percent \div d \in Int
        BY <3>2
      <3>4. QED  BY <2>2, <2>3, <3>1, <3>3
    <2>5. gross > 0 => Clamp(part, 0, 95) \in Int
      BY <2>4, ClampIsInt
    <2>6. factor = IF gross <= 0 THEN 0 ELSE Clamp(part, 0, 95)
      BY <1>7, <2>1, <2>3 DEF deriveReserveFactorPct
    <2>7. QED  BY <2>2, <2>5, <2>6
  <1>9. ASSUME NEW candidate, NEW S, IsFiniteSet(S), S \subseteq Int,
               candidate \in [S -> Int]
        PROVE  IsPoints(validatedBorrowAprPoints(candidate, util, pool.borrowApr))
    <2>1. DOMAIN candidate = S /\ \A u \in DOMAIN candidate : candidate[u] \in Int
      BY <1>9
    <2>2. QED  BY <1>1, <1>4, <1>9, <2>1, ValidPoints
  <1>10. IsPoints(validatedBorrowAprPoints(<<>>, util, pool.borrowApr))
    <2>1. DOMAIN <<>> = {} /\ IsFiniteSet({})
      BY FS_EmptySet
    <2>2. QED  BY <1>1, <1>4, <2>1, ValidPoints
  <1>11. ASSUME NEW q, NEW candidate, NEW reward \in Int,
                IsPoints(validatedBorrowAprPoints(candidate, util, pool.borrowApr))
         PROVE  IsCurve(DerivedCurve(q, pool, candidate, reward))
    <2>1. PICK curve : curve = DerivedCurve(q, pool, candidate, reward)
      OBVIOUS
    <2>2. /\ curve.borrowed = pool.borrowed /\ curve.available = free
          /\ curve.points = validatedBorrowAprPoints(candidate, util, pool.borrowApr)
          /\ curve.reserveFactorPct = factor /\ curve.rewardSupplyApr = reward
      BY <1>3, <1>5, <1>7, <2>1 DEF DerivedCurve
    <2>3. QED  BY <1>1, <1>6, <1>8, <1>11, <2>1, <2>2 DEF IsCurve
  <1>12. CASE p = "suilend"
    <2>1. f \in [DOMAIN f -> Int] /\ DOMAIN f \subseteq Int /\ IsFiniteSet(DOMAIN f)
      BY <1>1, <1>2, <1>12 DEF IsRates
    <2>2. IsPoints(validatedBorrowAprPoints(f, util, pool.borrowApr))
      BY <1>9, <2>1
    <2>3. PICK curve : curve = buildCurve(p, pool)
      OBVIOUS
    <2>4. /\ curve.borrowed = pool.borrowed /\ curve.available = free
          /\ curve.points = validatedBorrowAprPoints(f, util, pool.borrowApr)
          /\ curve.reserveFactorPct = pool.spreadPct /\ curve.rewardSupplyApr = 0
      BY <1>2, <1>3, <1>5, <1>12, <2>3 DEF buildCurve, SuilendCurve
    <2>5. QED  BY <1>1, <1>6, <2>2, <2>3, <2>4 DEF IsCurve
  <1>13. CASE p = "navi"
    <2>1. /\ f.optimal \in Int /\ f.base \in Int /\ f.multiplier \in Int /\ f.jump \in Int
      BY <1>1, <1>2, <1>13 DEF IsRates
    <2>2. PICK S : S = {0, f.optimal, UtilScale}
      OBVIOUS
    <2>3. PICK kinked : kinked = [u \in S |-> f.base + (IF u > 0 THEN f.multiplier ELSE 0)
                                                 + (IF u > f.optimal THEN f.jump ELSE 0)]
      OBVIOUS
    <2>4. S \subseteq Int /\ IsFiniteSet(S)
      <3>1. IsFiniteSet({0} \cup {f.optimal} \cup {UtilScale})
        BY FS_Singleton, FS_Union
      <3>2. {0} \cup {f.optimal} \cup {UtilScale} = S
        BY <2>2
      <3>3. QED  BY <1>1, <2>1, <2>2, <3>1, <3>2
    <2>5. kinked \in [S -> Int]
      BY <2>1, <2>3
    <2>6. PICK candidate : candidate = IF 0 < f.optimal /\ f.optimal < UtilScale THEN kinked ELSE <<>>
      OBVIOUS
    <2>7. IsPoints(validatedBorrowAprPoints(candidate, util, pool.borrowApr))
      BY <1>9, <1>10, <2>4, <2>5, <2>6
    <2>8. buildCurve(p, pool) = DerivedCurve("navi", pool, candidate, pool.boost)
      BY <1>2, <1>13, <2>2, <2>3, <2>6 DEF buildCurve, NaviCurve
    <2>9. QED  BY <1>1, <1>11, <2>7, <2>8
  <1>14. CASE p = "scallop"
    <2>1. /\ f.mid \in Int /\ f.high \in Int /\ f.base \in Int /\ f.atMid \in Int
          /\ f.atHigh \in Int /\ f.max \in Int
      BY <1>1, <1>2, <1>14 DEF IsRates
    <2>2. PICK S : S = {0, f.mid, f.high, UtilScale}
      OBVIOUS
    <2>3. PICK kinked : kinked = [u \in S |-> CASE u = 0 -> f.base [] u = f.mid -> f.atMid
                                               [] u = f.high -> f.atHigh [] OTHER -> f.max]
      OBVIOUS
    <2>4. S \subseteq Int /\ IsFiniteSet(S)
      <3>1. IsFiniteSet({0} \cup {f.mid} \cup {f.high} \cup {UtilScale})
        BY FS_Singleton, FS_Union
      <3>2. {0} \cup {f.mid} \cup {f.high} \cup {UtilScale} = S
        BY <2>2
      <3>3. QED  BY <1>1, <2>1, <2>2, <3>1, <3>2
    <2>5. kinked \in [S -> Int]
      <3>1. ASSUME NEW u \in S
            PROVE  kinked[u] \in Int
        BY <2>1, <2>3
      <3>2. QED  BY <2>3, <3>1
    <2>6. PICK candidate :
             candidate = IF 0 < f.mid /\ f.mid < f.high /\ f.high < UtilScale THEN kinked ELSE <<>>
      OBVIOUS
    <2>7. IsPoints(validatedBorrowAprPoints(candidate, util, pool.borrowApr))
      BY <1>9, <1>10, <2>4, <2>5, <2>6
    <2>8. buildCurve(p, pool) = DerivedCurve("scallop", pool, candidate, 0)
      BY <1>2, <1>14, <2>2, <2>3, <2>6 DEF buildCurve, ScallopCurve
    <2>9. QED  BY <1>11, <2>7, <2>8
  <1>15. QED  BY <1>12, <1>13, <1>14

\* Each curve was built of a pool, each of another one.
BuiltOf(curves, at) ==
    \A i \in DOMAIN curves :
       LET p == curves[i].protocol
       IN  p \in {"suilend", "navi", "scallop"} /\ IsPool(p, at[p]) /\ curves[i] = buildCurve(p, at[p])

\* So are the curves that are gathered.
LEMMA GatheredCurves ==
  ASSUME PoolsTyped(pools), NEW wanted, NEW failed
  PROVE  LET curves == gatherCurves(wanted, failed)
         IN  /\ Splittable(curves) /\ BuiltOf(curves, pools)
             /\ Yields({curves[i] : i \in DOMAIN curves})
  <1>1. PICK curves : curves = gatherCurves(wanted, failed)
    OBVIOUS
  <1> DEFINE has(p) == p \in wanted \ failed /\ p \in DOMAIN pools /\ HasCurve(p, pools[p])
  <1>2. PICK found : found = {k \in DOMAIN ProtocolOrder : has(ProtocolOrder[k])}
    OBVIOUS
  <1>3. PICK R : R = {p \in found \X found : p[1] < p[2]}
    OBVIOUS
  <1>4. PICK o : o = SortedBy(found, R)
    OBVIOUS
  <1>5. curves = [i \in DOMAIN o |-> buildCurve(ProtocolOrder[o[i]], pools[ProtocolOrder[o[i]]])]
    BY <1>1, <1>2, <1>3, <1>4 DEF gatherCurves
  <1>6. DOMAIN ProtocolOrder = 1..3
    BY DEF ProtocolOrder
  <1>7. found \in SUBSET (1..3) /\ \A k \in found : ProtocolOrder[k] \in DOMAIN pools
    BY <1>2, <1>6
  <1> HIDE DEF has
  <1>8. IsFiniteSet(found)
    <2>1. 1 \in Int /\ 3 \in Int
      OBVIOUS
    <2>2. IsFiniteSet(1..3)
      BY <2>1, FS_Interval, Zenon
    <2>3. QED  BY <1>7, <2>2, FS_Subset
  <1>9. InOrder(found, R)
    <2>1. \A i, j \in found : <<i, j>> \in R <=> i < j
      BY <1>3
    <2>2. \A i \in found : i \in Int
      BY <1>7
    <2>3. /\ \A i \in found : ~(i < i)
          /\ \A i, j \in found : i # j => i < j \/ j < i
          /\ \A i, j, k \in found : i < j /\ j < k => i < k
      BY <2>2
    <2>4. QED  BY <2>1, <2>3 DEF InOrder
  <1>10. PICK m \in Nat : m = Cardinality(found)
    BY <1>8, FS_CardinalityType
  <1>11. o \in [1..m -> found] /\ \A i, j \in 1..m : i < j => <<o[i], o[j]>> \in R
    BY <1>4, <1>8, <1>9, <1>10, Sorting
  <1>12. \A i, j \in 1..m : i # j => o[i] # o[j]
    BY <1>9, <1>11, SortedOnce
  <1>13. ASSUME NEW i \in 1..m
         PROVE  LET p == ProtocolOrder[o[i]]
                IN  /\ p \in {"suilend", "navi", "scallop"} /\ IsPool(p, pools[p])
                    /\ curves[i] = buildCurve(p, pools[p])
                    /\ curves[i].protocol = p /\ IsCap(curves[i].depositCap)
                    /\ marginalYield(curves[i], 0) \in Int
    <2>1. PICK p : p = ProtocolOrder[o[i]]
      OBVIOUS
    <2>2. o[i] \in found /\ o[i] \in 1..3 /\ p \in DOMAIN pools
      BY <1>7, <1>11, <2>1
    <2>3. p \in {"suilend", "navi", "scallop"}
      BY <2>1, <2>2 DEF ProtocolOrder
    <2>4. IsPool(p, pools[p])
      BY <2>2 DEF PoolsTyped
    <2>5. i \in DOMAIN o
      BY <1>11
    <2>6. curves[i] = buildCurve(p, pools[p])
      BY <1>5, <2>1, <2>5
    <2>7. PICK pool : pool = pools[p]
      OBVIOUS
    <2>8. IsPool(p, pool) /\ curves[i] = buildCurve(p, pool)
      BY <2>4, <2>6, <2>7
    <2>9. buildCurve(p, pool).protocol = p /\ IsCap(buildCurve(p, pool).depositCap)
      BY <2>3, <2>8, BuiltCurve
    <2>10. marginalYield(buildCurve(p, pool), 0) \in Int
      BY <2>3, <2>8, BuiltNumbers, FirstYieldIsInt
    <2>11. QED  BY <2>1, <2>3, <2>4, <2>6, <2>8, <2>9, <2>10
  <1>14. curves = [i \in 1..m |-> curves[i]] /\ DOMAIN curves = 1..m
    BY <1>5, <1>11
  <1>15. Distinct(curves)
    <2>1. \A k, h \in 1..3 : k # h => ProtocolOrder[k] # ProtocolOrder[h]
      BY DEF ProtocolOrder
    <2>2. \A i \in 1..m : o[i] \in 1..3
      BY <1>7, <1>11
    <2>3. QED  BY <1>12, <1>13, <1>14, <2>1, <2>2 DEF Distinct
  <1>16. curves \in Seq({curves[i] : i \in DOMAIN curves})
    <2>1. PICK X : X = {curves[i] : i \in DOMAIN curves}
      OBVIOUS
    <2>2. curves \in [1..m -> X]
      BY <1>14, <2>1
    <2>3. QED  BY <2>1, <2>2, LenOf
  <1>17. Splittable(curves)
    BY <1>13, <1>14, <1>15, <1>16 DEF Splittable
  <1>18. BuiltOf(curves, pools)
    BY <1>13, <1>14 DEF BuiltOf
  <1>19. Yields({curves[i] : i \in DOMAIN curves})
    BY <1>13, <1>14 DEF Yields
  <1>20. QED  BY <1>1, <1>17, <1>18, <1>19

\* The enclave caps the legs it was given, and leaves out none.
LEMMA DecidedSplit ==
  ASSUME NEW funded, NEW curves, Splittable(curves), Split(funded, curves), NEW cap \in Nat,
         funded # <<>> => cap # 0, NEW n
  PROVE  Split(decide(funded, cap, n), curves)
  <1>1. PICK m \in Nat :
           /\ DOMAIN funded = 1..m
           /\ \A k \in 1..m :
                 /\ funded[k].amount \in Nat \ {0}
                 /\ \E i \in DOMAIN curves :
                       /\ funded[k].protocol = curves[i].protocol
                       /\ curves[i].depositCap # Uncapped =>
                             funded[k].amount <= curves[i].depositCap + Len(curves)
           /\ Distinct(funded)
    BY DEF Split
  <1>2. PICK legs : legs = decide(funded, cap, n)
    OBVIOUS
  <1>3. /\ DOMAIN legs = 1..m
        /\ \A k \in 1..m :
              /\ legs[k].protocol = funded[k].protocol
              /\ legs[k].amount = IF funded[k].amount < cap THEN funded[k].amount ELSE cap
    BY <1>1, <1>2 DEF decide
  <1>4. ASSUME NEW k \in 1..m
        PROVE  /\ legs[k].amount \in Nat \ {0}
               /\ \E i \in DOMAIN curves :
                     /\ legs[k].protocol = curves[i].protocol
                     /\ curves[i].depositCap # Uncapped =>
                           legs[k].amount <= curves[i].depositCap + Len(curves)
    <2>1. PICK i \in DOMAIN curves :
             /\ funded[k].protocol = curves[i].protocol
             /\ curves[i].depositCap # Uncapped =>
                   funded[k].amount <= curves[i].depositCap + Len(curves)
      BY <1>1
    <2>2. cap # 0
      BY <1>1
    <2>3. IsCap(curves[i].depositCap) /\ Len(curves) \in Nat
      BY DEF Splittable
    <2>4. /\ funded[k].amount \in Nat \ {0} /\ legs[k].amount \in Nat \ {0}
          /\ legs[k].amount <= funded[k].amount
      BY <1>1, <1>3, <2>2
    <2>5. QED  BY <1>3, <2>1, <2>3, <2>4 DEF IsCap
  <1>5. Distinct(legs)
    BY <1>1, <1>3 DEF Distinct
  <1>6. QED  BY <1>2, <1>3, <1>4, <1>5 DEF Split

-----------------------------------------------------------------------------
(* The split of every call, at all times. *)

\* The legs of a call split its budget over its curves, within the caps of those,
\* and what is on its way was decided on curves of the pools of that moment.
SolvedCall(r) ==
    /\ Splittable(r.curves) /\ Split(r.legs, r.curves)
    /\ r.tx = "inflight" => BuiltOf(r.curves, r.at)

SolvedCalls == \A c \in Calls : SolvedCall(calls[c])

SolvedInv == PoolsTyped(pools) /\ SolvedCalls

\* A call that has not begun has nothing to split.
LEMMA IdleSolved == SolvedCall(Idle)
  <1>1. Idle.curves = <<>> /\ Idle.legs = <<>> /\ Idle.tx = "none"
    BY DEF Idle
  <1>2. Splittable(<<>>)
    <2>1. \A X : <<>> \in Seq(X)
      OBVIOUS
    <2>2. DOMAIN <<>> = {}
      OBVIOUS
    <2>3. QED  BY <2>1, <2>2 DEF Splittable, Distinct
  <1>3. Split(<<>>, <<>>)
    <2>1. DOMAIN <<>> = 1..0
      OBVIOUS
    <2>2. QED  BY <2>1 DEF Split, Distinct
  <1>4. QED  BY <1>1, <1>2, <1>3 DEF SolvedCall

\* A call keeps its split while it keeps its curves, its legs and its pools, and
\* nothing of it is sent anew.
LEMMA SolvedStill ==
  ASSUME NEW q, NEW r, SolvedCall(q), r.curves = q.curves, r.legs = q.legs, r.at = q.at,
         r.tx = "inflight" => q.tx = "inflight"
  PROVE  SolvedCall(r)
  BY DEF SolvedCall

\* A step of one call.
LEMMA SolvedOne ==
  ASSUME RelayInv, SolvedCalls, NEW c \in Calls, NEW r, Became(c, r), SolvedCall(r)
  PROVE  SolvedCalls'
  <1>1. calls' = [d \in Calls |-> IF d = c THEN r ELSE calls[d]]
    BY DEF RelayInv, Became
  <1>2. ASSUME NEW d \in Calls
        PROVE  SolvedCall(calls'[d])
    <2>1. CASE d = c
      BY <1>1, <2>1
    <2>2. CASE d # c
      BY <1>1, <2>2 DEF SolvedCalls
    <2>3. QED  BY <2>1, <2>2
  <1>3. QED  BY <1>2 DEF SolvedCalls, SolvedCall

\* Calls nobody writes.
LEMMA SolvedIdle ==
  ASSUME SolvedCalls, calls' = calls
  PROVE  SolvedCalls'
  BY DEF SolvedCalls, SolvedCall

\* A call that ends.
LEMMA EndSolved ==
  ASSUME RelayInv, SolvedCalls, NEW c \in Calls, NEW x, Reported(c, x)
  PROVE  SolvedCalls'
  <1>1. PICK q : q = calls[c]
    OBVIOUS
  <1> DEFINE r == [q EXCEPT !.pc = "done", !.report = x]
  <1>2. Became(c, r)
    BY <1>1 DEF Reported
  <1>3. IsCall(q) /\ SolvedCall(q)
    BY <1>1 DEF RelayInv, CallInv, CallTyped, SolvedCalls
  <1>4. r.curves = q.curves /\ r.legs = q.legs /\ r.at = q.at /\ r.tx = q.tx
    BY <1>3 DEF IsCall, Fields
  <1> HIDE DEF r
  <1>5. SolvedCall(r)
    BY <1>3, <1>4, SolvedStill
  <1>6. QED  BY <1>2, <1>5, SolvedOne

\* A call that reads the budget.
LEMMA ReadSolved ==
  ASSUME RelayInv, SolvedCalls, NEW c \in Calls, ReadBudget(c)
  PROVE  SolvedCalls'
  <1>1. PICK n : n = computeDeployable(vault, config.terms, Local)
    OBVIOUS
  <1>2. CASE n = 0
    <2>1. Reported(c, "cannot supply")
      BY <1>1, <1>2 DEF ReadBudget
    <2>2. QED  BY <2>1, EndSolved
  <1>3. CASE n # 0
    <2>1. PICK q : q = calls[c]
      OBVIOUS
    <2>2. PICK v : v = vault
      OBVIOUS
    <2> DEFINE r == [q EXCEPT !.pc = "gather", !.budget = n, !.seen = v]
    <2>3. Became(c, r)
      BY <1>1, <1>3, <2>1, <2>2 DEF ReadBudget
    <2>4. IsCall(q) /\ SolvedCall(q)
      BY <2>1 DEF RelayInv, CallInv, CallTyped, SolvedCalls
    <2>5. r.curves = q.curves /\ r.legs = q.legs /\ r.at = q.at /\ r.tx = q.tx
      BY <2>4 DEF IsCall, Fields
    <2> HIDE DEF r
    <2>6. SolvedCall(r)
      BY <2>4, <2>5, SolvedStill
    <2>7. QED  BY <2>3, <2>6, SolvedOne
  <1>4. QED  BY <1>2, <1>3

\* What computeDeployable makes of a treasury is an amount.
LEMMA DeployableIsNat ==
  ASSUME ConfigTyped, NEW v \in VaultType, NEW now \in Int
  PROVE  computeDeployable(v, config.terms, now) \in Nat
  <1>1. CASE computeDeployable(v, config.terms, now) = 0
    BY <1>1
  <1>2. CASE computeDeployable(v, config.terms, now) # 0
    BY <1>2, PromiseIsMin
  <1>3. QED  BY <1>1, <1>2

\* So is the budget of a call that gathers curves.
LEMMA GatheringBudget ==
  ASSUME RelayInv, NEW c \in Calls, calls[c].pc = "gather"
  PROVE  calls[c].budget \in Nat
  <1>1. ConfigTyped /\ clock \in Nat
    BY InvConfig, RelayAssumption DEF RelayInv
  <1>2. PICK q : q = calls[c]
    OBVIOUS
  <1>3. /\ q.seen \in VaultType
        /\ \E t \in 2..clock : q.budget = computeDeployable(q.seen, config.terms, t + config.skew)
    BY <1>2 DEF RelayInv, CallInv, CallTyped, CallRead, Promised
  <1>4. PICK t \in 2..clock : q.budget = computeDeployable(q.seen, config.terms, t + config.skew)
    BY <1>3
  <1>5. t + config.skew \in Int
    BY <1>1 DEF ConfigTyped
  <1>6. QED  BY <1>1, <1>2, <1>3, <1>4, <1>5, DeployableIsNat

\* What treasury_supply sends splits its budget over the curves it gathered.
LEMMA DecideSolved ==
  ASSUME RelayInv, SolvedInv, NEW c \in Calls, NEW failed, Decide(c, failed)
  PROVE  SolvedCalls'
  <1>1. calls[c].pc = "gather" /\ SolvedCalls
    BY DEF Decide, SolvedInv
  <1>2. PICK q : q = calls[c]
    OBVIOUS
  <1>3. PICK curves : curves = gatherCurves(config.allowed, failed)
    OBVIOUS
  <1>4. PICK cap : cap = config.terms.perTxCap
    OBVIOUS
  <1>5. PICK funded : funded = solveAllocation(curves, calls[c].budget, cap, 0, config.above)
    OBVIOUS
  <1>6. PICK ms \in 0..(Millis - 1) :
           LET legs == decide(funded, cap, Local * Millis + ms)
           IN  IF Executable(legs) = {} \/ legs \notin Seq(Intent)
               THEN Reported(c, CASE curves = <<>> -> "no curves"
                                  [] curves # <<>> /\ funded = <<>> -> "threw"
                                  [] funded # <<>> /\ Executable(legs) = {} -> "not submitted"
                                  [] OTHER -> "reverted")
               ELSE Became(c, [calls[c] EXCEPT !.pc = "sent", !.curves = curves, !.legs = legs,
                                 !.cap = cap, !.expiresAt = Local + IntentLife,
                                 !.tx = "inflight", !.at = pools])
    BY <1>3, <1>4, <1>5 DEF Decide
  <1>7. PICK n : n = Local * Millis + ms
    OBVIOUS
  <1>8. PICK legs : legs = decide(funded, cap, n)
    OBVIOUS
  <1>9. CASE Executable(legs) = {} \/ legs \notin Seq(Intent)
    <2>1. PICK x : Reported(c, x)
      BY <1>6, <1>7, <1>8, <1>9
    <2>2. QED  BY <1>1, <2>1, EndSolved
  <1>10. CASE ~(Executable(legs) = {} \/ legs \notin Seq(Intent))
    <2>1. PICK e : e = Local + IntentLife
      OBVIOUS
    <2>2. PICK at : at = pools
      OBVIOUS
    <2> DEFINE r == [q EXCEPT !.pc = "sent", !.curves = curves, !.legs = legs, !.cap = cap,
                       !.expiresAt = e, !.tx = "inflight", !.at = at]
    <2>3. Became(c, r)
      BY <1>2, <1>6, <1>7, <1>8, <1>10, <2>1, <2>2
    <2>4. IsCall(q)
      BY <1>2 DEF RelayInv, CallInv, CallTyped
    <2>5. r.curves = curves /\ r.legs = legs /\ r.at = at
      BY <2>4 DEF IsCall, Fields
    <2> HIDE DEF r
    <2>6. Splittable(curves) /\ BuiltOf(curves, at)
      BY <1>3, <2>2, GatheredCurves DEF SolvedInv
    <2>7. cap \in Nat /\ IsCap(cap)
      BY <1>4, InvConfig DEF ConfigTyped, TermsType, U64, IsCap
    <2>8. q.budget \in Nat
      BY <1>1, <1>2, GatheringBudget
    <2>9. Split(funded, curves) /\ (funded # <<>> => cap # 0)
      BY <1>2, <1>5, <2>6, <2>7, <2>8, SolvedLegs
    <2>10. Split(legs, curves)
      BY <1>8, <2>6, <2>7, <2>9, DecidedSplit
    <2>11. SolvedCall(r)
      BY <2>5, <2>6, <2>10 DEF SolvedCall
    <2>12. QED  BY <1>1, <2>3, <2>11, SolvedOne
  <1>11. QED  BY <1>9, <1>10

\* What a preview may split is an amount.
LEMMA PreviewedBudget ==
  ASSUME RelayInv, NEW budget \in PreviewBudgets
  PROVE  budget \in Nat
  <1>1. /\ ConfigTyped /\ vault \in VaultType /\ clock \in Nat
        /\ {config.maxSupplyRaw, config.minIdleRaw} \subseteq Nat
    BY InvConfig, RelayAssumption DEF RelayInv, Book
  <1>2. CASE config.paused
    BY <1>2 DEF PreviewBudgets
  <1>3. CASE ~config.paused /\ config.vaulted
    <2>1. Local \in Int
      BY <1>1 DEF ConfigTyped, Local
    <2>2. budget = computeDeployable(vault, config.terms, Local)
      BY <1>3 DEF PreviewBudgets
    <2>3. QED  BY <1>1, <2>1, <2>2, DeployableIsNat
  <1>4. CASE ~config.paused /\ ~config.vaulted
    <2>1. PICK skip \in BOOLEAN : budget = buildSupplyHints(config.funds, skip)
      BY <1>4 DEF PreviewBudgets
    <2>2. PICK most : most = config.maxSupplyRaw
      OBVIOUS
    <2>3. PICK funds : funds = config.funds
      OBVIOUS
    <2>4. most \in Nat /\ funds \in Nat
      BY <1>1, <2>2, <2>3 DEF ConfigTyped
    <2>5. Min({funds, most}) \in {funds, most}
      BY <2>4, MinOfTwo
    <2>6. budget = 0 \/ budget = Min({funds, most})
      BY <2>1, <2>2, <2>3 DEF buildSupplyHints
    <2>7. QED  BY <2>4, <2>5, <2>6
  <1>5. QED  BY <1>2, <1>3, <1>4

\* A preview splits in the same way.
LEMMA PreviewSolved ==
  ASSUME RelayInv, SolvedInv, NEW c \in Calls, NEW failed, NEW budget \in PreviewBudgets,
         Preview(c, failed, budget)
  PROVE  SolvedCalls'
  <1>1. PICK q : q = calls[c]
    OBVIOUS
  <1>2. PICK curves : curves = gatherCurves(config.allowed \cap config.write, failed)
    OBVIOUS
  <1>3. PICK cap : cap = config.maxSupplyRaw
    OBVIOUS
  <1>4. PICK least : least = config.minIdleRaw
    OBVIOUS
  <1>5. PICK legs : legs = solveAllocation(curves, budget, cap, least, config.above)
    OBVIOUS
  <1> DEFINE r == [q EXCEPT !.pc = "done", !.budget = budget, !.curves = curves, !.cap = cap,
                     !.minPosition = least, !.report = "preview", !.legs = legs]
  <1>6. IsCall(q) /\ q.pc = "idle" /\ q.tx = "none"
    BY <1>1 DEF RelayInv, CallInv, CallTyped, Preview
  <1>7. r.curves = curves /\ r.legs = legs /\ r.tx = q.tx
    BY <1>6 DEF IsCall, Fields
  <1>8. Became(c, r)
    BY <1>1, <1>2, <1>3, <1>4, <1>5 DEF Preview
  <1> HIDE DEF r
  <1>9. Splittable(curves)
    BY <1>2, GatheredCurves DEF SolvedInv
  <1>10. IsCap(cap) /\ budget \in Nat
    BY <1>3, PreviewedBudget, RelayAssumption DEF RelayInv, IsCap
  <1>11. Split(legs, curves)
    BY <1>5, <1>9, <1>10, SolvedLegs
  <1>12. SolvedCall(r)
    BY <1>6, <1>7, <1>9, <1>11 DEF SolvedCall
  <1>13. QED  BY <1>8, <1>12, SolvedOne DEF SolvedInv

\* A transaction that lands is on its way no more.
LEMMA LandSolved ==
  ASSUME RelayInv, SolvedCalls, NEW c \in Calls, Land(c)
  PROVE  SolvedCalls'
  <1>1. PICK q : q = calls[c]
    OBVIOUS
  <1>2. IsCall(q) /\ SolvedCall(q)
    BY <1>1 DEF RelayInv, CallInv, CallTyped, SolvedCalls
  <1>3. PICK x \in {"aborted", "accepted"} : Became(c, [q EXCEPT !.tx = x])
    BY <1>1 DEF Land
  <1> DEFINE r == [q EXCEPT !.tx = x]
  <1>4. r.curves = q.curves /\ r.legs = q.legs /\ r.at = q.at /\ r.tx = x
    BY <1>2 DEF IsCall, Fields
  <1>5. Became(c, r)
    BY <1>3
  <1> HIDE DEF r
  <1>6. SolvedCall(r)
    BY <1>2, <1>4, SolvedStill
  <1>7. QED  BY <1>5, <1>6, SolvedOne

\* A pool with more in it is a pool.
LEMMA PoolGrows ==
  ASSUME NEW p, NEW pool, IsPool(p, pool), NEW n \in Nat
  PROVE  IsPool(p, [pool EXCEPT !.supplied = @ + n])
  BY DEF IsPool

\* Pools are typed, whatever lands and whoever deposits.
LEMMA PoolsStayTyped ==
  ASSUME RelayInv, PoolsTyped(pools), [RelayNext]_relayVars
  PROVE  PoolsTyped(pools)'
  <1>1. CASE pools' = pools
    BY <1>1 DEF PoolsTyped, IsPool
  <1>2. ASSUME NEW f, pools' = [p \in DOMAIN pools |-> f[p]], \A p \in DOMAIN pools : IsPool(p, f[p])
        PROVE  PoolsTyped(pools)'
    <2>1. DOMAIN pools' = DOMAIN pools /\ \A p \in DOMAIN pools : pools'[p] = f[p]
      BY <1>2
    <2>2. pools' = [p \in DOMAIN pools' |-> pools'[p]] /\ \A p \in DOMAIN pools' : IsPool(p, pools'[p])
      BY <1>2, <2>1
    <2>3. QED  BY <2>2 DEF PoolsTyped, IsPool
  <1>3. ASSUME NEW c \in Calls, Land(c)
        PROVE  PoolsTyped(pools)'
    <2>1. PICK legs : legs = calls[c].legs
      OBVIOUS
    <2>2. legs \in Seq(Intent)
      BY <1>3, <2>1 DEF Land, RelayInv, CallInv, CallTyped
    <2> DEFINE n(p) == SumOf(legs, {i \in Executable(legs) : legs[i].protocol = p})
               f == [p \in DOMAIN pools |-> [pools[p] EXCEPT !.supplied = @ + n(p)]]
    <2>3. pools' = pools \/ pools' = f
      BY <1>3, <2>1 DEF Land
    <2>4. ASSUME NEW p
          PROVE  n(p) \in Nat
      <3>1. PICK S : S = {i \in Executable(legs) : legs[i].protocol = p}
        OBVIOUS
      <3>2. IsFiniteSet(1..Len(legs)) /\ DOMAIN legs = 1..Len(legs)
        BY <2>2, FS_Interval
      <3>3. S \subseteq 1..Len(legs)
        BY <3>1, <3>2 DEF Executable
      <3>4. IsFiniteSet(S)
        BY <3>2, <3>3, FS_Subset
      <3>5. PICK g : g = [i \in S |-> legs[i].amount]
        OBVIOUS
      <3>6. \A i \in S : legs[i] \in Intent
        BY <2>2, <3>2, <3>3
      <3>7. \A i \in S : g[i] \in Nat
        BY <3>5, <3>6 DEF Intent, U64
      <3>8. DOMAIN g = S
        BY <3>5
      <3>9. SumFunctionOnSet(g, S) \in Nat
        BY <3>4, <3>7, SumNat
      <3>10. QED  BY <3>1, <3>5, <3>8, <3>9 DEF SumOf, SumFunction
    <2> HIDE DEF n
    <2>5. \A p \in DOMAIN pools : IsPool(p, f[p])
      <3>1. SUFFICES ASSUME NEW p \in DOMAIN pools
                     PROVE  IsPool(p, f[p])
        OBVIOUS
      <3>2. PICK pool : pool = pools[p]
        OBVIOUS
      <3>3. IsPool(p, pool) /\ f[p] = [pool EXCEPT !.supplied = @ + n(p)]
        BY <3>1, <3>2 DEF PoolsTyped
      <3>4. QED  BY <2>4, <3>3, PoolGrows
    <2>6. f = [p \in DOMAIN pools |-> f[p]]
      OBVIOUS
    <2> HIDE DEF f
    <2>7. QED  BY <1>1, <1>2, <2>3, <2>5, <2>6
  <1>4. ASSUME PoolMoves
        PROVE  PoolsTyped(pools)'
    <2>1. PICK p : pools' = [pools EXCEPT ![p].supplied = @ + 1]
      BY <1>4 DEF PoolMoves
    <2>2. pools = [d \in DOMAIN pools |-> pools[d]]
      BY DEF PoolsTyped
    <2> DEFINE f == [d \in DOMAIN pools |->
                       IF d = p THEN [pools[d] EXCEPT !.supplied = @ + 1] ELSE pools[d]]
    <2>3. pools' = f
      BY <2>1, <2>2
    <2>4. \A d \in DOMAIN pools : IsPool(d, f[d])
      <3>1. SUFFICES ASSUME NEW d \in DOMAIN pools
                     PROVE  IsPool(d, f[d])
        OBVIOUS
      <3>2. PICK pool : pool = pools[d]
        OBVIOUS
      <3>3. IsPool(d, pool) /\ (f[d] = [pool EXCEPT !.supplied = @ + 1] \/ f[d] = pool)
        BY <3>1, <3>2 DEF PoolsTyped
      <3>4. ASSUME NEW n \in Nat
            PROVE  IsPool(d, [pool EXCEPT !.supplied = @ + n])
        BY <3>3, PoolGrows
      <3>5. IsPool(d, [pool EXCEPT !.supplied = @ + 1])
        BY <3>4
      <3>6. QED  BY <3>3, <3>5
    <2>5. f = [d \in DOMAIN pools |-> f[d]]
      OBVIOUS
    <2> HIDE DEF f
    <2>6. QED  BY <1>2, <2>3, <2>4, <2>5
  <1>5. CASE UNCHANGED relayVars \/ ClockTick \/ OwnerActs
    BY <1>1, <1>5 DEF relayVars, ClockTick, OwnerActs
  <1>6. ASSUME NEW c \in Calls, ReadBudget(c) \/ Throws(c) \/ Answer(c)
        PROVE  PoolsTyped(pools)'
    BY <1>1, <1>6 DEF ReadBudget, Throws, Answer
  <1>7. ASSUME NEW c \in Calls, NEW failed,
               Decide(c, failed) \/ \E budget \in PreviewBudgets : Preview(c, failed, budget)
        PROVE  PoolsTyped(pools)'
    BY <1>1, <1>7 DEF Decide, Preview
  <1>8. QED  BY <1>3, <1>4, <1>5, <1>6, <1>7 DEF RelayNext

\* It holds at first.
LEMMA InitSolved == RelayInit => SolvedInv
  <1> SUFFICES ASSUME RelayInit
               PROVE  SolvedInv
    OBVIOUS
  <1>1. PoolsTyped(pools)
    BY RelayAssumption DEF RelayInit
  <1>2. \A c \in Calls : calls[c] = Idle
    BY DEF RelayInit
  <1>3. QED  BY <1>1, <1>2, IdleSolved DEF SolvedInv, SolvedCalls

\* Every step keeps it.
LEMMA NextSolved == RelayInv /\ SolvedInv /\ [RelayNext]_relayVars => SolvedInv'
  <1> SUFFICES ASSUME RelayInv, SolvedInv, [RelayNext]_relayVars
               PROVE  SolvedInv'
    OBVIOUS
  <1>1. PoolsTyped(pools)' /\ SolvedCalls
    BY PoolsStayTyped DEF SolvedInv
  <1>2. CASE UNCHANGED relayVars \/ ClockTick \/ OwnerActs \/ PoolMoves
    <2>1. calls' = calls
      BY <1>2 DEF relayVars, ClockTick, OwnerActs, PoolMoves
    <2>2. QED  BY <1>1, <2>1, SolvedIdle DEF SolvedInv
  <1>3. ASSUME NEW c \in Calls, ReadBudget(c) \/ Throws(c) \/ Land(c) \/ Answer(c)
        PROVE  SolvedCalls'
    <2>1. CASE ReadBudget(c)
      BY <1>1, <2>1, ReadSolved
    <2>2. CASE Throws(c)
      BY <1>1, <2>2, EndSolved DEF Throws
    <2>3. CASE Land(c)
      BY <1>1, <2>3, LandSolved
    <2>4. CASE Answer(c)
      <3>1. PICK x : Reported(c, x)
        BY <2>4 DEF Answer
      <3>2. QED  BY <1>1, <3>1, EndSolved
    <2>5. QED  BY <1>3, <2>1, <2>2, <2>3, <2>4
  <1>4. ASSUME NEW c \in Calls, NEW failed \in SUBSET config.flaky,
               Decide(c, failed) \/ \E budget \in PreviewBudgets : Preview(c, failed, budget)
        PROVE  SolvedCalls'
    BY <1>4, DecideSolved, PreviewSolved
  <1>5. QED  BY <1>1, <1>2, <1>3, <1>4 DEF RelayNext, SolvedInv

\* A curve holds the one leg of its protocol, if there is one.
LEMMA OneLegOfACurve ==
  ASSUME NEW curves, Splittable(curves), NEW legs, Split(legs, curves), NEW i \in DOMAIN curves
  PROVE  /\ AmountIn(legs, curves[i]) \in Nat
         /\ curves[i].depositCap # Uncapped =>
               AmountIn(legs, curves[i]) <= curves[i].depositCap + Len(curves)
         /\ \A k \in DOMAIN legs : legs[k].protocol = curves[i].protocol =>
               AmountIn(legs, curves[i]) = legs[k].amount /\ legs[k].amount # 0
  <1>1. PICK curve : curve = curves[i]
    OBVIOUS
  <1>2. PICK S : S = {k \in DOMAIN legs : legs[k].protocol = curve.protocol}
    OBVIOUS
  <1>3. PICK g : g = [k \in S |-> legs[k].amount]
    OBVIOUS
  <1>4. DOMAIN g = S /\ AmountIn(legs, curve) = SumFunctionOnSet(g, S)
    BY <1>2, <1>3 DEF AmountIn, SumOf, SumFunction
  <1>5. IsCap(curve.depositCap) /\ Len(curves) \in Nat
    BY <1>1 DEF Splittable
  <1>6. CASE S = {}
    <2>1. AmountIn(legs, curve) = 0
      BY <1>4, <1>6, SumEmpty
    <2>2. \A k \in DOMAIN legs : legs[k].protocol # curve.protocol
      BY <1>2, <1>6
    <2>3. curve.depositCap # Uncapped => 0 <= curve.depositCap + Len(curves)
      BY <1>5 DEF IsCap
    <2>4. QED  BY <1>1, <2>1, <2>2, <2>3
  <1>7. ASSUME NEW k \in S
        PROVE  /\ AmountIn(legs, curve) = legs[k].amount /\ legs[k].amount \in Nat \ {0}
               /\ curve.depositCap # Uncapped => legs[k].amount <= curve.depositCap + Len(curves)
               /\ \A h \in S : h = k
    <2>1. k \in DOMAIN legs /\ legs[k].protocol = curve.protocol
      BY <1>2
    <2>2. PICK j \in DOMAIN curves :
             /\ legs[k].amount \in Nat \ {0}
             /\ legs[k].protocol = curves[j].protocol
             /\ curves[j].depositCap # Uncapped => legs[k].amount <= curves[j].depositCap + Len(curves)
      BY <2>1 DEF Split
    <2>3. j = i
      BY <1>1, <2>1, <2>2 DEF Splittable, Distinct
    <2>4. \A h \in S : h = k
      BY <1>2, <2>1 DEF Split, Distinct
    <2>5. S = {k} /\ g[k] = legs[k].amount
      BY <1>3, <2>4
    <2>6. SumFunctionOnSet(g, {k}) = g[k]
      <3>1. g[k] \in Int
        BY <2>2, <2>5
      <3>2. QED  BY <3>1, SumSingle, Zenon
    <2>7. QED  BY <1>1, <1>4, <2>2, <2>3, <2>4, <2>5, <2>6
  <1>8. CASE S # {}
    <2>1. PICK k \in S : TRUE
      BY <1>8
    <2>2. \A h \in DOMAIN legs : legs[h].protocol = curve.protocol => h = k
      BY <1>2, <1>7, <2>1
    <2>3. QED  BY <1>1, <1>7, <2>1, <2>2
  <1>9. QED  BY <1>6, <1>8

\* The legs of a call pass the caps of its curves by rounding only.
LEMMA SolvedCaps == SolvedInv => CapsUpToRounding
  BY OneLegOfACurve DEF SolvedInv, SolvedCalls, SolvedCall, CapsUpToRounding

\* The split of every call, in every reachable state.
THEOREM RelaySolved == RelaySpec => []SolvedInv
  BY RelayCorrect, InitSolved, NextSolved, PTL DEF RelaySpec

\* However many pools, whatever their curves and caps, and whether the budget fits
\* them or not: no leg, sent or previewed, passes its pool's cap by more than the
\* units that rounding may have lost.
THEOREM CapsHoldUpToRounding == RelaySpec => []CapsUpToRounding
  BY RelaySolved, SolvedCaps, PTL

-----------------------------------------------------------------------------
(* What the legs of a call add up to.  Where the yields of alike pools jump at *)
(* one level, the double the bisection ends with may lie on the side where the *)
(* legs overshoot by more than rounding (config.above, the run alike_pools): all *)
(* that follows is about the other side. *)

\* The legs of a call spend its budget at most, those of a preview no less than
\* the minimum each; a call that has not decided has none.
SpentCall(r) ==
    /\ r.pc \in {"idle", "gather"} => r.legs = <<>>
    /\ Spends(r.legs, r.budget, 0)
    /\ r.report = "preview" => Spends(r.legs, r.budget, r.minPosition)

SpentCalls == \A c \in Calls : SpentCall(calls[c])

SpentInv == ~config.above => SpentCalls

\* A call that has not begun spends nothing.
LEMMA IdleSpent == SpentCall(Idle)
  <1>1. /\ Idle.legs = <<>> /\ Idle.budget = 0 /\ Idle.report = "none"
        /\ Idle.pc \in {"idle", "gather"}
    BY DEF Idle
  <1>2. Spends(<<>>, 0, 0)
    BY NothingSpent
  <1>3. QED  BY <1>1, <1>2 DEF SpentCall

\* A step of one call.
LEMMA SpentOne ==
  ASSUME RelayInv, SpentCalls, NEW c \in Calls, NEW r, Became(c, r), SpentCall(r)
  PROVE  SpentCalls'
  <1>1. calls' = [d \in Calls |-> IF d = c THEN r ELSE calls[d]]
    BY DEF RelayInv, Became
  <1>2. ASSUME NEW d \in Calls
        PROVE  SpentCall(calls'[d])
    <2>1. CASE d = c
      BY <1>1, <2>1
    <2>2. CASE d # c
      BY <1>1, <2>2 DEF SpentCalls
    <2>3. QED  BY <2>1, <2>2
  <1>3. QED  BY <1>2 DEF SpentCalls, SpentCall

\* A call that ends, and not as a preview.
LEMMA EndSpent ==
  ASSUME RelayInv, SpentCalls, NEW c \in Calls, NEW x, Reported(c, x), x # "preview"
  PROVE  SpentCalls'
  <1>1. PICK q : q = calls[c]
    OBVIOUS
  <1> DEFINE r == [q EXCEPT !.pc = "done", !.report = x]
  <1>2. Became(c, r)
    BY <1>1 DEF Reported
  <1>3. IsCall(q) /\ SpentCall(q)
    BY <1>1 DEF RelayInv, CallInv, CallTyped, SpentCalls
  <1>4. r.legs = q.legs /\ r.budget = q.budget /\ r.pc = "done" /\ r.report = x
    BY <1>3 DEF IsCall, Fields
  <1> HIDE DEF r
  <1>5. SpentCall(r)
    BY <1>3, <1>4 DEF SpentCall
  <1>6. QED  BY <1>2, <1>5, SpentOne

\* A call that has read the budget has spent nothing of it.
LEMMA ReadSpent ==
  ASSUME RelayInv, SpentCalls, NEW c \in Calls, ReadBudget(c)
  PROVE  SpentCalls'
  <1>1. PICK n : n = computeDeployable(vault, config.terms, Local)
    OBVIOUS
  <1>2. CASE n = 0
    <2>1. Reported(c, "cannot supply")
      BY <1>1, <1>2 DEF ReadBudget
    <2>2. QED  BY <2>1, EndSpent
  <1>3. CASE n # 0
    <2>1. PICK q : q = calls[c]
      OBVIOUS
    <2>2. PICK v : v = vault
      OBVIOUS
    <2> DEFINE r == [q EXCEPT !.pc = "gather", !.budget = n, !.seen = v]
    <2>3. Became(c, r)
      BY <1>1, <1>3, <2>1, <2>2 DEF ReadBudget
    <2>4. IsCall(q) /\ CallTyped(q) /\ SpentCall(q) /\ q.pc = "idle"
      BY <2>1 DEF RelayInv, CallInv, CallTyped, SpentCalls, ReadBudget
    <2>5. r.legs = q.legs /\ r.budget = n /\ r.report = q.report
      BY <2>4 DEF IsCall, Fields
    <2>6. q.legs = <<>> /\ q.report # "preview"
      BY <2>4 DEF SpentCall, CallTyped
    <2> HIDE DEF r
    <2>7. n \in Nat
      <3>1. ConfigTyped /\ vault \in VaultType
        BY InvConfig DEF RelayInv, Book
      <3>2. Local \in Int
        BY <3>1 DEF ConfigTyped, Local
      <3>3. QED  BY <1>1, <3>1, <3>2, DeployableIsNat
    <2>8. Spends(<<>>, n, 0)
      BY <2>7, NothingSpent
    <2>9. SpentCall(r)
      BY <2>5, <2>6, <2>8 DEF SpentCall
    <2>10. QED  BY <2>3, <2>9, SpentOne
  <1>4. QED  BY <1>2, <1>3

\* Legs of a split have amounts.
LEMMA SplitAmounts ==
  ASSUME NEW curves, NEW legs, Split(legs, curves)
  PROVE  \E m \in Nat : DOMAIN legs = 1..m /\ \A k \in 1..m : legs[k].amount \in Nat \ {0}
  BY DEF Split

\* The enclave caps the legs it was given: they spend no more.
LEMMA DecidedSpends ==
  ASSUME NEW funded, NEW curves, Split(funded, curves), NEW cap \in Nat,
         NEW budget \in Nat, Spends(funded, budget, 0), NEW n
  PROVE  Spends(decide(funded, cap, n), budget, 0)
  <1>1. PICK m \in Nat : DOMAIN funded = 1..m /\ \A k \in 1..m : funded[k].amount \in Nat \ {0}
    BY SplitAmounts
  <1>2. PICK legs : legs = decide(funded, cap, n)
    OBVIOUS
  <1>3. /\ DOMAIN legs = 1..m
        /\ \A k \in 1..m :
              legs[k].amount = IF funded[k].amount < cap THEN funded[k].amount ELSE cap
    BY <1>1, <1>2 DEF decide
  <1>4. \A k \in 1..m : legs[k].amount \in Nat /\ legs[k].amount <= funded[k].amount
    BY <1>1, <1>3
  <1>5. PICK g : g = Amounts(legs)
    OBVIOUS
  <1>6. PICK r : r = Amounts(funded)
    OBVIOUS
  <1>7. DOMAIN g = 1..m /\ \A k \in 1..m : g[k] = legs[k].amount
    BY <1>3, <1>5 DEF Amounts
  <1>8. DOMAIN r = 1..m /\ \A k \in 1..m : r[k] = funded[k].amount
    BY <1>1, <1>6 DEF Amounts
  <1> DEFINE o == [k \in 1..m |-> k]
  <1>9. o \in [1..m -> 1..m] /\ \A k \in 1..m : o[k] = k
    OBVIOUS
  <1> HIDE DEF o
  <1>10. IsFiniteSet(1..m)
    BY FS_Interval
  <1>11. /\ \A k \in 1..m : r[k] \in Nat
         /\ \A i, j \in 1..m : i # j => o[i] # o[j]
         /\ \A k \in 1..m : g[k] \in Nat /\ g[k] <= r[o[k]]
    BY <1>1, <1>4, <1>7, <1>8, <1>9
  <1>12. SumFunctionOnSet(g, 1..m) <= SumFunctionOnSet(r, 1..m)
    BY <1>9, <1>10, <1>11, SumsBelow
  <1>13. SumFunctionOnSet(g, 1..m) \in Nat /\ SumFunctionOnSet(r, 1..m) \in Nat
    <2>1. \A k \in 1..m : g[k] \in Nat
      BY <1>11
    <2>2. \A k \in 1..m : r[k] \in Nat
      BY <1>11
    <2>3. QED  BY <1>10, <2>1, <2>2, SumNat
  <1>14. SumFunctionOnSet(r, 1..m) <= budget
    BY <1>6, <1>8 DEF Spends, SumFunction
  <1>15. SumFunction(g) <= budget
    BY <1>7, <1>12, <1>13, <1>14 DEF SumFunction
  <1>16. \A i \in DOMAIN legs : legs[i].amount >= 0
    BY <1>3, <1>4
  <1>17. QED  BY <1>2, <1>5, <1>15, <1>16 DEF Spends

\* What treasury_supply sends spends its budget at most.
LEMMA DecideSpent ==
  ASSUME RelayInv, SolvedInv, ~config.above, SpentCalls, NEW c \in Calls, NEW failed,
         Decide(c, failed)
  PROVE  SpentCalls'
  <1>1. calls[c].pc = "gather"
    BY DEF Decide
  <1>2. PICK q : q = calls[c]
    OBVIOUS
  <1>3. PICK curves : curves = gatherCurves(config.allowed, failed)
    OBVIOUS
  <1>4. PICK cap : cap = config.terms.perTxCap
    OBVIOUS
  <1>5. PICK funded : funded = solveAllocation(curves, calls[c].budget, cap, 0, config.above)
    OBVIOUS
  <1>6. PICK ms \in 0..(Millis - 1) :
           LET legs == decide(funded, cap, Local * Millis + ms)
           IN  IF Executable(legs) = {} \/ legs \notin Seq(Intent)
               THEN Reported(c, CASE curves = <<>> -> "no curves"
                                  [] curves # <<>> /\ funded = <<>> -> "threw"
                                  [] funded # <<>> /\ Executable(legs) = {} -> "not submitted"
                                  [] OTHER -> "reverted")
               ELSE Became(c, [calls[c] EXCEPT !.pc = "sent", !.curves = curves, !.legs = legs,
                                 !.cap = cap, !.expiresAt = Local + IntentLife,
                                 !.tx = "inflight", !.at = pools])
    BY <1>3, <1>4, <1>5 DEF Decide
  <1>7. PICK n : n = Local * Millis + ms
    OBVIOUS
  <1>8. PICK legs : legs = decide(funded, cap, n)
    OBVIOUS
  <1>9. CASE Executable(legs) = {} \/ legs \notin Seq(Intent)
    <2>1. PICK x \in {"no curves", "threw", "not submitted", "reverted"} : Reported(c, x)
      BY <1>6, <1>7, <1>8, <1>9
    <2>2. QED  BY <2>1, EndSpent
  <1>10. CASE ~(Executable(legs) = {} \/ legs \notin Seq(Intent))
    <2>1. PICK e : e = Local + IntentLife
      OBVIOUS
    <2>2. PICK at : at = pools
      OBVIOUS
    <2> DEFINE r == [q EXCEPT !.pc = "sent", !.curves = curves, !.legs = legs, !.cap = cap,
                       !.expiresAt = e, !.tx = "inflight", !.at = at]
    <2>3. Became(c, r)
      BY <1>2, <1>6, <1>7, <1>8, <1>10, <2>1, <2>2
    <2>4. IsCall(q) /\ CallTyped(q) /\ q.pc = "gather"
      BY <1>1, <1>2 DEF RelayInv, CallInv, CallTyped
    <2>5. r.legs = legs /\ r.budget = q.budget /\ r.pc = "sent" /\ r.report = q.report
      BY <2>4 DEF IsCall, Fields
    <2>6. q.report # "preview"
      BY <2>4 DEF CallTyped
    <2> HIDE DEF r
    <2>7. Splittable(curves) /\ Yields({curves[i] : i \in DOMAIN curves})
      BY <1>3, GatheredCurves DEF SolvedInv
    <2>8. cap \in Nat /\ IsCap(cap)
      BY <1>4, InvConfig DEF ConfigTyped, TermsType, U64, IsCap
    <2>9. q.budget \in Nat
      BY <1>1, <1>2, GatheringBudget
    <2>10. Split(funded, curves)
      BY <1>2, <1>5, <2>7, <2>8, <2>9, SolvedLegs
    <2>11. Spends(funded, q.budget, 0)
      BY <1>2, <1>5, <2>7, <2>8, <2>9, SolvedWithinBudget
    <2>12. Spends(legs, q.budget, 0)
      BY <1>8, <2>8, <2>9, <2>10, <2>11, DecidedSpends
    <2>13. SpentCall(r)
      BY <2>5, <2>6, <2>12 DEF SpentCall
    <2>14. QED  BY <2>3, <2>13, SpentOne
  <1>11. QED  BY <1>9, <1>10

\* Legs above a minimum are no less than nothing.
LEMMA SplitSpends ==
  ASSUME NEW curves, NEW legs, Split(legs, curves), NEW budget, NEW least, Spends(legs, budget, least)
  PROVE  Spends(legs, budget, 0)
  <1>1. \A k \in DOMAIN legs : legs[k].amount \in Nat
    BY SplitAmounts
  <1>2. QED  BY <1>1 DEF Spends

\* A preview spends its budget at most, and no leg beside another is dust.
LEMMA PreviewSpent ==
  ASSUME RelayInv, SolvedInv, ~config.above, SpentCalls, NEW c \in Calls, NEW failed,
         NEW budget \in PreviewBudgets, Preview(c, failed, budget)
  PROVE  SpentCalls'
  <1>1. PICK q : q = calls[c]
    OBVIOUS
  <1>2. PICK curves : curves = gatherCurves(config.allowed \cap config.write, failed)
    OBVIOUS
  <1>3. PICK cap : cap = config.maxSupplyRaw
    OBVIOUS
  <1>4. PICK least : least = config.minIdleRaw
    OBVIOUS
  <1>5. PICK legs : legs = solveAllocation(curves, budget, cap, least, config.above)
    OBVIOUS
  <1> DEFINE r == [q EXCEPT !.pc = "done", !.budget = budget, !.curves = curves, !.cap = cap,
                     !.minPosition = least, !.report = "preview", !.legs = legs]
  <1>6. IsCall(q)
    BY <1>1 DEF RelayInv, CallInv, CallTyped
  <1>7. r.legs = legs /\ r.budget = budget /\ r.minPosition = least /\ r.pc = "done"
    BY <1>6 DEF IsCall, Fields
  <1>8. Became(c, r)
    BY <1>1, <1>2, <1>3, <1>4, <1>5 DEF Preview
  <1> HIDE DEF r
  <1>9. Splittable(curves) /\ Yields({curves[i] : i \in DOMAIN curves})
    <2>1. PICK wanted : wanted = config.allowed \cap config.write
      OBVIOUS
    <2>2. PoolsTyped(pools) /\ curves = gatherCurves(wanted, failed)
      BY <1>2, <2>1 DEF SolvedInv
    <2>3. QED  BY <2>2, GatheredCurves
  <1>10. IsCap(cap) /\ budget \in Nat /\ least \in Int
    BY <1>3, <1>4, PreviewedBudget, RelayAssumption DEF RelayInv, IsCap
  <1>11. Split(legs, curves)
    BY <1>5, <1>9, <1>10, SolvedLegs
  <1>12. Spends(legs, budget, least)
    BY <1>5, <1>9, <1>10, SolvedWithinBudget
  <1>13. Spends(legs, budget, 0)
    BY <1>11, <1>12, SplitSpends
  <1>14. SpentCall(r)
    BY <1>7, <1>12, <1>13 DEF SpentCall
  <1>15. QED  BY <1>8, <1>14, SpentOne

\* A transaction that lands leaves its legs as they are.
LEMMA LandSpent ==
  ASSUME RelayInv, SpentCalls, NEW c \in Calls, Land(c)
  PROVE  SpentCalls'
  <1>1. PICK q : q = calls[c]
    OBVIOUS
  <1>2. IsCall(q) /\ SpentCall(q)
    BY <1>1 DEF RelayInv, CallInv, CallTyped, SpentCalls
  <1>3. PICK x \in {"aborted", "accepted"} : Became(c, [q EXCEPT !.tx = x])
    BY <1>1 DEF Land
  <1> DEFINE r == [q EXCEPT !.tx = x]
  <1>4. /\ r.legs = q.legs /\ r.budget = q.budget /\ r.pc = q.pc /\ r.report = q.report
        /\ r.minPosition = q.minPosition
    BY <1>2 DEF IsCall, Fields
  <1>5. Became(c, r)
    BY <1>3
  <1> HIDE DEF r
  <1>6. SpentCall(r)
    BY <1>2, <1>4 DEF SpentCall
  <1>7. QED  BY <1>5, <1>6, SpentOne

\* Nobody configures agent, treasury and pools anew.
LEMMA ConfigStays ==
  ASSUME [RelayNext]_relayVars
  PROVE  config' = config
  <1>1. CASE UNCHANGED relayVars \/ ClockTick \/ OwnerActs \/ PoolMoves
    BY <1>1 DEF relayVars, ClockTick, OwnerActs, PoolMoves
  <1>2. ASSUME NEW c \in Calls, ReadBudget(c) \/ Throws(c) \/ Land(c) \/ Answer(c)
        PROVE  config' = config
    BY <1>2 DEF ReadBudget, Throws, Land, Answer
  <1>3. ASSUME NEW c \in Calls, NEW failed,
               Decide(c, failed) \/ \E budget \in PreviewBudgets : Preview(c, failed, budget)
        PROVE  config' = config
    BY <1>3 DEF Decide, Preview
  <1>4. QED  BY <1>1, <1>2, <1>3 DEF RelayNext

\* Every step keeps it.
LEMMA NextSpent == RelayInv /\ SolvedInv /\ SpentInv /\ [RelayNext]_relayVars => SpentInv'
  <1> SUFFICES ASSUME RelayInv, SolvedInv, SpentInv, [RelayNext]_relayVars, ~config.above
               PROVE  SpentCalls'
    BY ConfigStays DEF SpentInv
  <1>1. SpentCalls
    BY DEF SpentInv
  <1>2. CASE UNCHANGED relayVars \/ ClockTick \/ OwnerActs \/ PoolMoves
    <2>1. calls' = calls
      BY <1>2 DEF relayVars, ClockTick, OwnerActs, PoolMoves
    <2>2. QED  BY <1>1, <2>1 DEF SpentCalls, SpentCall
  <1>3. ASSUME NEW c \in Calls, ReadBudget(c) \/ Throws(c) \/ Land(c) \/ Answer(c)
        PROVE  SpentCalls'
    <2>1. CASE ReadBudget(c)
      BY <1>1, <2>1, ReadSpent
    <2>2. CASE Throws(c)
      BY <1>1, <2>2, EndSpent DEF Throws
    <2>3. CASE Land(c)
      BY <1>1, <2>3, LandSpent
    <2>4. CASE Answer(c)
      <3>1. PICK x \in {"submitted", "reverted"} : Reported(c, x)
        BY <2>4 DEF Answer
      <3>2. QED  BY <1>1, <3>1, EndSpent
    <2>5. QED  BY <1>3, <2>1, <2>2, <2>3, <2>4
  <1>4. ASSUME NEW c \in Calls, NEW failed \in SUBSET config.flaky,
               Decide(c, failed) \/ \E budget \in PreviewBudgets : Preview(c, failed, budget)
        PROVE  SpentCalls'
    BY <1>1, <1>4, DecideSpent, PreviewSpent
  <1>5. QED  BY <1>2, <1>3, <1>4 DEF RelayNext

\* It holds at first.
LEMMA InitSpent == RelayInit => SpentInv
  BY IdleSpent DEF RelayInit, SpentInv, SpentCalls

\* What every call may spend, in every reachable state.
THEOREM RelaySpent == RelaySpec => []SpentInv
  BY RelayCorrect, RelaySolved, InitSpent, NextSpent, PTL DEF RelaySpec

\* However many pools and whatever their curves, rising ones among them: unless the
\* water line ends on the far side of a jump (config.above), the legs of a call add
\* up to its budget at most (finalize).
THEOREM LegsStayWithinBudget == RelaySpec => [](~config.above => LegsWithinBudget)
  <1>1. SpentInv => (~config.above => LegsWithinBudget)
    BY DEF SpentInv, SpentCalls, SpentCall, Spends, Amounts, LegsWithinBudget, Sum, SumOf
  <1>2. QED  BY <1>1, RelaySpent, PTL

\* Nor is any leg of a preview beside another one below the minimum position, on
\* whatever curves: with the legs within the budget, repair only adds to them.
THEOREM NoPreviewedDust == RelaySpec => [](~config.above => NoDustBesideAnother)
  <1>1. RelayInv /\ SolvedInv /\ SpentInv => (~config.above => NoDustBesideAnother)
    <2>1. SUFFICES ASSUME SolvedInv, SpentInv, ~config.above, NEW c \in Calls,
                          calls[c].report = "preview", Len(calls[c].legs) > 1,
                          NEW i \in DOMAIN calls[c].legs
                   PROVE  calls[c].legs[i].amount >= calls[c].minPosition
      BY DEF NoDustBesideAnother
    <2>2. PICK legs : legs = calls[c].legs
      OBVIOUS
    <2>3. PICK curves : Split(legs, curves)
      BY <2>1, <2>2 DEF SolvedInv, SolvedCalls, SolvedCall
    <2>4. PICK m \in Nat : DOMAIN legs = 1..m
      BY <2>3, SplitAmounts
    <2>5. Len(legs) = m
      BY <2>4
    <2>6. PICK j \in DOMAIN legs : j # i
      <3>1. 1 \in DOMAIN legs /\ 2 \in DOMAIN legs
        BY <2>1, <2>2, <2>4, <2>5
      <3>2. QED  BY <3>1
    <2>7. Spends(legs, calls[c].budget, calls[c].minPosition)
      BY <2>1, <2>2 DEF SpentInv, SpentCalls, SpentCall
    <2>8. QED  BY <2>1, <2>2, <2>6, <2>7 DEF Spends
  <1>2. QED  BY <1>1, RelayCorrect, RelaySolved, RelaySpent, PTL

-----------------------------------------------------------------------------
(* A pool refuses for a reason. *)

\* A pool that is as its curve was built takes a leg within the cap of the curve.
LEMMA PoolRefuses ==
  ASSUME NEW c \in Calls, SolvedCall(calls[c]), calls[c].tx = "inflight",
         NEW k \in DOMAIN calls[c].legs, ~PoolTakes(calls[c].legs[k])
  PROVE  PoolExcused(c)
  <1>1. PICK legs : legs = calls[c].legs
    OBVIOUS
  <1>2. PICK curves : curves = calls[c].curves
    OBVIOUS
  <1>3. PICK at : at = calls[c].at
    OBVIOUS
  <1>4. Splittable(curves) /\ Split(legs, curves) /\ BuiltOf(curves, at)
    BY <1>1, <1>2, <1>3 DEF SolvedCall
  <1>5. PICK i \in DOMAIN curves : legs[k].protocol = curves[i].protocol /\ legs[k].amount \in Nat \ {0}
    BY <1>1, <1>4 DEF Split
  <1>6. PICK curve : curve = curves[i]
    OBVIOUS
  <1>7. PICK p : p = curve.protocol
    OBVIOUS
  <1>8. PICK pool : pool = at[p]
    OBVIOUS
  <1>9. p \in {"suilend", "navi", "scallop"} /\ IsPool(p, pool) /\ curve = buildCurve(p, pool)
    BY <1>4, <1>6, <1>7, <1>8 DEF BuiltOf
  <1>10. AmountIn(legs, curve) = legs[k].amount
    BY <1>1, <1>4, <1>5, <1>6, OneLegOfACurve
  <1>11. CASE pools[p] # pool
    BY <1>1, <1>2, <1>3, <1>6, <1>7, <1>8, <1>11 DEF PoolExcused
  <1>12. CASE pool.limit # Uncapped /\ curve.depositCap = Uncapped /\ pools[p] = pool
    BY <1>2, <1>6, <1>7, <1>12 DEF PoolExcused
  <1>13. CASE curve.depositCap # Uncapped /\ AmountIn(legs, curve) > curve.depositCap
    BY <1>1, <1>2, <1>6, <1>13 DEF PoolExcused
  <1>14. CASE /\ pools[p] = pool
              /\ pool.limit = Uncapped \/ curve.depositCap # Uncapped
              /\ ~(curve.depositCap # Uncapped /\ AmountIn(legs, curve) > curve.depositCap)
    <2>1. pool.limit # Uncapped /\ ~(pool.supplied + legs[k].amount <= pool.limit)
      BY <1>1, <1>5, <1>6, <1>7, <1>14 DEF PoolTakes
    <2>2. IsCap(curve.depositCap) /\ curve.depositCap # Uncapped
      BY <1>4, <1>6, <1>14, <2>1 DEF Splittable
    <2>3. curve.depositCap \in Nat
      BY <2>2 DEF IsCap
    <2>4. legs[k].amount <= curve.depositCap
      BY <1>5, <1>10, <1>14, <2>2, <2>3
    <2>5. curve.depositCap # 0
      BY <1>5, <2>3, <2>4
    <2>6. pool.limit \in Nat /\ curve.depositCap = pool.limit - pool.supplied
      BY <1>9, <2>2, <2>5, BuiltCurve
    <2>7. pool.supplied \in Nat
      BY <1>9 DEF IsPool
    <2>8. pool.supplied + legs[k].amount <= pool.limit
      BY <1>5, <2>4, <2>6, <2>7
    <2>9. QED  BY <2>1, <2>8
  <1>15. QED  BY <1>11, <1>12, <1>13, <1>14

\* What every leg and the treasury allow, the chain executes.
LEMMA RefusedStep ==
  ASSUME RelayInv, SolvedInv, SpentInv, ~config.above, [RelayNext]_relayVars
  PROVE  [\A c \in Calls : RolledBack(c) => VaultExcused(c) \/ PoolExcused(c)]_relayVars
  <1> SUFFICES ASSUME NEW c \in Calls, RolledBack(c), ~VaultExcused(c), ~PoolExcused(c)
               PROVE  FALSE
    OBVIOUS
  <1>1. calls[c].tx = "inflight" /\ SolvedCall(calls[c])
    BY DEF RolledBack, SolvedInv, SolvedCalls
  <1>2. ASSUME NEW i \in Executable(calls[c].legs)
        PROVE  PoolTakes(calls[c].legs[i])
    <2>1. i \in DOMAIN calls[c].legs
      BY DEF Executable
    <2>2. QED  BY <1>1, <2>1, PoolRefuses
  <1>3. Sum(calls[c].legs) <= calls[c].budget
    BY DEF SpentInv, SpentCalls, SpentCall, Spends, Amounts, Sum, SumOf
  <1>4. Executed(calls[c].legs, calls[c].expiresAt) # Aborted
    BY <1>1, <1>2, <1>3, Honoured
  <1>5. QED  BY <1>4, RollsBack

\* Where the agent, the enclave and the chain disagree: on the same side of a jump, what
\* treasury_supply sends is rolled back only when the treasury or a pool has changed
\* since it was read, when a mandate, an intent or a nonce is out of date, when the
\* end of the window is no number of the chain (computeDeployable does not look),
\* when the agent's clock is ahead, when a full pool's curve had no cap, or for a
\* leg that holds rounding on top of its pool's cap.
THEOREM RollbacksHaveAReason == (RelaySpec /\ ~config.above) => AbortsForAReason
  <1>1. ~config.above /\ [RelayNext]_relayVars => (~config.above)'
    BY ConfigStays
  <1>2. RelayInv /\ SolvedInv /\ SpentInv /\ ~config.above /\ [RelayNext]_relayVars =>
          [\A c \in Calls : RolledBack(c) => VaultExcused(c) \/ PoolExcused(c)]_relayVars
    BY RefusedStep
  <1>3. QED  BY <1>1, <1>2, RelayCorrect, RelaySolved, RelaySpent, PTL DEF RelaySpec, AbortsForAReason
=============================================================================
