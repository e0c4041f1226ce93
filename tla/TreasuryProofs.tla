--------------------------- MODULE TreasuryProofs ---------------------------
(***************************************************************************)
(* Theorems about Treasury for every set of treasuries, protocols and      *)
(* adapters, every spend bound and every width of the integers: its types, *)
(* its spend bounds and the end of its mandate; then, about sums, that no  *)
(* coin is lost and how much the agent can move in a window and in a       *)
(* period.  With them Treasury implements BoundedVault.                    *)
(***************************************************************************)
EXTENDS TreasuryVault, SumLemmas, TLAPS

-----------------------------------------------------------------------------
(* Type correctness.                                                       *)

LEMMA InitTypeOK == Init => TypeOK
  BY TreasuryAssumption
  DEF Init, TypeOK, TreasuryType, TermsType, History, Spending, Release

LEMMA CreateTypeOK ==
  ASSUME TypeOK, NEW t \in Treasuries, NEW bounds \in Terms, NEW amount \in Amounts,
         Create(t, bounds, amount)
  PROVE  TypeOK'
  <1>1. amount \in Nat /\ bounds \in TermsType /\ now \in Nat
    BY TreasuryAssumption DEF TypeOK
  <1>2. treasury' \in [Treasuries -> TreasuryType]
    <2>1. [agent |-> t, funds |-> amount, spent |-> 0, start |-> now] \in TreasuryType
      BY <1>1 DEF TreasuryType
    <2>2. QED  BY <2>1 DEF TypeOK, Create
  <1>3. hist' \in [Treasuries -> History]
    <2>1. [bornAt |-> now, inflow |-> amount, withdrawn |-> 0, redeemed |-> 0] \in History
      BY <1>1 DEF History
    <2>2. QED  BY <2>1 DEF TypeOK, Create
  <1>4. terms' \in [Treasuries -> TermsType] /\ created' \subseteq Treasuries
    BY <1>1 DEF TypeOK, Create
  <1>5. QED  BY <1>2, <1>3, <1>4 DEF TypeOK, Create

LEMMA OwnerMoneyTypeOK ==
  ASSUME TypeOK, NEW t \in Treasuries, NEW owner \in Treasuries, NEW amount \in Amounts,
         \/ Deposit(t, amount)
         \/ WithdrawPrincipal(t, owner, amount)
  PROVE  TypeOK'
  <1>1. amount \in Nat
    BY TreasuryAssumption
  <1>2. treasury[t] \in TreasuryType /\ hist[t] \in History /\ hist[owner] \in History
    BY DEF TypeOK
  <1>3. CASE Deposit(t, amount)
    <2>1. [treasury[t] EXCEPT !.funds = @ + amount] \in TreasuryType
      BY <1>1, <1>2 DEF TreasuryType
    <2>2. [hist[t] EXCEPT !.inflow = @ + amount] \in History
      BY <1>1, <1>2 DEF History
    <2>3. QED  BY <1>3, <2>1, <2>2 DEF TypeOK, Deposit
  <1>4. CASE WithdrawPrincipal(t, owner, amount)
    <2>1. [treasury[t] EXCEPT !.funds = @ - amount] \in TreasuryType
      BY <1>1, <1>2, <1>4 DEF TreasuryType, WithdrawPrincipal
    <2>2. [hist[owner] EXCEPT !.withdrawn = @ + amount] \in History
      BY <1>1, <1>2 DEF History
    <2>3. QED  BY <1>4, <2>1, <2>2 DEF TypeOK, WithdrawPrincipal
  <1>5. QED  BY <1>3, <1>4

LEMMA RevokeTypeOK ==
  ASSUME TypeOK, NEW t \in Treasuries, NEW owner \in Treasuries, Revoke(t, owner)
  PROVE  TypeOK'
  <1>1. [treasury[t] EXCEPT !.agent = NoAgent] \in TreasuryType
    BY DEF TypeOK, TreasuryType
  <1>2. QED  BY <1>1 DEF TypeOK, Revoke

LEMMA OwnerReceiptTypeOK ==
  ASSUME TypeOK, NEW t \in Treasuries, NEW owner \in Treasuries, NEW p \in Protocols,
         \/ OwnerTakeReceipt(t, owner, p)
         \/ \E receipt \in loose : OwnerRecustody(t, owner, p, receipt)
  PROVE  TypeOK'
  <1>1. CASE OwnerTakeReceipt(t, owner, p)
    <2>1. custody[t][p] \in Receipt
      BY <1>1 DEF TypeOK, OwnerTakeReceipt
    <2>2. QED  BY <1>1, <2>1 DEF TypeOK, OwnerTakeReceipt
  <1>2. CASE \E receipt \in loose : OwnerRecustody(t, owner, p, receipt)
    <2>1. PICK receipt \in loose : OwnerRecustody(t, owner, p, receipt)
      BY <1>2
    <2>2. receipt \in Receipt
      BY <2>1 DEF TypeOK
    <2>3. QED  BY <2>1, <2>2 DEF TypeOK, OwnerRecustody
  <1>3. QED  BY <1>1, <1>2

\* Any protocol holds a receipt or none, and at most its worth can be redeemed.
LEMMA RedeemableNat ==
  ASSUME TypeOK, NEW t \in Treasuries, NEW a \in Adapters, NEW amount \in Redeemable(t, a)
  PROVE  Home[a] \in Protocols /\ amount \in Nat
  <1>1. Home[a] \in Protocols
    BY TreasuryAssumption
  <1>2. custody[t][Home[a]] \in Receipt \cup {NoReceipt}
    BY <1>1 DEF TypeOK
  <1>3. Worth(custody[t][Home[a]]) \in Nat
    BY <1>2 DEF Worth, Receipt
  <1>4. QED  BY <1>1, <1>3 DEF Redeemable

LEMMA OwnerRedeemTypeOK ==
  ASSUME TypeOK, NEW t \in Treasuries, NEW owner \in Treasuries, NEW a \in Adapters,
         NEW amount \in Redeemable(t, a), OwnerRedeem(t, owner, a, amount)
  PROVE  TypeOK'
  <1> DEFINE p == Home[a]
  <1>1. p \in Protocols /\ amount \in Nat
    BY RedeemableNat
  <1>2. custody[t][p] \in Receipt
    BY <1>1 DEF TypeOK, OwnerRedeem
  <1>3. custody' \in [Treasuries -> [Protocols -> Receipt \cup {NoReceipt}]]
    <2>1. CASE custody' = [custody EXCEPT ![t][p] = NoReceipt]
      BY <1>1, <2>1 DEF TypeOK
    <2>2. CASE /\ custody' = [custody EXCEPT ![t][p].amount = @ - amount]
               /\ amount <= custody[t][p].amount
      <3> DEFINE left == [custody[t][p] EXCEPT !.amount = @ - amount]
      <3>1. left \in Receipt
        BY <1>1, <1>2, <2>2 DEF Receipt
      <3>2. custody' = [custody EXCEPT ![t][p] = left]
        BY <2>2
      <3> HIDE DEF left
      <3>3. QED  BY <1>1, <3>1, <3>2 DEF TypeOK
    <2>3. \/ custody' = [custody EXCEPT ![t][p] = NoReceipt]
          \/ /\ custody' = [custody EXCEPT ![t][p].amount = @ - amount]
             /\ amount <= custody[t][p].amount
      BY Zenon DEF OwnerRedeem
    <2>4. QED  BY <2>1, <2>2, <2>3
  <1>4. hist' \in [Treasuries -> History]
    <2>1. [hist[owner] EXCEPT !.redeemed = @ + amount] \in History
      <3>1. hist[owner] \in History
        BY DEF TypeOK
      <3>2. QED  BY <1>1, <3>1 DEF History
    <2>2. hist' = [hist EXCEPT ![owner].redeemed = @ + amount]
      BY DEF OwnerRedeem
    <2>3. QED  BY <2>1, <2>2 DEF TypeOK
  <1>5. QED  BY <1>3, <1>4 DEF TypeOK, OwnerRedeem

LEMMA HolderTypeOK ==
  ASSUME TypeOK,
         \/ \E a \in Adapters : OpenPosition(a)
         \/ \E receipt \in loose, amount \in Amounts \cup {0} : HolderTrades(receipt, amount)
  PROVE  TypeOK'
  <1>1. CASE \E a \in Adapters : OpenPosition(a)
    <2>1. PICK a \in Adapters : OpenPosition(a)
      BY <1>1
    <2>2. [adapter |-> a, amount |-> 0, born |-> minted + 1] \in Receipt
      BY DEF TypeOK, Receipt
    <2>3. QED  BY <2>1, <2>2 DEF TypeOK, OpenPosition
  <1>2. CASE \E receipt \in loose, amount \in Amounts \cup {0} : HolderTrades(receipt, amount)
    <2>1. PICK receipt \in loose, amount \in Amounts \cup {0} : HolderTrades(receipt, amount)
      BY <1>2
    <2>2. /\ receipt \in Receipt /\ amount \in Nat /\ receipt.amount \in Nat
          /\ [receipt EXCEPT !.amount = amount] \in Receipt
      BY TreasuryAssumption DEF TypeOK, Receipt
    <2>3. QED  BY <2>1, <2>2 DEF TypeOK, HolderTrades
  <1>3. QED  BY <1>1, <1>2

\* What a release does to the treasury object and its history, in the terms
\* the later lemmas need.
LEMMA ReleaseEffect ==
  ASSUME TypeOK, NEW t \in Treasuries, NEW cap \in Treasuries, NEW amount \in Nat,
         ReleaseWithTicket(t, cap, amount)
  PROVE  /\ treasury' \in [Treasuries -> TreasuryType]
         /\ spend' \in [Treasuries -> Spending]
         /\ \A u \in Treasuries \ {t} : treasury'[u] = treasury[u] /\ spend'[u] = spend[u]
         /\ treasury'[t].agent = treasury[t].agent
         /\ treasury'[t].spent = SpentBefore(t) + amount
         /\ treasury'[t].start = WindowStart(t)
         /\ spend'[t].rolls =
              IF WindowElapsed(t) THEN spend[t].rolls + 1 ELSE spend[t].rolls
         /\ spend'[t].released = spend[t].released + amount
         /\ spend'[t].log = Append(spend[t].log, [amount |-> amount, at |-> now])
  <1>1. /\ treasury[t] \in TreasuryType
        /\ spend[t] \in Spending
        /\ terms[t] \in TermsType
        /\ now \in Nat
    BY DEF TypeOK
  <1>2. SpentBefore(t) \in Nat /\ WindowStart(t) \in Nat
    BY <1>1 DEF SpentBefore, WindowStart, TreasuryType
  <1> DEFINE rolls == IF WindowElapsed(t) THEN spend[t].rolls + 1 ELSE spend[t].rolls
             log == Append(spend[t].log, [amount |-> amount, at |-> now])
             vault == [agent |-> treasury[t].agent, funds |-> treasury[t].funds - amount,
                       spent |-> SpentBefore(t) + amount, start |-> WindowStart(t)]
             record == [released |-> spend[t].released + amount, rolls |-> rolls,
                        log |-> log]
  <1>3. log \in Seq(Release)
    BY <1>1 DEF Spending, Release
  <1>4. vault \in TreasuryType
    BY <1>1, <1>2 DEF ReleaseWithTicket, TreasuryType
  <1>5. record \in Spending
    BY <1>1, <1>3 DEF Spending
  <1>6. /\ treasury' = [treasury EXCEPT ![t] = vault]
        /\ spend' = [spend EXCEPT ![t] = record]
    BY DEF ReleaseWithTicket
  <1>7. /\ treasury' \in [Treasuries -> TreasuryType] /\ treasury'[t] = vault
        /\ spend' \in [Treasuries -> Spending] /\ spend'[t] = record
        /\ \A u \in Treasuries \ {t} : treasury'[u] = treasury[u] /\ spend'[u] = spend[u]
    <2> HIDE DEF vault, record
    <2>1. QED  BY <1>4, <1>5, <1>6 DEF TypeOK
  <1>8. QED
    BY <1>7

LEMMA SupplyTypeOK ==
  ASSUME TypeOK, NEW t \in Treasuries, NEW cap \in Treasuries, NEW a \in Adapters,
         NEW p \in Protocols, NEW amount \in Nat,
         SupplyThroughAdapter(t, cap, a, p, amount)
  PROVE  TypeOK'
  <1>1. /\ treasury' \in [Treasuries -> TreasuryType]
        /\ spend' \in [Treasuries -> Spending]
    BY ReleaseEffect DEF SupplyThroughAdapter
  <1>2. custody' \in [Treasuries -> [Protocols -> Receipt \cup {NoReceipt}]]
    <2>1. DischargeTicket(t, a, p, amount)
      BY DEF SupplyThroughAdapter
    <2>2. CASE custody[t][p] # NoReceipt
      <3> DEFINE more == [custody[t][p] EXCEPT !.amount = @ + amount]
      <3>1. more \in Receipt
        <4>1. custody[t][p] \in Receipt
          BY <2>2 DEF TypeOK
        <4>2. QED  BY <4>1 DEF Receipt
      <3>2. custody' = [custody EXCEPT ![t][p] = more]
        BY <2>1, <2>2 DEF DischargeTicket
      <3> HIDE DEF more
      <3>3. QED  BY <3>1, <3>2 DEF TypeOK
    <2>3. CASE custody[t][p] = NoReceipt
      <3>1. minted + 1 \in Nat
        BY DEF TypeOK
      <3> DEFINE fresh == [adapter |-> a, amount |-> amount, born |-> minted + 1]
      <3>2. fresh \in Receipt
        BY <3>1 DEF Receipt
      <3>3. custody' = [custody EXCEPT ![t][p] = fresh]
        BY <2>1, <2>3 DEF DischargeTicket
      <3> HIDE DEF fresh
      <3>4. QED  BY <3>2, <3>3 DEF TypeOK
    <2>4. QED  BY <2>2, <2>3
  <1>3. minted' \in Nat
    BY DEF TypeOK, SupplyThroughAdapter, DischargeTicket
  <1>4. QED  BY <1>1, <1>2, <1>3 DEF TypeOK, SupplyThroughAdapter

LEMMA NextTypeOK == TypeOK /\ [Next]_vars => TypeOK'
  <1> SUFFICES ASSUME TypeOK, [Next]_vars
               PROVE  TypeOK'
    OBVIOUS
  <1>1. CASE Tick
    BY <1>1 DEF TypeOK, Tick
  <1>2. CASE OwnerNext
    <2>1. PICK t \in Treasuries :
            \/ \E bounds \in Terms, amount \in Amounts : Create(t, bounds, amount)
            \/ \E amount \in Amounts : Deposit(t, amount)
            \/ \E owner \in Treasuries :
                  \/ \E amount \in Amounts : WithdrawPrincipal(t, owner, amount)
                  \/ Revoke(t, owner)
                  \/ \E p \in Protocols : OwnerTakeReceipt(t, owner, p)
                  \/ \E p \in Protocols : \E receipt \in loose :
                        OwnerRecustody(t, owner, p, receipt)
                  \/ \E a \in Adapters : \E amount \in Redeemable(t, a) :
                        OwnerRedeem(t, owner, a, amount)
      BY <1>2 DEF OwnerNext
    <2>2. CASE \E bounds \in Terms, amount \in Amounts : Create(t, bounds, amount)
      BY <2>2, CreateTypeOK
    <2>3. CASE \E amount \in Amounts : Deposit(t, amount)
      BY <2>3, OwnerMoneyTypeOK
    <2>4. ASSUME NEW owner \in Treasuries,
                 \/ \E amount \in Amounts : WithdrawPrincipal(t, owner, amount)
                 \/ \E p \in Protocols : OwnerTakeReceipt(t, owner, p)
                 \/ \E p \in Protocols : \E receipt \in loose :
                        OwnerRecustody(t, owner, p, receipt)
                 \/ \E a \in Adapters : \E amount \in Redeemable(t, a) :
                        OwnerRedeem(t, owner, a, amount)
          PROVE  TypeOK'
      BY <2>4, OwnerMoneyTypeOK, OwnerReceiptTypeOK, OwnerRedeemTypeOK
    <2>5. ASSUME NEW owner \in Treasuries, Revoke(t, owner)
          PROVE  TypeOK'
      BY <2>5, RevokeTypeOK
    <2>6. QED  BY <2>1, <2>2, <2>3, <2>4, <2>5
  <1>3. CASE SupplyNext
    BY <1>3, SupplyTypeOK, TreasuryAssumption DEF SupplyNext
  <1>4. CASE HolderNext
    BY <1>4, HolderTypeOK DEF HolderNext
  <1>5. CASE UNCHANGED vars
    BY <1>5 DEF TypeOK, vars
  <1>6. QED  BY <1>1, <1>2, <1>3, <1>4, <1>5 DEF Next

\* Every variable keeps its type in every behaviour of the treasury.
THEOREM TypeCorrect == Spec => []TypeOK
  BY InitTypeOK, NextTypeOK, PTL DEF Spec

-----------------------------------------------------------------------------
(* The lifetime bound.  LifetimeExposure is not inductive: a step says      *)
(* nothing of how many windows were rolled before it.  AccountInv adds what *)
(* each rolled window can have cost and how much time it took.              *)

\* The account of one treasury: every window rolled so far cost at most the
\* period cap and took at least a period since the treasury was created.
AccountInv(t) ==
    /\ treasury[t].spent <= terms[t].periodCap
    /\ spend[t].released <= spend[t].rolls * terms[t].periodCap + treasury[t].spent
    /\ hist[t].bornAt + spend[t].rolls * terms[t].periodMs <= treasury[t].start
    /\ treasury[t].start <= now
    /\ spend[t].rolls > 0 => treasury[t].start < terms[t].expiryMs

\* A treasury not created yet has released nothing.
ExposureInv ==
    /\ TypeOK
    /\ \A t \in created : AccountInv(t)
    /\ \A t \in Treasuries \ created :
          spend[t].released = 0 /\ spend[t].rolls = 0

LEMMA InitExposure == Init => ExposureInv
  BY InitTypeOK DEF Init, ExposureInv

\* Steps that touch no cap, window or release keep the account.
LEMMA AccountFrame ==
  ASSUME ExposureInv, TypeOK', created' = created, terms' = terms, spend' = spend,
         now' >= now,
         \A t \in Treasuries : /\ treasury'[t].spent = treasury[t].spent
                               /\ treasury'[t].start = treasury[t].start
                               /\ hist'[t].bornAt = hist[t].bornAt
  PROVE  ExposureInv'
  <1>1. ASSUME NEW t \in created
        PROVE  AccountInv(t)'
    <2>1. t \in Treasuries /\ now \in Nat /\ now' \in Nat /\ treasury[t].start \in Nat
      BY DEF ExposureInv, TypeOK, TreasuryType
    <2>2. AccountInv(t)
      BY DEF ExposureInv
    <2>3. QED  BY <2>1, <2>2 DEF AccountInv
  <1>2. QED  BY <1>1 DEF ExposureInv

LEMMA CreateExposure ==
  ASSUME ExposureInv, NEW t \in Treasuries, NEW bounds \in Terms, NEW amount \in Amounts,
         Create(t, bounds, amount)
  PROVE  ExposureInv'
  <1>1. TypeOK /\ TypeOK'
    BY CreateTypeOK DEF ExposureInv
  <1>2. AccountInv(t)'
    <2>1. /\ treasury'[t].spent = 0 /\ treasury'[t].start = now /\ now' = now
          /\ hist'[t].bornAt = now /\ spend' = spend /\ terms'[t] = bounds
      BY <1>1 DEF Create, TypeOK
    <2>2. spend[t].released = 0 /\ spend[t].rolls = 0
      BY DEF ExposureInv, Create
    <2>3. bounds.periodCap \in Nat /\ bounds.periodMs \in Nat /\ now \in Nat
      BY <1>1, TreasuryAssumption DEF TypeOK, TermsType
    <2>4. QED  BY <2>1, <2>2, <2>3 DEF AccountInv
  <1>3. ASSUME NEW u \in created
        PROVE  AccountInv(u)'
    <2>1. u # t /\ u \in Treasuries
      BY <1>1 DEF Create, TypeOK
    <2>2. /\ treasury'[u] = treasury[u] /\ hist'[u] = hist[u] /\ terms'[u] = terms[u]
          /\ spend' = spend /\ now' = now
      BY <1>1, <2>1 DEF Create, TypeOK
    <2>3. QED  BY <2>2 DEF ExposureInv, AccountInv
  <1>4. created' = created \cup {t} /\ spend' = spend
    BY DEF Create
  <1>5. QED  BY <1>1, <1>2, <1>3, <1>4 DEF ExposureInv

\* One more window costs one more cap, and takes one more period.
LEMMA NextWindow == \A m, n \in Nat : m * n \in Nat /\ (m + 1) * n = m * n + n
  OBVIOUS

\* What one release adds to the account of its treasury.
LEMMA ReleaseAccount ==
  ASSUME ExposureInv, NEW t \in created, NEW cap \in Treasuries, NEW amount \in Nat,
         ReleaseWithTicket(t, cap, amount),
         terms' = terms, hist' = hist, now' = now
  PROVE  AccountInv(t)'
  <1> DEFINE k == spend[t].rolls
             c == terms[t].periodCap
             m == terms[t].periodMs
             cost == k * c
             time == k * m
  <1>1. TypeOK /\ t \in Treasuries
    BY DEF ExposureInv, TypeOK
  <1>2. /\ now \in Nat /\ k \in Nat /\ c \in Nat /\ m \in Nat
        /\ treasury[t].start \in Nat /\ treasury[t].spent \in Nat
        /\ spend[t].released \in Nat /\ hist[t].bornAt \in Nat
        /\ terms[t].expiryMs \in Nat
    BY <1>1 DEF TypeOK, TreasuryType, TermsType, History, Spending
  <1>3. /\ treasury[t].spent <= c
        /\ spend[t].released <= cost + treasury[t].spent
        /\ hist[t].bornAt + time <= treasury[t].start
        /\ treasury[t].start <= now
        /\ k > 0 => treasury[t].start < terms[t].expiryMs
    BY DEF ExposureInv, AccountInv
  <1>4. /\ cost \in Nat /\ (k + 1) * c = cost + c
        /\ time \in Nat /\ (k + 1) * m = time + m
    BY <1>2, NextWindow
  <1>5. /\ treasury'[t].spent = SpentBefore(t) + amount
        /\ treasury'[t].start = WindowStart(t)
        /\ spend'[t].rolls = IF WindowElapsed(t) THEN k + 1 ELSE k
        /\ spend'[t].released = spend[t].released + amount
    BY <1>1, ReleaseEffect
  <1>6. /\ SpentBefore(t) + amount <= c
        /\ now < terms[t].expiryMs
    BY DEF ReleaseWithTicket, WithinCaps, AgentActive
  <1>7. CASE WindowElapsed(t)
    <2>1. /\ treasury'[t].spent = amount /\ treasury'[t].start = now
          /\ spend'[t].rolls = k + 1 /\ amount <= c
      BY <1>2, <1>5, <1>6, <1>7 DEF SpentBefore, WindowStart
    <2>2. now >= treasury[t].start + m
      BY <1>7 DEF WindowElapsed, WindowEnds
    <2> HIDE DEF k, c, m, cost, time
    <2>3. spend[t].released + amount <= (cost + c) + amount
      BY <1>2, <1>3, <1>4
    <2>4. hist[t].bornAt + (time + m) <= now
      BY <1>2, <1>3, <1>4, <2>2
    <2>5. /\ spend[t].released + amount <= (k + 1) * c + amount
          /\ hist[t].bornAt + (k + 1) * m <= now
      BY <1>4, <2>3, <2>4
    <2> USE DEF k, c, m
    <2>6. QED  BY <1>2, <1>5, <1>6, <2>1, <2>5 DEF AccountInv
  <1>8. CASE ~WindowElapsed(t)
    <2>1. /\ treasury'[t].spent = treasury[t].spent + amount
          /\ treasury'[t].start = treasury[t].start
          /\ spend'[t].rolls = k
          /\ treasury[t].spent + amount <= c
      BY <1>5, <1>6, <1>8 DEF SpentBefore, WindowStart
    <2> HIDE DEF k, c, m, cost, time
    <2>2. spend[t].released + amount <= cost + (treasury[t].spent + amount)
      BY <1>2, <1>3, <1>4
    <2> USE DEF k, c, m, cost, time
    <2>3. QED  BY <1>3, <1>5, <2>1, <2>2 DEF AccountInv
  <1>9. QED  BY <1>7, <1>8

LEMMA SupplyExposure ==
  ASSUME ExposureInv, NEW t \in Treasuries, NEW cap \in Treasuries, NEW a \in Adapters,
         NEW p \in Protocols, NEW amount \in Nat,
         SupplyThroughAdapter(t, cap, a, p, amount)
  PROVE  ExposureInv'
  <1>1. TypeOK /\ TypeOK' /\ t \in created /\ created \subseteq Treasuries
    BY SupplyTypeOK DEF ExposureInv, SupplyThroughAdapter, TypeOK
  <1>2. ReleaseWithTicket(t, cap, amount)
    BY DEF SupplyThroughAdapter
  <1>3. created' = created /\ terms' = terms /\ hist' = hist /\ now' = now
    BY DEF SupplyThroughAdapter
  <1>4. AccountInv(t)'
    BY <1>1, <1>2, <1>3, ReleaseAccount
  <1>5. ASSUME NEW u \in Treasuries \ {t}
        PROVE  /\ treasury'[u] = treasury[u] /\ spend'[u] = spend[u]
               /\ AccountInv(u) => AccountInv(u)'
    <2>1. treasury'[u] = treasury[u] /\ spend'[u] = spend[u]
      BY <1>1, <1>2, ReleaseEffect
    <2>2. QED  BY <1>3, <2>1 DEF AccountInv
  <1>6. QED  BY <1>1, <1>3, <1>4, <1>5 DEF ExposureInv

\* Nothing the owner does to an existing treasury touches a cap, a window, a
\* release or the time it was created.
LEMMA OwnerKeeps ==
  ASSUME TypeOK, NEW t \in Treasuries, NEW owner \in Treasuries,
         \/ \E amount \in Amounts : Deposit(t, amount)
         \/ \E amount \in Amounts : WithdrawPrincipal(t, owner, amount)
         \/ Revoke(t, owner)
         \/ \E p \in Protocols : OwnerTakeReceipt(t, owner, p)
         \/ \E p \in Protocols : \E receipt \in loose :
               OwnerRecustody(t, owner, p, receipt)
         \/ \E a \in Adapters : \E amount \in Redeemable(t, a) : OwnerRedeem(t, owner, a, amount)
  PROVE  /\ created' = created /\ terms' = terms /\ spend' = spend /\ now' = now
         /\ \A u \in Treasuries : /\ treasury'[u].spent = treasury[u].spent
                                /\ treasury'[u].start = treasury[u].start
                                /\ hist'[u].bornAt = hist[u].bornAt
  <1>1. created' = created /\ terms' = terms /\ spend' = spend /\ now' = now
    BY DEF Deposit, WithdrawPrincipal, Revoke, OwnerTakeReceipt, OwnerRecustody, OwnerRedeem
  <1>2. ASSUME NEW u \in Treasuries
        PROVE  treasury'[u].spent = treasury[u].spent /\ treasury'[u].start = treasury[u].start
    <2>1. /\ treasury \in [Treasuries -> TreasuryType]
          /\ treasury[u] \in TreasuryType /\ treasury[t] \in TreasuryType
      BY DEF TypeOK
    <2>2. CASE \E amount \in Amounts : Deposit(t, amount) \/ WithdrawPrincipal(t, owner, amount)
      BY <2>1, <2>2 DEF Deposit, WithdrawPrincipal, TreasuryType
    <2>3. CASE Revoke(t, owner)
      BY <2>1, <2>3 DEF Revoke, TreasuryType
    <2>4. CASE treasury' = treasury
      BY <2>4
    <2>5. QED  BY <2>2, <2>3, <2>4 DEF OwnerTakeReceipt, OwnerRecustody, OwnerRedeem
  <1>3. ASSUME NEW u \in Treasuries
        PROVE  hist'[u].bornAt = hist[u].bornAt
    <2>1. /\ hist \in [Treasuries -> History]
          /\ hist[u] \in History /\ hist[t] \in History /\ hist[owner] \in History
      BY DEF TypeOK
    <2>2. CASE \E amount \in Amounts : Deposit(t, amount)
      BY <2>1, <2>2 DEF Deposit, History
    <2>3. CASE \E amount \in Amounts : WithdrawPrincipal(t, owner, amount)
      BY <2>1, <2>3 DEF WithdrawPrincipal, History
    <2>4. CASE \E a \in Adapters : \E amount \in Redeemable(t, a) : OwnerRedeem(t, owner, a, amount)
      <3>1. PICK amount : hist' = [hist EXCEPT ![owner].redeemed = @ + amount]
        BY <2>4 DEF OwnerRedeem
      <3>2. QED  BY <2>1, <3>1 DEF History
    <2>5. CASE hist' = hist
      BY <2>5
    <2>6. QED  BY <2>2, <2>3, <2>4, <2>5 DEF Revoke, OwnerTakeReceipt, OwnerRecustody
  <1>4. QED  BY <1>1, <1>2, <1>3

LEMMA OwnerExposure ==
  ASSUME ExposureInv, NEW t \in Treasuries, NEW owner \in Treasuries,
         \/ \E amount \in Amounts : Deposit(t, amount)
         \/ \E amount \in Amounts : WithdrawPrincipal(t, owner, amount)
         \/ Revoke(t, owner)
         \/ \E p \in Protocols : OwnerTakeReceipt(t, owner, p)
         \/ \E p \in Protocols : \E receipt \in loose :
               OwnerRecustody(t, owner, p, receipt)
         \/ \E a \in Adapters : \E amount \in Redeemable(t, a) : OwnerRedeem(t, owner, a, amount),
         TypeOK'
  PROVE  ExposureInv'
  <1>1. TypeOK /\ now \in Nat
    BY DEF ExposureInv, TypeOK
  <1>2. QED  BY <1>1, OwnerKeeps, AccountFrame

LEMMA NextExposure == ExposureInv /\ [Next]_vars => ExposureInv'
  <1> SUFFICES ASSUME ExposureInv, [Next]_vars
               PROVE  ExposureInv'
    OBVIOUS
  <1>1. TypeOK /\ TypeOK'
    BY NextTypeOK DEF ExposureInv
  <1>2. CASE Tick
    BY <1>1, <1>2, AccountFrame DEF Tick, TypeOK
  <1>3. CASE OwnerNext
    BY <1>1, <1>3, CreateExposure, OwnerExposure DEF OwnerNext
  <1>4. CASE SupplyNext
    BY <1>4, SupplyExposure, TreasuryAssumption DEF SupplyNext
  <1>5. CASE HolderNext
    BY <1>1, <1>5, AccountFrame DEF HolderNext, OpenPosition, HolderTrades, TypeOK
  <1>6. CASE UNCHANGED vars
    BY <1>1, <1>6, AccountFrame DEF vars, TypeOK
  <1>7. QED  BY <1>2, <1>3, <1>4, <1>5, <1>6 DEF Next

\* How often a period fits before expiry.
LEMMA WindowsFit ==
  ASSUME NEW k \in Nat, NEW m \in Nat \ {0}, NEW life \in Nat, k * m <= life
  PROVE  k <= life \div m /\ life \div m \in Nat
  OBVIOUS

LEMMA MoreWindowsCostMore ==
  ASSUME NEW k \in Nat, NEW n \in Nat, NEW c \in Nat, k <= n
  PROVE  k * c <= n * c /\ k * c \in Nat /\ n * c \in Nat
  OBVIOUS

LEMMA ExposureBound == ExposureInv => LifetimeExposure
  <1> SUFFICES ASSUME ExposureInv, NEW t \in created, terms[t].periodMs > 0
               PROVE  spend[t].released <= MaxWindows(t) * terms[t].periodCap
    BY DEF LifetimeExposure
  <1> DEFINE k == spend[t].rolls
             c == terms[t].periodCap
             m == terms[t].periodMs
             life == terms[t].expiryMs - hist[t].bornAt
             cost == k * c
             time == k * m
  <1>1. /\ k \in Nat /\ c \in Nat /\ m \in Nat \ {0}
        /\ treasury[t].start \in Nat /\ treasury[t].spent \in Nat
        /\ spend[t].released \in Nat /\ hist[t].bornAt \in Nat
        /\ terms[t].expiryMs \in Nat
    BY DEF ExposureInv, TypeOK, TreasuryType, TermsType, History, Spending
  <1>2. /\ treasury[t].spent <= c
        /\ spend[t].released <= cost + treasury[t].spent
        /\ hist[t].bornAt + time <= treasury[t].start
        /\ k > 0 => treasury[t].start < terms[t].expiryMs
    BY DEF ExposureInv, AccountInv
  <1>3. /\ cost \in Nat /\ (k + 1) * c = cost + c
        /\ time \in Nat
    BY <1>1, NextWindow
  <1>4. spend[t].released <= (k + 1) * c
    <2> HIDE DEF k, c, cost, time
    <2>1. spend[t].released <= cost + c
      BY <1>1, <1>2, <1>3
    <2>2. QED  BY <1>3, <2>1
  <1>5. k + 1 <= MaxWindows(t) /\ MaxWindows(t) \in Nat
    <2>1. life \in Int
      BY <1>1
    <2>2. CASE life <= 0
      <3>1. k = 0
        <4> HIDE DEF k, c, m, cost, time
        <4>1. QED  BY <1>1, <1>2, <1>3, <2>2
      <3>2. QED  BY <2>2, <3>1 DEF MaxWindows
    <2>3. CASE life > 0
      <3>1. time <= life
        <4>1. CASE k = 0
          <5>1. time = 0
            BY <1>1, <4>1
          <5>2. QED  BY <2>1, <2>3, <5>1
        <4>2. CASE k > 0
          <5> HIDE DEF k, c, m, cost, time
          <5>1. QED  BY <1>1, <1>2, <1>3, <4>2
        <4>3. QED  BY <1>1, <4>1, <4>2
      <3>2. k <= life \div m /\ life \div m \in Nat
        <4>1. k \in Nat /\ m \in Nat \ {0} /\ k * m <= life
          BY <1>1, <3>1
        <4>2. life \in Nat
          <5> HIDE DEF life
          <5>1. QED  BY <2>1, <2>3
        <4> HIDE DEF k, m, life
        <4>3. QED  BY <4>1, <4>2, WindowsFit
      <3>3. MaxWindows(t) = 1 + (life \div m)
        BY <2>1, <2>3 DEF MaxWindows
      <3> HIDE DEF k, m, life
      <3>4. QED  BY <1>1, <3>2, <3>3
    <2>4. QED  BY <2>1, <2>2, <2>3
  <1>6. /\ (k + 1) * c <= MaxWindows(t) * c
        /\ (k + 1) * c \in Nat /\ MaxWindows(t) * c \in Nat
    BY <1>1, <1>5, MoreWindowsCostMore
  <1> DEFINE upTo == (k + 1) * c
             bound == MaxWindows(t) * c
  <1> HIDE DEF k, upTo, bound
  <1>7. spend[t].released <= upTo /\ upTo <= bound /\ upTo \in Nat /\ bound \in Nat
    BY <1>4, <1>6 DEF upTo, bound
  <1>8. spend[t].released <= bound
    BY <1>1, <1>7
  <1>9. QED  BY <1>8 DEF bound

\* Over its whole life the agent moves at most one period cap per window that
\* fits between the treasury's creation and the expiry, plus the first window.
THEOREM ExposureIsBounded == Spec => []LifetimeExposure
  BY InitExposure, NextExposure, ExposureBound, PTL DEF Spec

-----------------------------------------------------------------------------
(* The end of a mandate.                                                   *)

LEMMA SupplyKeepsMandate ==
  ASSUME TypeOK, NEW u \in created, NEW t \in Treasuries, NEW cap \in Treasuries,
         NEW a \in Adapters, NEW p \in Protocols, NEW amount \in Nat,
         SupplyThroughAdapter(t, cap, a, p, amount)
  PROVE  MandateKept(u)
  <1>1. ReleaseWithTicket(t, cap, amount) /\ u \in Treasuries
    BY DEF SupplyThroughAdapter, TypeOK
  <1>2. CASE u = t
    <2>1. /\ treasury[t].agent = t /\ t # NoAgent
          /\ now < terms[t].expiryMs /\ now \in Nat /\ terms[t].expiryMs \in Nat
      BY <1>1, TreasuryAssumption DEF ReleaseWithTicket, AgentActive, TypeOK, TermsType
    <2>2. QED  BY <1>2, <2>1 DEF MandateKept
  <1>3. CASE u # t
    <2>1. treasury'[u] = treasury[u] /\ spend'[u] = spend[u]
      BY <1>1, <1>3, ReleaseEffect
    <2>2. QED  BY <2>1 DEF MandateKept
  <1>4. QED  BY <1>2, <1>3

LEMMA NextKeepsMandate ==
  ASSUME TypeOK, [Next]_vars, NEW u \in created
  PROVE  MandateKept(u)
  <1>1. u \in Treasuries /\ treasury \in [Treasuries -> TreasuryType]
    BY DEF TypeOK
  <1>2. ASSUME spend' = spend,
               treasury[u].agent = NoAgent => treasury'[u].agent = NoAgent
        PROVE  MandateKept(u)
    BY <1>2 DEF MandateKept
  <1>3. CASE Tick
    BY <1>2, <1>3 DEF Tick
  <1>4. ASSUME NEW t \in Treasuries, NEW bounds \in Terms, NEW amount \in Amounts,
               Create(t, bounds, amount)
        PROVE  MandateKept(u)
    <2>1. spend' = spend /\ treasury'[u] = treasury[u]
      BY <1>1, <1>4 DEF Create
    <2>2. QED  BY <1>2, <2>1
  <1>5. ASSUME NEW t \in Treasuries, NEW owner \in Treasuries, NEW amount \in Amounts,
               Deposit(t, amount) \/ WithdrawPrincipal(t, owner, amount)
        PROVE  MandateKept(u)
    <2>1. spend' = spend
      BY <1>5 DEF Deposit, WithdrawPrincipal
    <2>2. treasury[u] \in TreasuryType /\ treasury[t] \in TreasuryType
      BY <1>1
    <2>3. treasury'[u].agent = treasury[u].agent
      BY <1>1, <1>5, <2>2 DEF Deposit, WithdrawPrincipal, TreasuryType
    <2>4. QED  BY <1>2, <2>1, <2>3
  <1>6. ASSUME NEW t \in Treasuries, NEW owner \in Treasuries, Revoke(t, owner)
        PROVE  MandateKept(u)
    <2>1. treasury[u] \in TreasuryType /\ treasury[t] \in TreasuryType /\ spend' = spend
      BY <1>1, <1>6 DEF Revoke
    <2>2. treasury'[u].agent = treasury[u].agent \/ treasury'[u].agent = NoAgent
      BY <1>1, <1>6, <2>1 DEF Revoke, TreasuryType
    <2>3. QED  BY <1>2, <2>1, <2>2
  <1>7. CASE spend' = spend /\ treasury' = treasury
    BY <1>2, <1>7
  <1>8. CASE OwnerNext
    <2>1. PICK t \in Treasuries :
             \/ \E bounds \in Terms, amount \in Amounts : Create(t, bounds, amount)
             \/ \E amount \in Amounts : Deposit(t, amount)
             \/ \E owner \in Treasuries :
                   \/ \E amount \in Amounts : WithdrawPrincipal(t, owner, amount)
                   \/ Revoke(t, owner)
                   \/ \E p \in Protocols : OwnerTakeReceipt(t, owner, p)
                   \/ \E p \in Protocols : \E receipt \in loose :
                         OwnerRecustody(t, owner, p, receipt)
                   \/ \E a \in Adapters : \E amount \in Redeemable(t, a) :
                         OwnerRedeem(t, owner, a, amount)
      BY <1>8 DEF OwnerNext
    <2>2. CASE \E bounds \in Terms, amount \in Amounts : Create(t, bounds, amount)
      BY <1>4, <2>2
    <2>3. CASE \E amount \in Amounts : Deposit(t, amount)
      BY <1>5, <2>3
    <2>4. ASSUME NEW owner \in Treasuries
          PROVE  /\ \A amount \in Amounts : WithdrawPrincipal(t, owner, amount) => MandateKept(u)
                 /\ Revoke(t, owner) => MandateKept(u)
      BY <1>5, <1>6
    <2>5. ASSUME NEW owner \in Treasuries, NEW p \in Protocols
          PROVE  /\ OwnerTakeReceipt(t, owner, p) => MandateKept(u)
                 /\ \A receipt \in loose :
                       OwnerRecustody(t, owner, p, receipt) => MandateKept(u)
      BY <1>7 DEF OwnerTakeReceipt, OwnerRecustody
    <2>6. ASSUME NEW owner \in Treasuries, NEW a \in Adapters, NEW amount \in Redeemable(t, a),
                 OwnerRedeem(t, owner, a, amount)
          PROVE  MandateKept(u)
      BY <1>7, <2>6 DEF OwnerRedeem
    <2>7. QED  BY <2>1, <2>2, <2>3, <2>4, <2>5, <2>6
  <1>9. CASE SupplyNext
    BY <1>9, SupplyKeepsMandate, TreasuryAssumption DEF SupplyNext
  <1>10. CASE HolderNext
    BY <1>7, <1>10 DEF HolderNext, OpenPosition, HolderTrades
  <1>11. CASE UNCHANGED vars
    BY <1>7, <1>11 DEF vars
  <1>12. QED  BY <1>3, <1>8, <1>9, <1>10, <1>11 DEF Next

\* No transaction releases a coin once the owner revoked or the expiry passed,
\* and none puts an agent back.
THEOREM MandateEnds == Spec => MandateEndsForGood
  <1>1. TypeOK /\ [Next]_vars => [\A t \in created : MandateKept(t)]_vars
    BY NextKeepsMandate
  <1>2. QED
    BY <1>1, TypeCorrect, PTL DEF Spec, MandateEndsForGood

-----------------------------------------------------------------------------
(* Conservation.  A receipt must not be counted twice when it moves between *)
(* treasuries and holders: the invariant adds that receipts are told apart  *)
(* by the number of the mint that made them.                                *)

CustodySum(receipts) == SumFunction([p \in Protocols |-> Worth(receipts[p])])
CustodyTotal(c) == SumFunction([t \in Treasuries |-> CustodySum(c[t])])
LooseSum(receipts) == SumFunction([r \in receipts |-> r.amount])
ReleasedTotal(s) == SumFunction([t \in Treasuries |-> s[t].released])
RedeemedTotal(h) == SumFunction([t \in Treasuries |-> h[t].redeemed])

\* What lies in receipts: those in custody and those in no treasury.
LEMMA AtWorkIs ==
  /\ AtWork = CustodyTotal(custody) + LooseSum(loose)
  /\ AtWork' = CustodyTotal(custody') + LooseSum(loose')
  BY DEF AtWork, InCustody, CustodySum, CustodyTotal, LooseSum

Held == Receipt \cup {NoReceipt}

\* A receipt is worth a natural.
LEMMA WorthType == \A r \in Held : Worth(r) \in Nat
  BY DEF Held, Worth, Receipt

\* Two functions that differ at one place.
LEMMA SumChange ==
  ASSUME NEW S, IsFiniteSet(S), NEW f \in [S -> Int], NEW g \in [S -> Int], NEW x \in S,
         \A y \in S \ {x} : g[y] = f[y]
  PROVE  /\ SumFunction(f) \in Int
         /\ SumFunction(g) = SumFunction(f) - f[x] + g[x]
  <1>1. PICK v \in Int : v = g[x] /\ g = [f EXCEPT ![x] = v]
    OBVIOUS
  <1>2. /\ SumFunction(f) \in Int
        /\ SumFunction([f EXCEPT ![x] = v]) = SumFunction(f) - f[x] + v
    BY SumExcept
  <1>3. QED  BY <1>1, <1>2

\* A sum of integers is one.
LEMMA SumInteger ==
  ASSUME NEW S, IsFiniteSet(S), NEW f \in [S -> Int]
  PROVE  SumFunction(f) \in Int
  BY SumInt DEF SumFunction

\* There are finitely many treasuries and protocols.
LEMMA FiniteIds == IsFiniteSet(Treasuries) /\ IsFiniteSet(Protocols)
  BY TreasuryAssumption

\* The same of one value per treasury.
LEMMA TreasurySums ==
  \A f, g \in [Treasuries -> Int], t \in Treasuries :
     (\A u \in Treasuries \ {t} : g[u] = f[u]) =>
        SumFunction(g) = SumFunction(f) - f[t] + g[t]
  BY SumChange, FiniteIds

Custodies == [Treasuries -> [Protocols -> Held]]

\* One receipt is put, taken or changed in one treasury.
Differ(c, d, t, p, r) ==
    /\ \A u \in Treasuries \ {t} : d[u] = c[u]
    /\ d[t][p] = r
    /\ \A q \in Protocols \ {p} : d[t][q] = c[t][q]

LEMMA CustodyChange ==
  \A c, d \in Custodies, t \in Treasuries, p \in Protocols, r \in Held :
     Differ(c, d, t, p, r) =>
        /\ CustodyTotal(c) \in Int
        /\ CustodyTotal(d) = CustodyTotal(c) - Worth(c[t][p]) + Worth(r)
  <1> SUFFICES ASSUME NEW c \in Custodies, NEW d \in Custodies, NEW t \in Treasuries,
                      NEW p \in Protocols, NEW r \in Held, Differ(c, d, t, p, r)
               PROVE  /\ CustodyTotal(c) \in Int
                      /\ CustodyTotal(d) = CustodyTotal(c) - Worth(c[t][p]) + Worth(r)
    OBVIOUS
  <1>1. /\ \A u \in Treasuries \ {t} : d[u] = c[u]
        /\ d[t][p] = r
        /\ \A q \in Protocols \ {p} : d[t][q] = c[t][q]
        /\ \A u \in Treasuries :
              c[u] \in [Protocols -> Held] /\ d[u] \in [Protocols -> Held]
    BY DEF Differ, Custodies
  <1>2. \A b \in [Protocols -> Held] : [q \in Protocols |-> Worth(b[q])] \in [Protocols -> Int]
    BY WorthType
  <1>3. \A b \in [Protocols -> Held] : CustodySum(b) \in Int
    BY <1>2, SumInteger, FiniteIds DEF CustodySum
  <1>4. CustodySum(d[t]) = CustodySum(c[t]) - Worth(c[t][p]) + Worth(r)
    <2> DEFINE f == [q \in Protocols |-> Worth(c[t][q])]
               g == [q \in Protocols |-> Worth(d[t][q])]
    <2>1. /\ f \in [Protocols -> Int] /\ g \in [Protocols -> Int]
          /\ f[p] = Worth(c[t][p]) /\ g[p] = Worth(r)
          /\ \A q \in Protocols \ {p} : g[q] = f[q]
      BY <1>1, <1>2
    <2> HIDE DEF f, g
    <2>2. SumFunction(g) = SumFunction(f) - f[p] + g[p]
      BY <2>1, SumChange, FiniteIds
    <2>3. QED  BY <2>1, <2>2 DEF f, g, CustodySum
  <1>5. Worth(c[t][p]) \in Nat /\ Worth(r) \in Nat
    BY <1>1, WorthType
  <1> DEFINE F == [u \in Treasuries |-> CustodySum(c[u])]
             G == [u \in Treasuries |-> CustodySum(d[u])]
  <1>6. /\ F \in [Treasuries -> Int] /\ G \in [Treasuries -> Int]
        /\ F[t] = CustodySum(c[t]) /\ G[t] = CustodySum(d[t])
        /\ \A u \in Treasuries \ {t} : G[u] = F[u]
    BY <1>1, <1>3
  <1> HIDE DEF F, G
  <1>7. SumFunction(F) \in Int /\ SumFunction(G) = SumFunction(F) - F[t] + G[t]
    <2>1. SumFunction(F) \in Int
      BY <1>6, SumInteger, FiniteIds
    <2>2. SumFunction(G) = SumFunction(F) - F[t] + G[t]
      BY <1>6, TreasurySums
    <2>3. QED  BY <2>1, <2>2
  <1>8. CustodyTotal(c) = SumFunction(F) /\ CustodyTotal(d) = SumFunction(G)
    BY DEF CustodyTotal, F, G
  <1>9. F[t] \in Int /\ G[t] \in Int
    BY <1>6
  <1>10. QED  BY <1>4, <1>5, <1>6, <1>7, <1>8, <1>9

\* A receipt leaves a treasury, or is opened at the protocol.
LEMMA LooseInsert ==
  ASSUME NEW s \in SUBSET Receipt, IsFiniteSet(s), NEW r \in Receipt, r \notin s
  PROVE  /\ LooseSum(s) \in Int
         /\ LooseSum(s \cup {r}) = r.amount + LooseSum(s)
  <1> DEFINE f == [q \in s \cup {r} |-> q.amount]
             g == [q \in s |-> q.amount]
  <1>1. f \in [s \cup {r} -> Int] /\ f[r] = r.amount /\ g = [q \in s |-> f[q]]
    BY DEF Receipt
  <1> HIDE DEF f, g
  <1>2. SumFunction(g) \in Int /\ SumFunction(f) = f[r] + SumFunction(g)
    BY <1>1, SumInsert
  <1>3. QED  BY <1>1, <1>2 DEF f, g, LooseSum

\* A receipt comes into a treasury.
LEMMA LooseRemove ==
  ASSUME NEW s \in SUBSET Receipt, IsFiniteSet(s), NEW r \in s
  PROVE  /\ LooseSum(s) \in Int
         /\ LooseSum(s \ {r}) \in Int
         /\ LooseSum(s \ {r}) = LooseSum(s) - r.amount
  <1>1. /\ s \ {r} \in SUBSET Receipt /\ IsFiniteSet(s \ {r}) /\ r \in Receipt
        /\ r \notin s \ {r} /\ (s \ {r}) \cup {r} = s /\ r.amount \in Int
    BY FS_RemoveElement DEF Receipt
  <1>2. LooseSum(s \ {r}) \in Int /\ LooseSum(s) = r.amount + LooseSum(s \ {r})
    BY <1>1, LooseInsert
  <1>3. QED  BY <1>1, <1>2

\* Receipts stem from different mints.
ReceiptsDiffer ==
    /\ \A t \in Treasuries, p \in Protocols :
          custody[t][p] # NoReceipt => custody[t][p].born <= minted
    /\ \A r \in loose : r.born <= minted
    /\ \A t, u \in Treasuries, p, q \in Protocols :
          /\ custody[t][p] # NoReceipt /\ custody[u][q] # NoReceipt
          /\ custody[t][p].born = custody[u][q].born
          => t = u /\ p = q
    /\ \A t \in Treasuries, p \in Protocols : \A r \in loose :
          custody[t][p] # NoReceipt => custody[t][p].born # r.born
    /\ \A q, r \in loose : q.born = r.born => q = r

\* The coins of all treasuries that were released, and those of the holders.
Pooled == ReleasedTotal(spend) + brought = AtWork + RedeemedTotal(hist)

Balanced(t) ==
    /\ hist[t].inflow = treasury[t].funds + hist[t].withdrawn + spend[t].released
    /\ hist[t].inflow <= MaxInflow

Unborn(t) ==
    /\ treasury[t].funds = 0 /\ spend[t].released = 0 /\ spend[t].log = <<>>
    /\ hist[t].inflow = 0 /\ hist[t].withdrawn = 0 /\ hist[t].redeemed = 0

Separate == IsFiniteSet(loose) /\ ReceiptsDiffer

FundsInv ==
    /\ TypeOK
    /\ Separate
    /\ Pooled
    /\ \A t \in Treasuries : Balanced(t)
    /\ \A t \in Treasuries \ created : Unborn(t)

\* The sums are integers.
LEMMA CustodyInt ==
  ASSUME NEW c \in [Treasuries -> [Protocols -> Held]], NEW s \in SUBSET Receipt, IsFiniteSet(s)
  PROVE  CustodyTotal(c) \in Int /\ LooseSum(s) \in Int
  <1>1. \A b \in [Protocols -> Held] : [q \in Protocols |-> Worth(b[q])] \in [Protocols -> Int]
    BY WorthType
  <1>2. \A b \in [Protocols -> Held] : CustodySum(b) \in Int
    BY <1>1, SumInteger, FiniteIds DEF CustodySum
  <1>3. [t \in Treasuries |-> CustodySum(c[t])] \in [Treasuries -> Int]
    BY <1>2
  <1>4. [r \in s |-> r.amount] \in [s -> Int]
    BY DEF Receipt
  <1>5. QED  BY <1>3, <1>4, SumInteger, FiniteIds DEF CustodyTotal, LooseSum

LEMMA TotalsInt ==
  ASSUME TypeOK
  PROVE  /\ ReleasedTotal(spend) \in Int /\ RedeemedTotal(hist) \in Int /\ brought \in Int
         /\ IsFiniteSet(loose) => AtWork \in Int
         /\ TypeOK' /\ IsFiniteSet(loose') => AtWork' \in Int /\ brought' \in Int
  <1>1. /\ [t \in Treasuries |-> spend[t].released] \in [Treasuries -> Int]
        /\ [t \in Treasuries |-> hist[t].redeemed] \in [Treasuries -> Int]
    BY DEF TypeOK, Spending, History
  <1>2. ReleasedTotal(spend) \in Int /\ RedeemedTotal(hist) \in Int
    BY <1>1, SumInteger, FiniteIds DEF ReleasedTotal, RedeemedTotal
  <1>3. /\ custody \in [Treasuries -> [Protocols -> Held]] /\ loose \in SUBSET Receipt
        /\ TypeOK' => /\ custody' \in [Treasuries -> [Protocols -> Held]]
                      /\ loose' \in SUBSET Receipt
    BY DEF TypeOK, Held
  <1>4. /\ IsFiniteSet(loose) => CustodyTotal(custody) \in Int /\ LooseSum(loose) \in Int
        /\ TypeOK' /\ IsFiniteSet(loose') =>
              CustodyTotal(custody') \in Int /\ LooseSum(loose') \in Int
    BY <1>3, CustodyInt
  <1>5. QED  BY <1>2, <1>4, AtWorkIs DEF TypeOK

\* Before any treasury exists nothing is owned.
LEMMA InitFunds == Init => FundsInv
  <1> SUFFICES ASSUME Init
               PROVE  FundsInv
    OBVIOUS
  <1>1. TypeOK
    BY InitTypeOK
  <1>2. ASSUME NEW t \in Treasuries
        PROVE  Balanced(t) /\ Unborn(t)
    <2>1. /\ treasury[t].funds = 0 /\ spend[t].released = 0 /\ spend[t].log = <<>>
          /\ hist[t].inflow = 0 /\ hist[t].withdrawn = 0 /\ hist[t].redeemed = 0
      BY DEF Init
    <2>2. QED  BY <2>1, TreasuryAssumption DEF Balanced, Unborn
  <1>3. Separate
    BY FS_EmptySet DEF Init, Separate, ReceiptsDiffer
  <1>4. Pooled
    <2> DEFINE f == [t \in Treasuries |-> 0]
               g == [p \in Protocols |-> 0]
    <2>1. SumFunction(f) = 0 /\ SumFunction(g) = 0
      BY SumOfZeros, FiniteIds DEF SumFunction
    <2>2. [t \in Treasuries |-> spend[t].released] = f /\ [t \in Treasuries |-> hist[t].redeemed] = f
      BY DEF Init
    <2>3. \A t \in Treasuries : [p \in Protocols |-> Worth(custody[t][p])] = g
      BY DEF Init, Worth
    <2> HIDE DEF f, g
    <2>4. [t \in Treasuries |-> CustodySum(custody[t])] = f
      BY <2>1, <2>3 DEF CustodySum, f
    <2>5. LooseSum(loose) = 0
      BY SumEmpty DEF LooseSum, SumFunction, Init
    <2>6. brought = 0
      BY DEF Init
    <2>7. CustodyTotal(custody) = 0 /\ ReleasedTotal(spend) = 0 /\ RedeemedTotal(hist) = 0
      BY <2>1, <2>2, <2>4 DEF CustodyTotal, ReleasedTotal, RedeemedTotal
    <2>8. QED  BY <2>5, <2>6, <2>7, AtWorkIs DEF Pooled
  <1>5. QED  BY <1>1, <1>2, <1>3, <1>4 DEF FundsInv

\* A step concerns the money of at most one treasury.
LEMMA MoneyFrame ==
  ASSUME FundsInv, NEW t \in Treasuries, Balanced(t)',
         t \in created', created' \subseteq created \cup {t}, created \subseteq created',
         \A u \in Treasuries \ {t} :
            treasury'[u].funds = treasury[u].funds /\ hist'[u] = hist[u] /\ spend'[u] = spend[u]
  PROVE  /\ \A u \in Treasuries : Balanced(u)'
         /\ \A u \in Treasuries \ created' : Unborn(u)'
  <1>1. ASSUME NEW u \in Treasuries, u # t
        PROVE  Balanced(u)'
    BY <1>1 DEF FundsInv, Balanced
  <1>2. ASSUME NEW u \in Treasuries \ created'
        PROVE  Unborn(u)'
    <2>1. u # t /\ u \in Treasuries \ created /\ Unborn(u)
      BY <1>2 DEF FundsInv
    <2>2. QED  BY <2>1 DEF Unborn
  <1>3. QED  BY <1>1, <1>2

\* A step that concerns no treasury's money.
LEMMA MoneyStill ==
  ASSUME FundsInv, treasury' = treasury, hist' = hist, spend' = spend, created' = created
  PROVE  /\ \A u \in Treasuries : Balanced(u)'
         /\ \A u \in Treasuries \ created' : Unborn(u)'
  BY DEF FundsInv, Balanced, Unborn

\* What was released and redeemed stays, and so do the receipts.
LEMMA PoolStill ==
  ASSUME FundsInv, custody' = custody, loose' = loose, minted' = minted, brought' = brought,
         spend' = spend, \A u \in Treasuries : hist'[u].redeemed = hist[u].redeemed
  PROVE  Separate' /\ Pooled'
  <1>1. RedeemedTotal(hist') = RedeemedTotal(hist) /\ ReleasedTotal(spend') = ReleasedTotal(spend)
    BY DEF RedeemedTotal, ReleasedTotal
  <1>2. AtWork' = AtWork
    BY AtWorkIs
  <1>3. QED  BY <1>1, <1>2 DEF FundsInv, Pooled, Separate, ReceiptsDiffer

\* Receipts move or are traded; the treasuries' money stays.
LEMMA ReceiptsMove ==
  ASSUME FundsInv, TypeOK', treasury' = treasury, hist' = hist, spend' = spend,
         created' = created, Separate', AtWork' - brought' = AtWork - brought
  PROVE  FundsInv'
  <1>1. Pooled'
    <2>1. IsFiniteSet(loose) /\ IsFiniteSet(loose') /\ TypeOK
      BY DEF FundsInv, Separate
    <2>2. /\ AtWork \in Int /\ AtWork' \in Int /\ brought \in Int /\ brought' \in Int
          /\ ReleasedTotal(spend) \in Int /\ RedeemedTotal(hist) \in Int
      BY <2>1, TotalsInt
    <2>3. ReleasedTotal(spend') = ReleasedTotal(spend) /\ RedeemedTotal(hist') = RedeemedTotal(hist)
      OBVIOUS
    <2>4. ReleasedTotal(spend) + brought = AtWork + RedeemedTotal(hist)
      BY DEF FundsInv, Pooled
    <2>5. ReleasedTotal(spend) + brought' = AtWork' + RedeemedTotal(hist)
      <3>1. PICK v \in Int, w \in Int : v = AtWork' /\ w = AtWork
        BY <2>2
      <3>2. PICK r \in Int, h \in Int : r = ReleasedTotal(spend) /\ h = RedeemedTotal(hist)
        BY <2>2
      <3>3. PICK c \in Int, b \in Int : c = brought' /\ b = brought
        BY <2>2
      <3>4. v - c = w - b
        BY <3>1, <3>3
      <3>5. r + b = w + h
        BY <2>4, <3>1, <3>2, <3>3
      <3>6. r + c = v + h
        BY <3>4, <3>5
      <3>7. QED  BY <3>1, <3>2, <3>3, <3>6
    <2>6. QED  BY <2>3, <2>5 DEF Pooled
  <1>2. QED  BY <1>1, MoneyStill DEF FundsInv

\* FundsInv is kept by each kind of step.
LEMMA CreateFunds ==
  ASSUME FundsInv, NEW t \in Treasuries, NEW bounds \in Terms, NEW amount \in Amounts,
         Create(t, bounds, amount)
  PROVE  FundsInv'
  <1>1. TypeOK /\ TypeOK' /\ amount \in Nat /\ amount <= MaxInflow
    BY CreateTypeOK, TreasuryAssumption DEF FundsInv, Create
  <1>2. /\ treasury'[t].funds = amount
        /\ hist'[t].inflow = amount /\ hist'[t].withdrawn = 0 /\ hist'[t].redeemed = 0
        /\ \A u \in Treasuries \ {t} : treasury'[u] = treasury[u] /\ hist'[u] = hist[u]
    BY <1>1 DEF Create, TypeOK
  <1>3. /\ custody' = custody /\ loose' = loose /\ spend' = spend
        /\ minted' = minted /\ brought' = brought
        /\ created' = created \cup {t} /\ Unborn(t)
    BY DEF Create, FundsInv
  <1>4. Balanced(t)'
    BY <1>1, <1>2, <1>3 DEF Unborn, Balanced
  <1>5. Separate' /\ Pooled'
    BY <1>2, <1>3, PoolStill DEF Unborn
  <1>6. /\ \A u \in Treasuries : Balanced(u)'
        /\ \A u \in Treasuries \ created' : Unborn(u)'
    BY <1>2, <1>3, <1>4, MoneyFrame
  <1>7. QED  BY <1>1, <1>5, <1>6 DEF FundsInv

LEMMA MoneyFunds ==
  ASSUME FundsInv, NEW t \in Treasuries, NEW owner \in Treasuries, NEW amount \in Amounts,
         Deposit(t, amount) \/ WithdrawPrincipal(t, owner, amount)
  PROVE  FundsInv'
  <1>1. /\ TypeOK /\ TypeOK' /\ amount \in Nat
        /\ treasury[t] \in TreasuryType /\ hist[t] \in History /\ spend[t] \in Spending
        /\ t \in created
    BY OwnerMoneyTypeOK, TreasuryAssumption
       DEF FundsInv, TypeOK, Deposit, WithdrawPrincipal
  <1>nat. /\ treasury[t].funds \in Nat /\ spend[t].released \in Nat
        /\ hist[t].inflow \in Nat /\ hist[t].withdrawn \in Nat
    BY <1>1 DEF TreasuryType, History, Spending
  <1>2. /\ custody' = custody /\ loose' = loose /\ spend' = spend /\ created' = created
        /\ minted' = minted /\ brought' = brought
    BY DEF Deposit, WithdrawPrincipal
  <1>3. Balanced(t)
    BY DEF FundsInv
  <1>4. CASE Deposit(t, amount)
    <2>1. /\ treasury'[t].funds = treasury[t].funds + amount
          /\ hist'[t].inflow = hist[t].inflow + amount
          /\ hist'[t].withdrawn = hist[t].withdrawn /\ hist'[t].redeemed = hist[t].redeemed
          /\ hist'[t].inflow <= MaxInflow
          /\ \A u \in Treasuries \ {t} : treasury'[u] = treasury[u] /\ hist'[u] = hist[u]
      BY <1>1, <1>4 DEF Deposit, TypeOK, TreasuryType, History
    <2>2. hist'[t].inflow = treasury'[t].funds + hist'[t].withdrawn + spend'[t].released
      BY <1>1, <1>nat, <1>2, <1>3, <2>1 DEF Balanced
    <2>3. Balanced(t)'
      BY <2>1, <2>2 DEF Balanced
    <2>4. /\ \A u \in Treasuries : Balanced(u)'
          /\ \A u \in Treasuries \ created' : Unborn(u)'
      BY <1>1, <1>2, <2>1, <2>3, MoneyFrame
    <2>5. Separate' /\ Pooled'
      BY <1>2, <2>1, PoolStill
    <2>6. QED  BY <1>1, <2>4, <2>5 DEF FundsInv
  <1>5. CASE WithdrawPrincipal(t, owner, amount)
    <2>1. owner = t
      BY <1>5 DEF WithdrawPrincipal, OwnerCapMatches
    <2>2. /\ treasury'[t].funds = treasury[t].funds - amount
          /\ hist'[t].inflow = hist[t].inflow
          /\ hist'[t].withdrawn = hist[t].withdrawn + amount
          /\ hist'[t].redeemed = hist[t].redeemed
          /\ \A u \in Treasuries \ {t} : treasury'[u] = treasury[u] /\ hist'[u] = hist[u]
      BY <1>1, <1>5, <2>1 DEF WithdrawPrincipal, TypeOK, TreasuryType, History
    <2>3. hist'[t].inflow = treasury'[t].funds + hist'[t].withdrawn + spend'[t].released
      BY <1>1, <1>nat, <1>2, <1>3, <2>2 DEF Balanced
    <2>4. Balanced(t)'
      BY <1>3, <2>2, <2>3 DEF Balanced
    <2>5. /\ \A u \in Treasuries : Balanced(u)'
          /\ \A u \in Treasuries \ created' : Unborn(u)'
      BY <1>1, <1>2, <2>2, <2>4, MoneyFrame
    <2>6. Separate' /\ Pooled'
      BY <1>2, <2>2, PoolStill
    <2>7. QED  BY <1>1, <2>5, <2>6 DEF FundsInv
  <1>6. QED  BY <1>4, <1>5

LEMMA RevokeFunds ==
  ASSUME FundsInv, NEW t \in Treasuries, NEW owner \in Treasuries, Revoke(t, owner)
  PROVE  FundsInv'
  <1>1. /\ TypeOK /\ TypeOK' /\ t \in created /\ treasury[t] \in TreasuryType
        /\ hist[t] \in History /\ spend[t] \in Spending
    BY RevokeTypeOK DEF FundsInv, Revoke, TypeOK
  <1>2. /\ \A u \in Treasuries : treasury'[u].funds = treasury[u].funds
        /\ custody' = custody /\ loose' = loose /\ spend' = spend /\ hist' = hist
        /\ created' = created /\ minted' = minted /\ brought' = brought
    BY <1>1 DEF Revoke, TypeOK, TreasuryType
  <1>3. Balanced(t)'
    BY <1>2 DEF FundsInv, Balanced
  <1>4. /\ \A u \in Treasuries : Balanced(u)'
        /\ \A u \in Treasuries \ created' : Unborn(u)'
    BY <1>1, <1>2, <1>3, MoneyFrame
  <1>5. Separate' /\ Pooled'
    BY <1>2, PoolStill
  <1>6. QED  BY <1>1, <1>4, <1>5 DEF FundsInv

LEMMA StillFunds ==
  ASSUME FundsInv, TypeOK', treasury' = treasury, spend' = spend, hist' = hist,
         custody' = custody, loose' = loose, created' = created,
         minted' = minted, brought' = brought
  PROVE  FundsInv'
  BY PoolStill, MoneyStill DEF FundsInv

\* What the types say of one slot of custody.
LEMMA SlotType ==
  ASSUME TypeOK, NEW t \in Treasuries, NEW p \in Protocols
  PROVE  /\ custody \in [Treasuries -> [Protocols -> Held]]
         /\ custody[t][p] \in Held
         /\ custody[t][p] # NoReceipt =>
               /\ custody[t][p] \in Receipt /\ Worth(custody[t][p]) = custody[t][p].amount
               /\ custody[t][p].amount \in Nat
         /\ NoReceipt \in Held /\ NoReceipt \notin Receipt /\ Worth(NoReceipt) = 0
         /\ loose \in SUBSET Receipt /\ minted \in Nat /\ brought \in Int
  BY TreasuryAssumption DEF TypeOK, Held, Receipt, Worth

\* A step that replaces one receipt.
LEMMA SlotChange ==
  ASSUME TypeOK, TypeOK', NEW t \in Treasuries, NEW p \in Protocols, NEW r \in Held,
         custody' = [custody EXCEPT ![t][p] = r]
  PROVE  /\ CustodyTotal(custody) \in Int
         /\ CustodyTotal(custody') = CustodyTotal(custody) - Worth(custody[t][p]) + Worth(r)
  <1>1. custody \in Custodies /\ custody' \in Custodies
    BY DEF TypeOK, Held, Custodies
  <1>2. Differ(custody, custody', t, p, r)
    BY <1>1 DEF Differ, Custodies
  <1>3. QED  BY <1>1, <1>2, CustodyChange

\* A receipt in custody or loose is numbered.
LEMMA BornNat ==
  ASSUME TypeOK
  PROVE  /\ \A t \in Treasuries, p \in Protocols :
               custody[t][p] # NoReceipt => custody[t][p].born \in Nat
         /\ \A r \in loose : r.born \in Nat
  BY DEF TypeOK, Receipt

LEMMA TakeFunds ==
  ASSUME FundsInv, NEW t \in Treasuries, NEW owner \in Treasuries, NEW p \in Protocols,
         OwnerTakeReceipt(t, owner, p)
  PROVE  FundsInv'
  <1>1. /\ TypeOK /\ TypeOK' /\ custody[t][p] # NoReceipt
        /\ treasury' = treasury /\ spend' = spend /\ hist' = hist /\ created' = created
        /\ custody' = [custody EXCEPT ![t][p] = NoReceipt]
        /\ loose' = loose \cup {custody[t][p]} /\ minted' = minted /\ brought' = brought
    BY OwnerReceiptTypeOK DEF FundsInv, OwnerTakeReceipt
  <1>2. PICK r \in Receipt : r = custody[t][p] /\ r # NoReceipt /\ Worth(r) = r.amount
    BY <1>1, SlotType
  <1>3. /\ custody \in [Treasuries -> [Protocols -> Held]]
        /\ custody' \in [Treasuries -> [Protocols -> Held]]
        /\ loose \in SUBSET Receipt /\ NoReceipt \in Held /\ Worth(NoReceipt) = 0
        /\ r.amount \in Nat
    <2>1. /\ custody \in [Treasuries -> [Protocols -> Held]]
          /\ loose \in SUBSET Receipt /\ NoReceipt \in Held /\ Worth(NoReceipt) = 0
      BY <1>1, SlotType
    <2>2. custody' \in [Treasuries -> [Protocols -> Held]]
      BY <1>1 DEF TypeOK, Held
    <2>3. QED  BY <2>1, <2>2 DEF Receipt
  <1>4. IsFiniteSet(loose) /\ ReceiptsDiffer
    BY DEF FundsInv, Separate
  <1>5. r \notin loose
    BY <1>1, <1>2, <1>4 DEF ReceiptsDiffer
  <1>6. AtWork' - brought' = AtWork - brought
    <2>1. /\ CustodyTotal(custody) \in Int
          /\ CustodyTotal(custody') = CustodyTotal(custody) - r.amount + 0
      BY <1>1, <1>2, <1>3, SlotChange
    <2>2. /\ LooseSum(loose) \in Int /\ LooseSum(loose') = r.amount + LooseSum(loose)
      BY <1>1, <1>2, <1>3, <1>4, <1>5, LooseInsert
    <2>3. AtWork' = AtWork
      BY <1>3, <2>1, <2>2, AtWorkIs
    <2>4. QED  BY <1>1, <2>3
  <1>7. Separate'
    <2>1. \A u \in Treasuries, q \in Protocols :
             custody'[u][q] = IF u = t /\ q = p THEN NoReceipt ELSE custody[u][q]
      BY <1>1, <1>3
    <2>2. loose' = loose \cup {r} /\ minted' = minted
      BY <1>1, <1>2
    <2>3. /\ \A u \in Treasuries, q \in Protocols :
                custody'[u][q] # NoReceipt =>
                   custody[u][q] = custody'[u][q] /\ (u # t \/ q # p)
          /\ r = custody[t][p] /\ r # NoReceipt
      BY <1>2, <2>1
    <2>4. ReceiptsDiffer'
      BY <1>4, <2>2, <2>3 DEF ReceiptsDiffer
    <2>5. QED  BY <1>4, <2>2, <2>4, FS_AddElement DEF Separate
  <1>8. QED  BY <1>1, <1>6, <1>7, ReceiptsMove

LEMMA RecustodyFunds ==
  ASSUME FundsInv, NEW t \in Treasuries, NEW owner \in Treasuries, NEW p \in Protocols,
         NEW r \in loose, OwnerRecustody(t, owner, p, r)
  PROVE  FundsInv'
  <1>1. /\ TypeOK /\ TypeOK' /\ custody[t][p] = NoReceipt
        /\ treasury' = treasury /\ spend' = spend /\ hist' = hist /\ created' = created
        /\ custody' = [custody EXCEPT ![t][p] = r]
        /\ loose' = loose \ {r} /\ minted' = minted /\ brought' = brought
    BY OwnerReceiptTypeOK DEF FundsInv, OwnerRecustody
  <1>2. /\ custody \in [Treasuries -> [Protocols -> Held]]
        /\ custody' \in [Treasuries -> [Protocols -> Held]]
        /\ loose \in SUBSET Receipt /\ Worth(NoReceipt) = 0
        /\ r \in Held /\ r # NoReceipt /\ r.amount \in Nat /\ Worth(r) = r.amount
    <2>1. /\ custody \in [Treasuries -> [Protocols -> Held]] /\ NoReceipt \notin Receipt
          /\ loose \in SUBSET Receipt /\ Worth(NoReceipt) = 0
      BY <1>1, SlotType
    <2>2. custody' \in [Treasuries -> [Protocols -> Held]]
      BY <1>1 DEF TypeOK, Held
    <2>3. r \in Held /\ r # NoReceipt /\ r.amount \in Nat /\ Worth(r) = r.amount
      BY <2>1 DEF Held, Receipt, Worth
    <2>4. QED  BY <2>1, <2>2, <2>3
  <1>3. IsFiniteSet(loose) /\ ReceiptsDiffer
    BY DEF FundsInv, Separate
  <1>4. AtWork' - brought' = AtWork - brought
    <2>1. /\ CustodyTotal(custody) \in Int
          /\ CustodyTotal(custody') = CustodyTotal(custody) - 0 + r.amount
      BY <1>1, <1>2, SlotChange
    <2>2. /\ LooseSum(loose) \in Int /\ LooseSum(loose') \in Int
          /\ LooseSum(loose') = LooseSum(loose) - r.amount
      BY <1>1, <1>2, <1>3, LooseRemove
    <2>3. AtWork' = AtWork
      BY <1>2, <2>1, <2>2, AtWorkIs
    <2>4. QED  BY <1>1, <2>3
  <1>5. Separate'
    <2>1. \A u \in Treasuries, q \in Protocols :
             custody'[u][q] = IF u = t /\ q = p THEN r ELSE custody[u][q]
      BY <1>1, <1>2
    <2>2. \A u \in Treasuries, q \in Protocols :
             custody'[u][q] # NoReceipt =>
                \/ u = t /\ q = p /\ custody'[u][q] = r
                \/ custody'[u][q] = custody[u][q]
      BY <2>1
    <2>3. ReceiptsDiffer'
      BY <1>1, <1>3, <2>2 DEF ReceiptsDiffer
    <2>4. QED  BY <1>1, <1>3, <2>3, FS_RemoveElement DEF Separate
  <1>6. QED  BY <1>1, <1>4, <1>5, ReceiptsMove

\* A position opened at the protocol holds nothing and is new.
LEMMA OpenFunds ==
  ASSUME FundsInv, NEW a \in Adapters, OpenPosition(a)
  PROVE  FundsInv'
  <1>1. PICK r \in Receipt : /\ r.amount = 0 /\ r.born = minted + 1
                             /\ loose' = loose \cup {r}
    <2>1. minted \in Nat
      BY DEF FundsInv, TypeOK
    <2>2. [adapter |-> a, amount |-> 0, born |-> minted + 1] \in Receipt
      BY <2>1 DEF Receipt
    <2>3. QED  BY <2>2 DEF OpenPosition
  <1>2. /\ TypeOK /\ TypeOK'
        /\ treasury' = treasury /\ spend' = spend /\ hist' = hist /\ created' = created
        /\ custody' = custody /\ minted' = minted + 1 /\ brought' = brought /\ minted \in Nat
    BY HolderTypeOK DEF FundsInv, OpenPosition, TypeOK
  <1>3. IsFiniteSet(loose) /\ ReceiptsDiffer /\ loose \in SUBSET Receipt
    BY DEF FundsInv, Separate, TypeOK
  <1>4. r \notin loose
    BY <1>1, <1>2, <1>3 DEF ReceiptsDiffer
  <1>5. AtWork' = AtWork
    <2>1. LooseSum(loose) \in Int /\ LooseSum(loose') = 0 + LooseSum(loose)
      BY <1>1, <1>3, <1>4, LooseInsert
    <2>2. LooseSum(loose') = LooseSum(loose)
      BY <2>1
    <2>3. QED  BY <1>2, <2>2, AtWorkIs
  <1>6. Separate'
    <2>1. ReceiptsDiffer'
      BY <1>1, <1>2, <1>3, BornNat DEF ReceiptsDiffer
    <2>2. QED  BY <1>1, <1>3, <2>1, FS_AddElement DEF Separate
  <1>7. QED  BY <1>2, <1>5, <1>6, ReceiptsMove

\* What a holder supplies or takes back is brought, or taken from what was.
LEMMA TradeFunds ==
  ASSUME FundsInv, NEW r \in loose, NEW amount \in Amounts \cup {0}, HolderTrades(r, amount)
  PROVE  FundsInv'
  <1>1. /\ TypeOK /\ TypeOK' /\ amount \in Nat
        /\ treasury' = treasury /\ spend' = spend /\ hist' = hist /\ created' = created
        /\ custody' = custody /\ minted' = minted /\ brought' = brought + amount - r.amount
    BY HolderTypeOK, TreasuryAssumption DEF FundsInv, HolderTrades
  <1>2. PICK s \in Receipt : /\ s.amount = amount /\ s.born = r.born
                             /\ loose' = (loose \ {r}) \cup {s}
    <2>1. r \in Receipt
      BY <1>1 DEF TypeOK
    <2>2. /\ [r EXCEPT !.amount = amount] \in Receipt
          /\ [r EXCEPT !.amount = amount].amount = amount
          /\ [r EXCEPT !.amount = amount].born = r.born
      BY <1>1, <2>1 DEF Receipt
    <2>3. QED  BY <2>2 DEF HolderTrades
  <1>3. /\ IsFiniteSet(loose) /\ ReceiptsDiffer /\ loose \in SUBSET Receipt
        /\ r.amount \in Nat /\ brought \in Int
    BY <1>1 DEF FundsInv, Separate, TypeOK, Receipt
  <1>4. IsFiniteSet(loose \ {r}) /\ loose \ {r} \in SUBSET Receipt
    BY <1>3, FS_RemoveElement
  <1>5. s \notin loose \ {r}
    BY <1>2, <1>3 DEF ReceiptsDiffer
  <1>6. AtWork' - brought' = AtWork - brought
    <2>1. /\ LooseSum(loose) \in Int /\ LooseSum(loose \ {r}) \in Int
          /\ LooseSum(loose \ {r}) = LooseSum(loose) - r.amount
      BY <1>3, LooseRemove
    <2>2. LooseSum(loose') = amount + LooseSum(loose \ {r})
      BY <1>2, <1>4, <1>5, LooseInsert
    <2>3. LooseSum(loose') = LooseSum(loose) - r.amount + amount
      BY <1>1, <1>3, <2>1, <2>2
    <2>4. PICK c \in Int, x \in Int : c = CustodyTotal(custody) /\ x = LooseSum(loose)
      <3>1. custody \in [Treasuries -> [Protocols -> Held]]
        BY <1>1 DEF TypeOK, Held
      <3>2. QED  BY <1>3, <2>1, <3>1, CustodyInt
    <2>5. AtWork = c + x /\ AtWork' = c + (x - r.amount + amount)
      BY <1>1, <2>3, <2>4, AtWorkIs
    <2>6. QED  BY <1>1, <1>3, <2>4, <2>5
  <1>7. Separate'
    <2>1. ReceiptsDiffer'
      BY <1>1, <1>2, <1>3 DEF ReceiptsDiffer
    <2>2. QED  BY <1>2, <1>4, <2>1, FS_AddElement DEF Separate
  <1>8. QED  BY <1>1, <1>6, <1>7, ReceiptsMove

\* A protocol's receipt is replaced: by nothing, by itself with another amount,
\* or, where there was none, by the receipt that is minted.
ReceiptReplaced(t, p, r) ==
    /\ custody' = [custody EXCEPT ![t][p] = r]
    /\ loose' = loose
    /\ \/ r = NoReceipt /\ minted' = minted
       \/ custody[t][p] # NoReceipt /\ r.born = custody[t][p].born /\ minted' = minted
       \/ custody[t][p] = NoReceipt /\ r.born = minted + 1 /\ minted' = minted + 1

\* What such a replacement does to the pool.
LEMMA ReceiptChange ==
  ASSUME FundsInv, TypeOK', NEW t \in Treasuries, NEW p \in Protocols, NEW r \in Held,
         ReceiptReplaced(t, p, r)
  PROVE  /\ AtWork \in Int
         /\ AtWork' = AtWork - Worth(custody[t][p]) + Worth(r)
         /\ Separate'
  <1>1. /\ custody \in [Treasuries -> [Protocols -> Held]] /\ loose \in SUBSET Receipt
        /\ custody' \in [Treasuries -> [Protocols -> Held]]
        /\ IsFiniteSet(loose) /\ ReceiptsDiffer /\ TypeOK /\ minted \in Nat
        /\ loose' = loose
    BY DEF FundsInv, TypeOK, Held, Separate, ReceiptReplaced
  <1>2. /\ CustodyTotal(custody) \in Int
        /\ CustodyTotal(custody') = CustodyTotal(custody) - Worth(custody[t][p]) + Worth(r)
    BY <1>1, SlotChange DEF ReceiptReplaced
  <1>3. LooseSum(loose) \in Int
    BY <1>1, CustodyInt
  <1>4. Worth(custody[t][p]) \in Nat /\ Worth(r) \in Nat
    BY <1>1, WorthType
  <1>5. AtWork \in Int /\ AtWork' = AtWork - Worth(custody[t][p]) + Worth(r)
    <2>1. AtWork = CustodyTotal(custody) + LooseSum(loose)
      BY AtWorkIs
    <2>2. AtWork' = CustodyTotal(custody') + LooseSum(loose)
      BY <1>1, AtWorkIs
    <2>3. QED  BY <1>2, <1>3, <1>4, <2>1, <2>2
  <1>6. ReceiptsDiffer'
    <2>1. \A u \in Treasuries, q \in Protocols :
             custody'[u][q] = IF u = t /\ q = p THEN r ELSE custody[u][q]
      BY <1>1 DEF ReceiptReplaced
    <2>2. \A u \in Treasuries, q \in Protocols :
             custody'[u][q] # NoReceipt =>
                \/ u = t /\ q = p /\ custody'[u][q] = r /\ r # NoReceipt
                \/ custody'[u][q] = custody[u][q] /\ (u # t \/ q # p)
      BY <2>1
    <2>3. r # NoReceipt =>
             \/ custody[t][p] # NoReceipt /\ r.born = custody[t][p].born /\ minted' = minted
             \/ r.born = minted + 1 /\ minted' = minted + 1
      BY DEF ReceiptReplaced
    <2>4. minted' = minted \/ minted' = minted + 1
      BY DEF ReceiptReplaced
    <2>5. /\ \A u \in Treasuries, q \in Protocols :
                custody'[u][q] # NoReceipt => custody'[u][q].born <= minted'
          /\ \A q \in loose : q.born <= minted'
      <3>1. /\ \A u \in Treasuries, q \in Protocols : custody[u][q] # NoReceipt =>
                  custody[u][q].born \in Nat /\ custody[u][q].born <= minted
            /\ \A q \in loose : q.born \in Nat /\ q.born <= minted
        BY <1>1, BornNat DEF ReceiptsDiffer
      <3>2. r # NoReceipt => r.born <= minted'
        BY <1>1, <2>3, <3>1
      <3>3. \A n \in Nat : n <= minted => n <= minted'
        BY <1>1, <2>4
      <3>4. QED  BY <2>2, <3>1, <3>2, <3>3
    <2>6. r # NoReceipt =>
             /\ \A u \in Treasuries, q \in Protocols :
                   custody[u][q] # NoReceipt /\ (u # t \/ q # p) => custody[u][q].born # r.born
             /\ \A q \in loose : r.born # q.born
      BY <1>1, <2>3, BornNat DEF ReceiptsDiffer
    <2>7. \A u, v \in Treasuries, q, s \in Protocols :
             /\ custody'[u][q] # NoReceipt /\ custody'[v][s] # NoReceipt
             /\ custody'[u][q].born = custody'[v][s].born
             => u = v /\ q = s
      BY <1>1, <2>2, <2>6 DEF ReceiptsDiffer
    <2>8. \A u \in Treasuries, q \in Protocols : \A s \in loose :
             custody'[u][q] # NoReceipt => custody'[u][q].born # s.born
      BY <1>1, <2>2, <2>6 DEF ReceiptsDiffer
    <2>9. QED  BY <1>1, <2>5, <2>7, <2>8 DEF ReceiptsDiffer
  <1>7. QED  BY <1>1, <1>5, <1>6 DEF Separate

\* One treasury's release, or one owner's redemption, adds to the total.
LEMMA RedeemedChange ==
  ASSUME TypeOK, TypeOK', NEW t \in Treasuries, NEW amount \in Nat,
         hist'[t].redeemed = hist[t].redeemed + amount,
         \A u \in Treasuries \ {t} : hist'[u] = hist[u]
  PROVE  RedeemedTotal(hist) \in Int /\ RedeemedTotal(hist') = RedeemedTotal(hist) + amount
  <1> DEFINE f == [u \in Treasuries |-> hist[u].redeemed]
             g == [u \in Treasuries |-> hist'[u].redeemed]
  <1>1. /\ f \in [Treasuries -> Int] /\ g \in [Treasuries -> Int]
        /\ g[t] = f[t] + amount /\ f[t] \in Int
        /\ \A u \in Treasuries \ {t} : g[u] = f[u]
    BY DEF TypeOK, History
  <1>2. RedeemedTotal(hist) = SumFunction(f) /\ RedeemedTotal(hist') = SumFunction(g)
    BY DEF RedeemedTotal
  <1> HIDE DEF f, g
  <1>3. SumFunction(f) \in Int
    BY <1>1, SumInteger, FiniteIds
  <1>4. SumFunction(g) = SumFunction(f) - f[t] + g[t]
    BY <1>1, TreasurySums
  <1>5. QED  BY <1>1, <1>2, <1>3, <1>4

LEMMA ReleasedChange ==
  ASSUME TypeOK, TypeOK', NEW t \in Treasuries, NEW amount \in Nat,
         spend'[t].released = spend[t].released + amount,
         \A u \in Treasuries \ {t} : spend'[u] = spend[u]
  PROVE  ReleasedTotal(spend) \in Int /\ ReleasedTotal(spend') = ReleasedTotal(spend) + amount
  <1> DEFINE f == [u \in Treasuries |-> spend[u].released]
             g == [u \in Treasuries |-> spend'[u].released]
  <1>1. /\ f \in [Treasuries -> Int] /\ g \in [Treasuries -> Int]
        /\ g[t] = f[t] + amount /\ f[t] \in Int
        /\ \A u \in Treasuries \ {t} : g[u] = f[u]
    BY DEF TypeOK, Spending
  <1>2. ReleasedTotal(spend) = SumFunction(f) /\ ReleasedTotal(spend') = SumFunction(g)
    BY DEF ReleasedTotal
  <1> HIDE DEF f, g
  <1>3. SumFunction(f) \in Int
    BY <1>1, SumInteger, FiniteIds
  <1>4. SumFunction(g) = SumFunction(f) - f[t] + g[t]
    BY <1>1, TreasurySums
  <1>5. QED  BY <1>1, <1>2, <1>3, <1>4

LEMMA RedeemFunds ==
  ASSUME FundsInv, NEW t \in Treasuries, NEW owner \in Treasuries, NEW a \in Adapters,
         NEW amount \in Redeemable(t, a), OwnerRedeem(t, owner, a, amount)
  PROVE  FundsInv'
  <1> DEFINE p == Home[a]
             old == custody[t][p]
  <1>1. /\ p \in Protocols /\ amount \in Nat /\ NoReceipt \notin Receipt
        /\ TypeOK /\ TypeOK' /\ owner = t /\ t \in created /\ old # NoReceipt
        /\ treasury' = treasury /\ spend' = spend /\ loose' = loose /\ created' = created
        /\ minted' = minted /\ brought' = brought
    <2>1. /\ OwnerCapMatches(t, owner) /\ {t, owner} \subseteq created /\ old # NoReceipt
          /\ treasury' = treasury /\ spend' = spend /\ loose' = loose /\ created' = created
          /\ minted' = minted /\ brought' = brought
      BY Zenon DEF OwnerRedeem
    <2>2. TypeOK /\ TypeOK'
      BY OwnerRedeemTypeOK DEF FundsInv
    <2>3. p \in Protocols /\ amount \in Nat
      BY <2>2, RedeemableNat
    <2>4. QED  BY <2>1, <2>2, <2>3, TreasuryAssumption DEF OwnerCapMatches, Receipt
  <1>2. /\ old \in Receipt /\ old.amount \in Nat /\ Worth(old) = old.amount
    BY <1>1, SlotType
  <1>3. \E r \in Held : /\ custody' = [custody EXCEPT ![t][p] = r]
                        /\ r = NoReceipt \/ r.born = old.born
                        /\ Worth(r) = old.amount - amount
    <2>1. CASE /\ amount = old.amount
               /\ custody' = [custody EXCEPT ![t][p] = NoReceipt]
      <3>1. NoReceipt \in Held /\ Worth(NoReceipt) = old.amount - amount
        BY <1>1, <1>2, <2>1 DEF Held, Worth
      <3>2. QED  BY <2>1, <3>1
    <2>2. CASE /\ custody' = [custody EXCEPT ![t][p].amount = @ - amount]
               /\ amount <= old.amount
      <3> DEFINE left == [old EXCEPT !.amount = @ - amount]
      <3>1. left \in Receipt /\ left.born = old.born /\ left.amount = old.amount - amount
        BY <1>1, <1>2, <2>2 DEF Receipt
      <3>2. custody' = [custody EXCEPT ![t][p] = left]
        BY <2>2
      <3> HIDE DEF left
      <3>3. QED  BY <1>1, <3>1, <3>2 DEF Held, Worth
    <2>3. \/ /\ amount = old.amount
             /\ custody' = [custody EXCEPT ![t][p] = NoReceipt]
          \/ /\ custody' = [custody EXCEPT ![t][p].amount = @ - amount]
             /\ amount <= old.amount
      BY Zenon DEF OwnerRedeem
    <2>4. QED  BY <2>1, <2>2, <2>3
  <1>4. /\ AtWork \in Int /\ AtWork' = AtWork - amount
        /\ Separate'
    <2> HIDE DEF old, p
    <2>1. PICK r \in Held : /\ custody' = [custody EXCEPT ![t][p] = r]
                            /\ r = NoReceipt \/ r.born = old.born
                            /\ Worth(r) = old.amount - amount
      BY <1>3
    <2>2. ReceiptReplaced(t, p, r)
      BY <1>1, <1>2, <2>1 DEF old, ReceiptReplaced
    <2>3. /\ AtWork \in Int /\ AtWork' = AtWork - Worth(old) + Worth(r) /\ Separate'
      BY <1>1, <2>2, ReceiptChange DEF old
    <2>4. QED  BY <1>1, <1>2, <2>1, <2>3
  <1>5. /\ hist[t] \in History /\ hist[t].redeemed \in Nat
        /\ hist'[t].redeemed = hist[t].redeemed + amount
        /\ hist'[t].inflow = hist[t].inflow /\ hist'[t].withdrawn = hist[t].withdrawn
        /\ \A u \in Treasuries \ {t} : hist'[u] = hist[u]
    BY <1>1 DEF OwnerRedeem, TypeOK, History
  <1> HIDE DEF old, p
  <1>6. Balanced(t)'
    BY <1>1, <1>5 DEF FundsInv, Balanced
  <1>7. /\ \A u \in Treasuries : Balanced(u)'
        /\ \A u \in Treasuries \ created' : Unborn(u)'
    BY <1>1, <1>5, <1>6, MoneyFrame
  <1>8. Pooled'
    <2>1. RedeemedTotal(hist) \in Int /\ RedeemedTotal(hist') = RedeemedTotal(hist) + amount
      BY <1>1, <1>5, RedeemedChange
    <2>2. ReleasedTotal(spend) \in Int /\ brought \in Int
      BY <1>1, TotalsInt
    <2>3. ReleasedTotal(spend) + brought = AtWork + RedeemedTotal(hist)
      BY DEF FundsInv, Pooled
    <2>4. ReleasedTotal(spend) + brought = (AtWork - amount) + (RedeemedTotal(hist) + amount)
      BY <1>1, <1>4, <2>1, <2>2, <2>3
    <2>5. QED  BY <1>1, <1>4, <2>1, <2>4 DEF Pooled
  <1>9. QED  BY <1>1, <1>4, <1>7, <1>8 DEF FundsInv

LEMMA SupplyFunds ==
  ASSUME FundsInv, NEW t \in Treasuries, NEW cap \in Treasuries, NEW a \in Adapters,
         NEW p \in Protocols, NEW amount \in Nat, SupplyThroughAdapter(t, cap, a, p, amount)
  PROVE  FundsInv'
  <1> DEFINE old == custody[t][p]
  <1>1. /\ TypeOK /\ TypeOK' /\ t \in created /\ NoReceipt \notin Receipt
        /\ hist' = hist /\ loose' = loose /\ created' = created /\ brought' = brought
        /\ ReleaseWithTicket(t, cap, amount) /\ DischargeTicket(t, a, p, amount)
    BY SupplyTypeOK, TreasuryAssumption DEF FundsInv, SupplyThroughAdapter, Receipt
  <1>2. /\ treasury[t].funds \in Nat /\ spend[t].released \in Nat
        /\ hist[t].inflow \in Nat /\ hist[t].withdrawn \in Nat
        /\ old \in Held /\ minted \in Nat
    <2>1. /\ treasury[t] \in TreasuryType /\ hist[t] \in History /\ spend[t] \in Spending
          /\ old \in Held /\ minted \in Nat
      BY <1>1 DEF TypeOK, Held
    <2>2. QED  BY <2>1 DEF TreasuryType, Spending, History
  <1>3. /\ spend'[t].released = spend[t].released + amount
        /\ \A u \in Treasuries \ {t} : treasury'[u] = treasury[u] /\ spend'[u] = spend[u]
    BY <1>1, ReleaseEffect
  <1>4. treasury'[t].funds = treasury[t].funds - amount
    BY <1>1 DEF ReleaseWithTicket, TypeOK
  <1>5. \E r \in Receipt :
            /\ ReceiptReplaced(t, p, r)
            /\ Worth(r) = Worth(old) + amount
    <2>1. CASE old # NoReceipt
      <3> DEFINE more == [old EXCEPT !.amount = @ + amount]
      <3>1. old \in Receipt
        BY <1>2, <2>1 DEF Held
      <3>2. /\ more \in Receipt /\ more.born = old.born
            /\ more.amount = old.amount + amount
        BY <3>1 DEF Receipt
      <3>3. custody' = [custody EXCEPT ![t][p] = more] /\ minted' = minted
        BY <1>1, <2>1 DEF DischargeTicket
      <3> HIDE DEF more
      <3>4. more # NoReceipt /\ Worth(more) = Worth(old) + amount
        BY <1>1, <2>1, <3>2 DEF Worth
      <3>5. ReceiptReplaced(t, p, more)
        BY <1>1, <2>1, <3>2, <3>3 DEF ReceiptReplaced
      <3>6. QED  BY <3>2, <3>4, <3>5
    <2>2. CASE old = NoReceipt
      <3> DEFINE fresh == [adapter |-> a, amount |-> amount, born |-> minted + 1]
      <3>1. fresh \in Receipt /\ fresh.born = minted + 1 /\ fresh.amount = amount
        BY <1>2 DEF Receipt
      <3>2. custody' = [custody EXCEPT ![t][p] = fresh] /\ minted' = minted + 1
        BY <1>1, <2>2 DEF DischargeTicket
      <3> HIDE DEF fresh
      <3>3. Worth(fresh) = Worth(old) + amount
        BY <1>1, <2>2, <3>1 DEF Worth
      <3>4. ReceiptReplaced(t, p, fresh)
        BY <1>1, <2>2, <3>1, <3>2 DEF ReceiptReplaced
      <3>5. QED  BY <3>1, <3>3, <3>4
    <2>3. QED  BY <2>1, <2>2
  <1>6. AtWork \in Int /\ AtWork' = AtWork + amount /\ Separate'
    <2>1. PICK r \in Receipt : ReceiptReplaced(t, p, r) /\ Worth(r) = Worth(old) + amount
      BY <1>5
    <2>2. r \in Held /\ Worth(old) \in Nat
      BY <1>2, WorthType DEF Held
    <2> HIDE DEF old
    <2>3. AtWork \in Int /\ AtWork' = AtWork - Worth(old) + Worth(r) /\ Separate'
      BY <1>1, <2>1, <2>2, ReceiptChange DEF old
    <2>4. QED  BY <2>1, <2>2, <2>3
  <1> HIDE DEF old
  <1>7. Balanced(t)'
    <2>1. /\ hist[t].inflow = treasury[t].funds + hist[t].withdrawn + spend[t].released
          /\ hist[t].inflow <= MaxInflow
      BY DEF FundsInv, Balanced
    <2>2. hist[t].inflow =
             (treasury[t].funds - amount) + hist[t].withdrawn + (spend[t].released + amount)
      BY <1>2, <2>1
    <2>3. QED  BY <1>1, <1>3, <1>4, <2>1, <2>2 DEF Balanced
  <1>8. /\ \A u \in Treasuries : Balanced(u)'
        /\ \A u \in Treasuries \ created' : Unborn(u)'
    BY <1>1, <1>3, <1>7, MoneyFrame
  <1>9. Pooled'
    <2>1. ReleasedTotal(spend) \in Int /\ ReleasedTotal(spend') = ReleasedTotal(spend) + amount
      BY <1>1, <1>3, ReleasedChange
    <2>2. RedeemedTotal(hist) \in Int /\ brought \in Int
      BY <1>1, TotalsInt
    <2>3. ReleasedTotal(spend) + brought = AtWork + RedeemedTotal(hist)
      BY DEF FundsInv, Pooled
    <2>4. (ReleasedTotal(spend) + amount) + brought = (AtWork + amount) + RedeemedTotal(hist)
      BY <1>6, <2>1, <2>2, <2>3
    <2>5. QED  BY <1>1, <1>6, <2>1, <2>4 DEF Pooled
  <1>10. QED  BY <1>1, <1>6, <1>8, <1>9 DEF FundsInv

\* FundsInv is inductive, and Conservation is part of it.
LEMMA NextFunds == FundsInv /\ [Next]_vars => FundsInv'
  <1> SUFFICES ASSUME FundsInv, [Next]_vars
               PROVE  FundsInv'
    OBVIOUS
  <1>1. TypeOK /\ TypeOK'
    BY NextTypeOK DEF FundsInv
  <1>2. CASE Tick
    BY <1>1, <1>2, StillFunds DEF Tick
  <1>3. ASSUME NEW t \in Treasuries,
               \/ \E bounds \in Terms, amount \in Amounts : Create(t, bounds, amount)
               \/ \E amount \in Amounts : Deposit(t, amount)
        PROVE  FundsInv'
    BY <1>3, CreateFunds, MoneyFunds
  <1>4. ASSUME NEW t \in Treasuries, NEW owner \in Treasuries,
               \/ \E amount \in Amounts : WithdrawPrincipal(t, owner, amount)
               \/ Revoke(t, owner)
               \/ \E a \in Adapters : \E amount \in Redeemable(t, a) :
                     OwnerRedeem(t, owner, a, amount)
        PROVE  FundsInv'
    BY <1>4, MoneyFunds, RevokeFunds, RedeemFunds
  <1>5. ASSUME NEW t \in Treasuries, NEW owner \in Treasuries, NEW p \in Protocols,
               \/ OwnerTakeReceipt(t, owner, p)
               \/ \E receipt \in loose : OwnerRecustody(t, owner, p, receipt)
        PROVE  FundsInv'
    BY <1>5, TakeFunds, RecustodyFunds
  <1>6. CASE OwnerNext
    BY <1>3, <1>4, <1>5, <1>6 DEF OwnerNext
  <1>7. CASE HolderNext
    BY <1>7, OpenFunds, TradeFunds DEF HolderNext
  <1>8. CASE SupplyNext
    BY <1>8, SupplyFunds, TreasuryAssumption DEF SupplyNext
  <1>9. CASE UNCHANGED vars
    BY <1>1, <1>9, StillFunds DEF vars
  <1>10. QED  BY <1>2, <1>6, <1>7, <1>8, <1>9 DEF Next

LEMMA FundsConserve == FundsInv => Conservation
  BY DEF FundsInv, TypeOK, Balanced, Pooled, ReleasedTotal, RedeemedTotal, Conservation

\* No coin of a treasury is ever lost or made, however supplies, withdrawals and
\* redemptions interleave with receipts that are taken out, traded and put into
\* the same or another treasury: released coins back one receipt or were redeemed.
THEOREM FundsAreConserved == Spec => []Conservation
  BY InitFunds, NextFunds, FundsConserve, PTL DEF Spec

-----------------------------------------------------------------------------
(* Windows.  What the agent released is read off the log of its releases:  *)
(* Total adds up those with the given numbers.                             *)

Total(log, numbers) == SumFunction([i \in numbers |-> log[i].amount])

AmountsOf(log) == [i \in 1..Len(log) |-> log[i].amount]

\* The log is a finite sequence of releases.
LEMMA LogType ==
  ASSUME NEW log \in Seq(Release)
  PROVE  /\ Len(log) \in Nat
         /\ \A i \in 1..Len(log) : log[i].at \in Nat /\ log[i].amount \in Nat
  <1>1. Len(log) \in Nat /\ \A i \in 1..Len(log) : log[i] \in Release
    OBVIOUS
  <1>2. QED  BY <1>1 DEF Release

\* Total is the sum that the properties speak of.
LEMMA TotalIs ==
  ASSUME NEW log \in Seq(Release), NEW n \in SUBSET (1..Len(log))
  PROVE  /\ IsFiniteSet(n)
         /\ \A i \in n : AmountsOf(log)[i] \in Nat
         /\ Total(log, n) = SumFunctionOnSet(AmountsOf(log), n)
  <1> DEFINE f == AmountsOf(log)
             g == [i \in n |-> log[i].amount]
  <1>1. Len(log) \in Nat /\ \A i \in 1..Len(log) : log[i] \in Release
    OBVIOUS
  <1>2. IsFiniteSet(n)
    <2>1. IsFiniteSet(1..Len(log))
      BY <1>1, FS_Interval
    <2>2. QED  BY <2>1, FS_Subset
  <1>3. \A i \in n : f[i] = g[i] /\ f[i] \in Nat
    BY <1>1 DEF Release, AmountsOf
  <1>4. DOMAIN g = n
    OBVIOUS
  <1> HIDE DEF f, g
  <1>5. SumFunctionOnSet(f, n) = SumFunctionOnSet(g, n)
    BY <1>2, <1>3, SumSame
  <1>6. SumFunction(g) = SumFunctionOnSet(g, n)
    BY <1>4 DEF SumFunction
  <1>7. Total(log, n) = SumFunction(g)
    BY DEF Total, g
  <1>8. QED  BY <1>2, <1>3, <1>5, <1>6, <1>7 DEF f

\* Totals are naturals.
LEMMA TotalNat ==
  ASSUME NEW log \in Seq(Release), NEW n \in SUBSET (1..Len(log))
  PROVE  Total(log, n) \in Nat
  <1> DEFINE f == AmountsOf(log)
  <1>1. IsFiniteSet(n) /\ (\A i \in n : f[i] \in Nat) /\ Total(log, n) = SumFunctionOnSet(f, n)
    BY TotalIs
  <1> HIDE DEF f
  <1>2. QED  BY <1>1, SumNat

\* More releases never amount to less.
LEMMA TotalSubset ==
  ASSUME NEW log \in Seq(Release), NEW n \in SUBSET (1..Len(log)), NEW m \in SUBSET n
  PROVE  Total(log, m) <= Total(log, n)
  <1> DEFINE f == AmountsOf(log)
  <1>1. /\ IsFiniteSet(n) /\ \A i \in n : f[i] \in Nat
        /\ Total(log, n) = SumFunctionOnSet(f, n)
    BY TotalIs
  <1>2. Total(log, m) = SumFunctionOnSet(f, m)
    <2>1. m \in SUBSET (1..Len(log))
      OBVIOUS
    <2>2. QED  BY <2>1, TotalIs
  <1> HIDE DEF f
  <1>3. QED  BY <1>1, <1>2, SumSubset

\* Releases of two kinds amount to no more than the two kinds together.
LEMMA TotalSplit ==
  ASSUME NEW log \in Seq(Release), NEW m \in SUBSET (1..Len(log)),
         NEW n \in SUBSET (1..Len(log)), NEW k \in SUBSET (m \cup n)
  PROVE  Total(log, k) <= Total(log, m) + Total(log, n)
  <1> DEFINE f == AmountsOf(log)
  <1>1. /\ IsFiniteSet(m) /\ \A i \in m : f[i] \in Nat
        /\ Total(log, m) = SumFunctionOnSet(f, m)
    BY TotalIs
  <1>2. /\ IsFiniteSet(n) /\ \A i \in n : f[i] \in Nat
        /\ Total(log, n) = SumFunctionOnSet(f, n)
    BY TotalIs
  <1>3. Total(log, k) = SumFunctionOnSet(f, k)
    <2>1. k \in SUBSET (1..Len(log))
      OBVIOUS
    <2>2. QED  BY <2>1, TotalIs
  <1> HIDE DEF f
  <1>4. QED  BY <1>1, <1>2, <1>3, SumSplit

\* One more release.
LEMMA TotalAppend ==
  ASSUME NEW log \in Seq(Release), NEW e \in Release, NEW n \in SUBSET (1..Len(log))
  PROVE  /\ Total(Append(log, e), n) = Total(log, n)
         /\ Total(Append(log, e), n \cup {Len(log) + 1}) = e.amount + Total(log, n)
  <1> DEFINE longer == Append(log, e)
             last == Len(log) + 1
             f == AmountsOf(longer)
  <1>1. /\ longer \in Seq(Release) /\ Len(longer) = last /\ longer[last] = e
        /\ Len(log) \in Nat /\ \A i \in 1..Len(log) : longer[i] = log[i]
    OBVIOUS
  <1> HIDE DEF longer
  <1>2. [i \in n |-> longer[i].amount] = [i \in n |-> log[i].amount]
    BY <1>1
  <1>3. Total(longer, n) = Total(log, n)
    BY <1>2 DEF Total
  <1>4. /\ n \in SUBSET (1..last) /\ n \cup {last} \in SUBSET (1..last) /\ last \notin n
    <2>1. \A i \in n : i \in 1..Len(log)
      OBVIOUS
    <2>2. 1..Len(log) \subseteq 1..last /\ last \in 1..last /\ last \notin 1..Len(log)
      BY <1>1
    <2> HIDE DEF last
    <2>3. QED  BY <2>1, <2>2
  <1>5. f[last] = e.amount
    BY <1>1 DEF AmountsOf
  <1> HIDE DEF f, last
  <1>6. IsFiniteSet(n) /\ Total(longer, n) = SumFunctionOnSet(f, n)
    BY <1>1, <1>4, TotalIs DEF f
  <1>7. /\ \A i \in n \cup {last} : f[i] \in Nat
        /\ Total(longer, n \cup {last}) = SumFunctionOnSet(f, n \cup {last})
    BY <1>1, <1>4, TotalIs DEF f
  <1>8. SumFunctionOnSet(f, n \cup {last}) = f[last] + SumFunctionOnSet(f, n)
    <2>1. \A i \in n \cup {last} : f[i] \in Int
      BY <1>7
    <2>2. QED  BY <1>4, <1>6, <2>1, SumAdd
  <1>9. QED  BY <1>3, <1>5, <1>6, <1>7, <1>8 DEF longer, last

\* Releases since "start", releases before "start" from the i-th on, and those
\* less than one period after the i-th.
Since(log, start) == {i \in 1..Len(log) : log[i].at >= start}
Before(log, i, start) == {j \in i..Len(log) : log[j].at < start}
Span(log, i, period) == {j \in i..Len(log) : log[j].at - log[i].at < period}

\* A span that began before the current window either began in the window
\* before it, of which it holds no more than a cap, or is over.
SpanInv(log, i, start, period, cap) ==
    log[i].at < start =>
       \/ Total(log, Before(log, i, start)) <= cap
       \/ log[i].at + period <= start /\ Total(log, Span(log, i, period)) <= 2 * cap

Windows(log, start, spent, period, cap, time) ==
    /\ start <= time
    /\ spent <= cap
    /\ \A i \in 1..Len(log) : log[i].at <= time
    /\ \A i, j \in 1..Len(log) : i <= j => log[i].at <= log[j].at
    /\ period > 0 =>
          /\ \A i \in 1..Len(log) : log[i].at < start + period
          /\ spent = Total(log, Since(log, start))
          /\ \A i \in 1..Len(log) : SpanInv(log, i, start, period, cap)

\* A span holds what it holds before the current window and since it opened.
LEMMA SpanParts ==
  ASSUME NEW log \in Seq(Release), NEW i \in 1..Len(log), NEW start \in Nat, NEW period \in Nat
  PROVE  /\ Since(log, start) \in SUBSET (1..Len(log))
         /\ Before(log, i, start) \in SUBSET (1..Len(log))
         /\ Span(log, i, period) \in SUBSET (1..Len(log))
         /\ Span(log, i, period) \in SUBSET (Before(log, i, start) \cup Since(log, start))
         /\ Span(log, i, period) \in SUBSET (i..Len(log))
  <1>1. Len(log) \in Nat /\ i \in Nat /\ i >= 1 /\ i..Len(log) \subseteq 1..Len(log)
    OBVIOUS
  <1>2. \A j \in 1..Len(log) : log[j].at \in Nat
    BY LogType
  <1>3. QED  BY <1>1, <1>2 DEF Since, Before, Span

\* At most two windows' worth of the cap in any span.
LEMMA SpanBound ==
  ASSUME NEW log \in Seq(Release), NEW start \in Nat, NEW spent \in Nat, NEW period \in Nat,
         NEW cap \in Nat, NEW time \in Nat, Windows(log, start, spent, period, cap, time),
         NEW i \in 1..Len(log)
  PROVE  Total(log, Span(log, i, period)) <= 2 * cap
  <1>1. /\ Total(log, Since(log, start)) \in Nat /\ Total(log, Before(log, i, start)) \in Nat
        /\ Total(log, Span(log, i, period)) \in Nat
    BY SpanParts, TotalNat
  <1>2. \A j \in 1..Len(log) : log[j].at \in Nat
    BY LogType
  <1>3. CASE period = 0
    <2>1. \A j \in i..Len(log) : j \in 1..Len(log) /\ i <= j
      OBVIOUS
    <2>2. Span(log, i, period) = {}
      BY <1>2, <1>3, <2>1 DEF Windows, Span
    <2>3. Total(log, {}) = 0
      BY SumEmpty DEF Total, SumFunction
    <2>4. QED  BY <2>2, <2>3
  <1>4. CASE period > 0
    <2>1. Total(log, Since(log, start)) <= cap
      BY <1>4 DEF Windows
    <2>2. CASE log[i].at >= start
      <3>1. Before(log, i, start) = {}
        <4>1. \A j \in i..Len(log) : j \in 1..Len(log) /\ log[i].at <= log[j].at
          BY DEF Windows
        <4>2. QED  BY <1>2, <2>2, <4>1 DEF Before
      <3>2. Span(log, i, period) \in SUBSET Since(log, start)
        BY <3>1, SpanParts
      <3>3. Total(log, Span(log, i, period)) <= Total(log, Since(log, start))
        BY <3>2, SpanParts, TotalSubset
      <3>4. QED  BY <1>1, <2>1, <3>3
    <2>3. CASE log[i].at < start
      <3>1. SpanInv(log, i, start, period, cap)
        BY <1>4 DEF Windows
      <3>2. CASE Total(log, Before(log, i, start)) <= cap
        <4>1. Total(log, Span(log, i, period))
                <= Total(log, Before(log, i, start)) + Total(log, Since(log, start))
          BY SpanParts, TotalSplit
        <4>2. QED  BY <1>1, <2>1, <3>2, <4>1
      <3>3. QED  BY <2>3, <3>1, <3>2 DEF SpanInv
    <2>4. QED  BY <1>2, <2>2, <2>3
  <1>5. QED  BY <1>3, <1>4

\* A release of "amount" at "time" was added to the log.
Logged(longer, log, amount, time) ==
    /\ log \in Seq(Release) /\ amount \in Nat /\ time \in Nat
    /\ longer = Append(log, [amount |-> amount, at |-> time])

\* What a release adds to the log, seen from a release already there.
LEMMA AppendLog ==
  ASSUME NEW longer, NEW log, NEW amount, NEW time, Logged(longer, log, amount, time)
  PROVE  /\ longer \in Seq(Release) /\ Len(longer) = Len(log) + 1 /\ Len(log) \in Nat
         /\ longer[Len(log) + 1].amount = amount /\ longer[Len(log) + 1].at = time
         /\ \A i \in 1..Len(log) :
               longer[i] = log[i] /\ log[i].at \in Nat /\ log[i].amount \in Nat
  <1> DEFINE e == [amount |-> amount, at |-> time]
  <1>1. e \in Release /\ e.amount = amount /\ e.at = time /\ log \in Seq(Release)
    BY DEF Release, Logged
  <1>2. longer = Append(log, e)
    BY DEF Logged
  <1> HIDE DEF e
  <1>3. /\ longer \in Seq(Release) /\ Len(longer) = Len(log) + 1 /\ Len(log) \in Nat
        /\ longer[Len(log) + 1] = e /\ \A i \in 1..Len(log) : longer[i] = log[i]
    BY <1>1, <1>2
  <1>4. \A i \in 1..Len(log) : log[i].at \in Nat /\ log[i].amount \in Nat
    BY <1>1, LogType
  <1>5. QED  BY <1>1, <1>3, <1>4

\* The releases before a window, with one more in the log.
LEMMA AppendBefore ==
  ASSUME NEW longer, NEW log, NEW amount, NEW time, Logged(longer, log, amount, time),
         NEW i \in 1..Len(log), NEW start, start <= time, start \in Nat
  PROVE  Before(longer, i, start) = Before(log, i, start)
  <1> DEFINE n == Len(log)
  <1>1. /\ n \in Nat /\ Len(longer) = n + 1 /\ longer[n + 1].at = time
        /\ \A j \in 1..n : longer[j] = log[j]
    BY AppendLog
  <1>2. i \in Nat /\ 1 <= i /\ i <= n /\ time \in Nat
    BY <1>1 DEF Logged
  <1>3. \A j : j \in i..(n + 1) <=> j \in i..n \/ j = n + 1
    BY <1>1, <1>2
  <1>4. \A j \in i..n : j \in 1..n
    BY <1>1, <1>2
  <1> HIDE DEF n
  <1>5. ~ (longer[n + 1].at < start)
    BY <1>1, <1>2
  <1>6. QED  BY <1>1, <1>3, <1>4, <1>5 DEF Before, n

\* The releases of a span, with one more in the log.
LEMMA AppendSpan ==
  ASSUME NEW longer, NEW log, NEW amount, NEW time, Logged(longer, log, amount, time),
         NEW i \in 1..Len(log), NEW period, period \in Nat, log[i].at + period <= time
  PROVE  Span(longer, i, period) = Span(log, i, period)
  <1> DEFINE n == Len(log)
  <1>1. /\ n \in Nat /\ Len(longer) = n + 1 /\ longer[n + 1].at = time
        /\ \A j \in 1..n : longer[j] = log[j] /\ log[j].at \in Nat
    BY AppendLog
  <1>2. i \in Nat /\ 1 <= i /\ i <= n /\ time \in Nat /\ longer[i] = log[i] /\ log[i].at \in Nat
    BY <1>1 DEF Logged
  <1>3. \A j : j \in i..(n + 1) <=> j \in i..n \/ j = n + 1
    BY <1>1, <1>2
  <1>4. \A j \in i..n : j \in 1..n
    BY <1>1, <1>2
  <1> HIDE DEF n
  <1>5. ~ (longer[n + 1].at - longer[i].at < period)
    BY <1>1, <1>2
  <1>6. QED  BY <1>1, <1>2, <1>3, <1>4, <1>5 DEF Span, n

\* A release leaves the totals of the releases already there.
LEMMA TotalKept ==
  ASSUME NEW longer, NEW log, NEW amount, NEW time, Logged(longer, log, amount, time),
         NEW n \in SUBSET (1..Len(log))
  PROVE  Total(longer, n) = Total(log, n)
  <1>1. [amount |-> amount, at |-> time] \in Release
    BY DEF Release, Logged
  <1>2. QED  BY <1>1, TotalAppend DEF Logged

\* A span keeps its standing while the window lasts.
LEMMA SpanInWindow ==
  ASSUME NEW log \in Seq(Release), NEW amount \in Nat, NEW time \in Nat, NEW i \in 1..Len(log),
         NEW start \in Nat, NEW period \in Nat, NEW cap \in Nat, NEW longer,
         Logged(longer, log, amount, time), start <= time,
         SpanInv(log, i, start, period, cap)
  PROVE  SpanInv(longer, i, start, period, cap)
  <1>1. /\ longer[i] = log[i] /\ log[i].at \in Nat
        /\ Before(longer, i, start) = Before(log, i, start)
        /\ log[i].at + period <= time => Span(longer, i, period) = Span(log, i, period)
    <2>1. log[i].at \in Nat
      BY LogType
    <2>2. longer[i] = log[i]
      BY AppendLog
    <2>3. Before(longer, i, start) = Before(log, i, start)
      BY AppendBefore
    <2>4. log[i].at + period <= time => Span(longer, i, period) = Span(log, i, period)
      BY AppendSpan
    <2>5. QED  BY <2>1, <2>2, <2>3, <2>4
  <1>2. Total(longer, Before(log, i, start)) = Total(log, Before(log, i, start))
    <2>1. Before(log, i, start) \in SUBSET (1..Len(log))
      BY SpanParts
    <2>2. QED  BY <2>1, TotalKept
  <1>3. Total(longer, Span(log, i, period)) = Total(log, Span(log, i, period))
    <2>1. Span(log, i, period) \in SUBSET (1..Len(log))
      BY SpanParts
    <2>2. QED  BY <2>1, TotalKept
  <1>4. CASE Total(log, Before(log, i, start)) <= cap
    BY <1>1, <1>2, <1>4 DEF SpanInv
  <1>5. CASE log[i].at + period <= start /\ Total(log, Span(log, i, period)) <= 2 * cap
    <2>1. log[i].at + period <= time
      BY <1>1, <1>5
    <2>2. QED  BY <1>1, <1>3, <1>5, <2>1 DEF SpanInv
  <1>6. CASE ~ (log[i].at < start)
    BY <1>1, <1>6 DEF SpanInv
  <1>7. QED  BY <1>4, <1>5, <1>6 DEF SpanInv

\* When a window opens, the spans of the one before it hold a cap, and the older
\* ones are over.
LEMMA SpanAtRoll ==
  ASSUME NEW log \in Seq(Release), NEW amount \in Nat, NEW time \in Nat, NEW i \in 1..Len(log),
         NEW start \in Nat, NEW spent \in Nat, NEW period \in Nat, NEW cap \in Nat, NEW longer,
         Logged(longer, log, amount, time), time >= start + period, period > 0,
         Windows(log, start, spent, period, cap, time)
  PROVE  SpanInv(longer, i, time, period, cap)
  <1>1. /\ longer[i] = log[i] /\ log[i].at \in Nat
        /\ Before(longer, i, time) = Before(log, i, time)
        /\ log[i].at + period <= time => Span(longer, i, period) = Span(log, i, period)
    <2>1. log[i].at \in Nat
      BY LogType
    <2>2. longer[i] = log[i]
      BY AppendLog
    <2>3. Before(longer, i, time) = Before(log, i, time)
      BY AppendBefore
    <2>4. log[i].at + period <= time => Span(longer, i, period) = Span(log, i, period)
      BY AppendSpan
    <2>5. QED  BY <2>1, <2>2, <2>3, <2>4
  <1>2. CASE log[i].at >= start
    <2>1. \A j \in i..Len(log) : j \in 1..Len(log) /\ log[j].at >= start
      <3>1. \A j \in i..Len(log) : j \in 1..Len(log) /\ i <= j
        OBVIOUS
      <3>2. \A j \in i..Len(log) : log[j].at \in Nat /\ log[i].at <= log[j].at
        BY <3>1, LogType DEF Windows
      <3>3. QED  BY <1>1, <1>2, <3>1, <3>2
    <2>2. Before(log, i, time) \in SUBSET Since(log, start)
      BY <2>1 DEF Before, Since
    <2>3. /\ Since(log, start) \in SUBSET (1..Len(log))
          /\ Before(log, i, time) \in SUBSET (1..Len(log))
      BY SpanParts
    <2>4. Total(log, Before(log, i, time)) <= Total(log, Since(log, start))
      BY <2>2, <2>3, TotalSubset
    <2>5. Total(log, Before(log, i, time)) \in Nat
      BY <2>3, TotalNat
    <2>6. Total(longer, Before(log, i, time)) = Total(log, Before(log, i, time))
      BY <2>3, TotalKept
    <2>7. spent = Total(log, Since(log, start)) /\ spent <= cap
      BY DEF Windows
    <2>8. Total(longer, Before(longer, i, time)) <= cap
      BY <1>1, <2>4, <2>5, <2>6, <2>7
    <2>9. QED  BY <2>8 DEF SpanInv
  <1>3. CASE log[i].at < start
    <2>1. log[i].at + period <= time
      BY <1>1, <1>3
    <2>2. Total(log, Span(log, i, period)) <= 2 * cap
      BY SpanBound
    <2>3. Total(longer, Span(log, i, period)) = Total(log, Span(log, i, period))
      <3>1. Span(log, i, period) \in SUBSET (1..Len(log))
        BY SpanParts
      <3>2. QED  BY <3>1, TotalKept
    <2>4. QED  BY <1>1, <2>1, <2>2, <2>3 DEF SpanInv
  <1>4. QED  BY <1>1, <1>2, <1>3

\* The times of a log that a release was added to.
LEMMA AppendTimes ==
  ASSUME NEW log \in Seq(Release), NEW amount \in Nat, NEW time \in Nat, NEW longer,
         Logged(longer, log, amount, time),
         \A i \in 1..Len(log) : log[i].at <= time,
         \A i, j \in 1..Len(log) : i <= j => log[i].at <= log[j].at
  PROVE  /\ \A i \in 1..Len(longer) : longer[i].at <= time
         /\ \A i, j \in 1..Len(longer) : i <= j => longer[i].at <= longer[j].at
         /\ \A i \in 1..Len(longer) : i \in 1..Len(log) \/ (i = Len(log) + 1 /\ longer[i].at = time)
         /\ \A i \in 1..Len(log) : longer[i] = log[i] /\ i \in 1..Len(longer)
  <1> DEFINE e == [amount |-> amount, at |-> time]
             n == Len(log)
  <1>1. e \in Release /\ e.at = time
    BY DEF Release
  <1> HIDE DEF e
  <1>2. /\ Len(longer) = n + 1 /\ n \in Nat /\ longer[n + 1] = e
        /\ \A j \in 1..n : longer[j] = log[j]
    BY <1>1 DEF e, Logged
  <1>3. \A i \in 1..n : log[i].at \in Nat
    BY LogType
  <1> HIDE DEF n
  <1>4. \A i : i \in 1..(n + 1) <=> i \in 1..n \/ i = n + 1
    BY <1>2
  <1>5. \A i \in 1..n : i < n + 1 /\ i \in Nat /\ ~ (n + 1 <= i)
    BY <1>2
  <1>6. \A i \in 1..n : log[i].at <= time
    BY DEF n
  <1>7. \A i, j \in 1..n : i <= j => log[i].at <= log[j].at
    BY DEF n
  <1>8. \A i \in 1..(n + 1) : longer[i].at <= time
    BY <1>1, <1>2, <1>4, <1>6
  <1>9. \A i, j \in 1..(n + 1) : i <= j => longer[i].at <= longer[j].at
    <2> SUFFICES ASSUME NEW i \in 1..(n + 1), NEW j \in 1..(n + 1), i <= j
                 PROVE  longer[i].at <= longer[j].at
      OBVIOUS
    <2>1. CASE j = n + 1
      BY <1>1, <1>2, <1>8, <2>1
    <2>2. CASE j \in 1..n /\ i \in 1..n
      BY <1>2, <1>7, <2>2
    <2>3. QED  BY <1>4, <1>5, <2>1, <2>2
  <1>10. \A i \in 1..(n + 1) : i \in 1..n \/ (i = n + 1 /\ longer[i].at = time)
    BY <1>1, <1>2, <1>4
  <1>11. QED  BY <1>2, <1>4, <1>8, <1>9, <1>10 DEF n

\* A release in the open window, and one that opens a new window.
LEMMA SameWindow ==
  ASSUME NEW log \in Seq(Release), NEW start \in Nat, NEW spent \in Nat, NEW period \in Nat,
         NEW cap \in Nat, NEW time \in Nat, NEW amount \in Nat, NEW longer,
         Windows(log, start, spent, period, cap, time),
         Logged(longer, log, amount, time),
         time < start + period, spent + amount <= cap
  PROVE  Windows(longer, start, spent + amount, period, cap, time)
  <1> DEFINE e == [amount |-> amount, at |-> time]
             n == Len(log)
  <1>1. /\ n \in Nat /\ Len(longer) = n + 1 /\ longer[n + 1] = e /\ e \in Release
        /\ e.amount = amount /\ e.at = time /\ longer = Append(log, e)
    BY DEF Release, Logged
  <1>2. /\ period > 0 /\ start <= time
        /\ \A i \in 1..n : log[i].at < start + period
        /\ spent = Total(log, Since(log, start))
        /\ \A i \in 1..n : SpanInv(log, i, start, period, cap)
    BY DEF Windows
  <1>3. /\ \A i \in 1..Len(longer) : longer[i].at <= time
        /\ \A i, j \in 1..Len(longer) : i <= j => longer[i].at <= longer[j].at
        /\ \A i \in 1..Len(longer) : i \in 1..n \/ (i = n + 1 /\ longer[i].at = time)
        /\ \A i \in 1..n : longer[i] = log[i] /\ i \in 1..Len(longer)
    BY AppendTimes DEF Windows
  <1>4. n + 1 \in 1..Len(longer)
    BY <1>1
  <1> HIDE DEF n, e
  <1>5. \A i \in 1..Len(longer) : longer[i].at < start + period
    BY <1>2, <1>3
  <1>6. spent + amount = Total(longer, Since(longer, start))
    <2>1. Since(longer, start) = Since(log, start) \cup {n + 1}
      <3>1. \A i : i \in 1..Len(longer) <=> i \in 1..n \/ i = n + 1
        BY <1>3, <1>4
      <3>2. longer[n + 1].at >= start
        BY <1>1, <1>2
      <3>3. QED  BY <1>3, <3>1, <3>2 DEF Since, n
    <2>2. Since(log, start) \in SUBSET (1..Len(log))
      BY DEF Since
    <2>3. Total(longer, Since(log, start) \cup {n + 1}) = amount + Total(log, Since(log, start))
      BY <1>1, <2>2, TotalAppend DEF n
    <2>4. Total(longer, Since(longer, start)) = amount + spent
      BY <1>2, <2>1, <2>3, Zenon
    <2>5. QED  BY <2>4
  <1>7. ASSUME NEW i \in 1..Len(longer)
        PROVE  SpanInv(longer, i, start, period, cap)
    <2>1. CASE i \in 1..n
      BY <1>2, <2>1, SpanInWindow DEF n
    <2>2. CASE longer[i].at = time
      BY <1>2, <2>2 DEF SpanInv
    <2>3. QED  BY <1>3, <2>1, <2>2
  <1>8. QED  BY <1>2, <1>3, <1>5, <1>6, <1>7 DEF Windows

LEMMA NewWindow ==
  ASSUME NEW log \in Seq(Release), NEW start \in Nat, NEW spent \in Nat, NEW period \in Nat,
         NEW cap \in Nat, NEW time \in Nat, NEW amount \in Nat, NEW longer,
         Windows(log, start, spent, period, cap, time),
         Logged(longer, log, amount, time),
         time >= start + period, amount <= cap
  PROVE  Windows(longer, time, amount, period, cap, time)
  <1> DEFINE e == [amount |-> amount, at |-> time]
             n == Len(log)
  <1>1. /\ n \in Nat /\ Len(longer) = n + 1 /\ longer[n + 1] = e /\ e \in Release
        /\ e.amount = amount /\ e.at = time /\ longer = Append(log, e)
    BY DEF Release, Logged
  <1>2. /\ \A i \in 1..Len(longer) : longer[i].at <= time
        /\ \A i, j \in 1..Len(longer) : i <= j => longer[i].at <= longer[j].at
        /\ \A i \in 1..Len(longer) : i \in 1..n \/ (i = n + 1 /\ longer[i].at = time)
        /\ \A i \in 1..n : longer[i] = log[i] /\ i \in 1..Len(longer)
    BY AppendTimes DEF Windows
  <1>3. n + 1 \in 1..Len(longer) /\ n + 1 \notin 1..n
    BY <1>1
  <1> HIDE DEF n, e
  <1>4. \A i \in 1..n : log[i].at \in Nat
    BY LogType DEF n
  <1>5. ASSUME period > 0
        PROVE  /\ \A i \in 1..Len(longer) : longer[i].at < time + period
               /\ amount = Total(longer, Since(longer, time))
               /\ \A i \in 1..Len(longer) : SpanInv(longer, i, time, period, cap)
    <2>1. /\ \A i \in 1..n : log[i].at < start + period
          /\ spent = Total(log, Since(log, start)) /\ spent <= cap
      BY <1>5 DEF Windows, n
    <2>2. \A i \in 1..Len(longer) : longer[i].at < time + period
      BY <1>2, <1>4, <1>5, <2>1
    <2>3. amount = Total(longer, Since(longer, time))
      <3>1. Since(longer, time) = {} \cup {n + 1}
        <4>1. longer[n + 1].at >= time
          BY <1>1
        <4>2. \A i \in 1..n : ~ (longer[i].at >= time)
          BY <1>2, <1>4, <2>1
        <4>3. QED  BY <1>2, <1>3, <4>1, <4>2 DEF Since
      <3>2. Total(longer, {} \cup {n + 1}) = e.amount + Total(log, {})
        BY <1>1, TotalAppend DEF n
      <3>3. Total(log, {}) = 0
        BY SumEmpty DEF Total, SumFunction
      <3>4. Total(longer, {} \cup {n + 1}) = amount
        BY <1>1, <3>2, <3>3
      <3>5. QED  BY <3>1, <3>4, Zenon
    <2>4. ASSUME NEW i \in 1..Len(longer)
          PROVE  SpanInv(longer, i, time, period, cap)
      <3>1. CASE i \in 1..n
        BY <1>5, <3>1, SpanAtRoll DEF n
      <3>2. CASE longer[i].at = time
        BY <3>2 DEF SpanInv
      <3>3. QED  BY <1>2, <3>1, <3>2
    <2>5. QED  BY <2>2, <2>3, <2>4
  <1>6. QED  BY <1>2, <1>5 DEF Windows

WindowsOf(t) ==
    Windows(spend[t].log, treasury[t].start, treasury[t].spent,
            terms[t].periodMs, terms[t].periodCap, now)

WindowsInv ==
    /\ FundsInv
    /\ ExposureInv
    /\ \A t \in created : WindowsOf(t)

\* The types that the windows depend on.
LEMMA WindowsTypes ==
  ASSUME TypeOK, NEW t \in Treasuries
  PROVE  /\ spend[t].log \in Seq(Release) /\ now \in Nat
         /\ treasury[t].start \in Nat /\ treasury[t].spent \in Nat
         /\ terms[t].periodMs \in Nat /\ terms[t].periodCap \in Nat
  BY DEF TypeOK, Spending, TreasuryType, TermsType

\* Steps that touch no cap, window or release keep the windows.
LEMMA WindowsFrame ==
  ASSUME TypeOK, NEW t \in created, WindowsOf(t), now \in Nat, now' \in Nat, now' >= now,
         spend'[t] = spend[t], terms'[t] = terms[t],
         treasury'[t].spent = treasury[t].spent, treasury'[t].start = treasury[t].start
  PROVE  WindowsOf(t)'
  <1> DEFINE log == spend[t].log
             start == treasury[t].start
             spent == treasury[t].spent
             period == terms[t].periodMs
             cap == terms[t].periodCap
  <1>1. t \in Treasuries
    BY DEF TypeOK
  <1>2. /\ log \in Seq(Release) /\ start \in Nat
        /\ \A i \in 1..Len(log) : log[i].at \in Nat
    BY <1>1, WindowsTypes, LogType
  <1>3. Windows(log, start, spent, period, cap, now)
    BY DEF WindowsOf
  <1> HIDE DEF log, start, spent, period, cap
  <1>4. Windows(log, start, spent, period, cap, now')
    BY <1>2, <1>3 DEF Windows
  <1>5. QED  BY <1>4 DEF WindowsOf, log, start, spent, period, cap

\* A new treasury has released nothing.
LEMMA CreateWindows ==
  ASSUME WindowsInv, NEW t \in Treasuries, NEW bounds \in Terms, NEW amount \in Amounts,
         Create(t, bounds, amount)
  PROVE  \A u \in created' : WindowsOf(u)'
  <1>1. /\ TypeOK /\ TypeOK' /\ now' = now /\ now \in Nat /\ spend' = spend
        /\ created' = created \cup {t} /\ t \notin created
        /\ bounds.periodCap \in Nat /\ Unborn(t)
    BY CreateTypeOK, TreasuryAssumption DEF WindowsInv, FundsInv, Create, TypeOK, TermsType
  <1>2. /\ treasury'[t].spent = 0 /\ treasury'[t].start = now /\ terms'[t] = bounds
        /\ \A u \in Treasuries \ {t} : treasury'[u] = treasury[u] /\ terms'[u] = terms[u]
    BY <1>1 DEF Create, TypeOK
  <1>3. ASSUME NEW u \in created
        PROVE  WindowsOf(u)'
    <2>1. u \in Treasuries \ {t} /\ WindowsOf(u)
      BY <1>1 DEF TypeOK, WindowsInv
    <2>2. QED  BY <1>1, <1>2, <2>1, WindowsFrame
  <1>4. WindowsOf(t)'
    <2>1. spend'[t].log = <<>> /\ Len(<<>>) = 0 /\ 1..0 = {}
      BY <1>1 DEF Unborn
    <2>2. Since(<<>>, now) = {}
      BY <2>1 DEF Since
    <2>3. Total(<<>>, {}) = 0
      BY SumEmpty DEF Total, SumFunction
    <2>4. Windows(<<>>, now, 0, bounds.periodMs, bounds.periodCap, now)
      <3>1. 0 = Total(<<>>, Since(<<>>, now))
        BY <2>2, <2>3, Zenon
      <3>2. QED  BY <1>1, <2>1, <3>1 DEF Windows
    <2>5. QED  BY <1>1, <1>2, <2>1, <2>4 DEF WindowsOf
  <1>5. QED  BY <1>1, <1>3, <1>4

\* A release keeps the windows, whether it rolls or not.
LEMMA SupplyWindows ==
  ASSUME WindowsInv, NEW t \in Treasuries, NEW cap \in Treasuries, NEW a \in Adapters,
         NEW p \in Protocols, NEW amount \in Nat, SupplyThroughAdapter(t, cap, a, p, amount)
  PROVE  \A u \in created' : WindowsOf(u)'
  <1>1. /\ TypeOK /\ TypeOK' /\ now' = now /\ now \in Nat /\ terms' = terms
        /\ created' = created /\ t \in created /\ ReleaseWithTicket(t, cap, amount)
    BY SupplyTypeOK DEF WindowsInv, FundsInv, SupplyThroughAdapter, TypeOK
  <1>2. ASSUME NEW u \in created, u # t
        PROVE  WindowsOf(u)'
    <2>1. u \in Treasuries \ {t} /\ WindowsOf(u)
      BY <1>1, <1>2 DEF TypeOK, WindowsInv
    <2>2. treasury'[u] = treasury[u] /\ spend'[u] = spend[u]
      BY <1>1, <2>1, ReleaseEffect
    <2>3. QED  BY <1>1, <2>1, <2>2, WindowsFrame
  <1>3. WindowsOf(t)'
    <2> DEFINE log == spend[t].log
               start == treasury[t].start
               spent == treasury[t].spent
               period == terms[t].periodMs
               periodCap == terms[t].periodCap
               longer == spend'[t].log
    <2>1. /\ log \in Seq(Release) /\ start \in Nat /\ spent \in Nat /\ period \in Nat
          /\ periodCap \in Nat
      BY <1>1, WindowsTypes
    <2>2. /\ Windows(log, start, spent, period, periodCap, now)
          /\ WindowElapsed(t) <=> now >= start + period
          /\ SpentBefore(t) + amount <= periodCap
      BY <1>1 DEF WindowsInv, WindowsOf, WindowElapsed, WindowEnds, ReleaseWithTicket, WithinCaps
    <2>3. /\ longer = Append(log, [amount |-> amount, at |-> now])
          /\ treasury'[t].spent = SpentBefore(t) + amount
          /\ treasury'[t].start = WindowStart(t)
      BY <1>1, ReleaseEffect
    <2>4. Logged(longer, log, amount, now)
      BY <1>1, <2>1, <2>3 DEF Logged
    <2>5. CASE WindowElapsed(t)
      <3>1. treasury'[t].spent = amount /\ treasury'[t].start = now /\ amount <= periodCap
        BY <2>2, <2>3, <2>5 DEF SpentBefore, WindowStart
      <3>2. now >= start + period
        BY <2>2, <2>5
      <3> HIDE DEF log, start, spent, period, periodCap, longer
      <3>3. Windows(longer, now, amount, period, periodCap, now)
        <4>1. /\ Windows(log, start, spent, period, periodCap, now)
              /\ amount <= periodCap /\ now \in Nat
          BY <1>1, <2>2, <3>1
        <4>2. QED  BY <2>1, <2>4, <3>2, <4>1, NewWindow
      <3>4. QED  BY <1>1, <3>1, <3>3 DEF WindowsOf, longer, period, periodCap
    <2>6. CASE ~ WindowElapsed(t)
      <3>1. /\ treasury'[t].spent = spent + amount /\ treasury'[t].start = start
            /\ spent + amount <= periodCap
        BY <2>2, <2>3, <2>6 DEF SpentBefore, WindowStart
      <3>2. now < start + period
        BY <1>1, <2>1, <2>2, <2>6
      <3> HIDE DEF log, start, spent, period, periodCap, longer
      <3>3. Windows(longer, start, spent + amount, period, periodCap, now)
        BY <1>1, <2>1, <2>2, <2>4, <3>1, <3>2, SameWindow
      <3>4. QED  BY <1>1, <3>1, <3>3 DEF WindowsOf, longer, period, periodCap
    <2>7. QED  BY <2>5, <2>6
  <1>4. QED  BY <1>1, <1>2, <1>3

\* WindowsInv is inductive.
LEMMA NextWindows == WindowsInv /\ [Next]_vars => WindowsInv'
  <1> SUFFICES ASSUME WindowsInv, [Next]_vars
               PROVE  WindowsInv'
    OBVIOUS
  <1>1. FundsInv' /\ ExposureInv'
    BY NextFunds, NextExposure DEF WindowsInv
  <1>2. TypeOK /\ now \in Nat /\ \A t \in created : t \in Treasuries /\ WindowsOf(t)
    BY DEF WindowsInv, FundsInv, TypeOK
  <1>3. CASE Tick
    <2>1. \A t \in created : WindowsOf(t)'
      BY <1>2, <1>3, WindowsFrame DEF Tick
    <2>2. QED  BY <1>1, <1>3, <2>1 DEF WindowsInv, Tick
  <1>4. ASSUME NEW t \in Treasuries, NEW bounds \in Terms, NEW amount \in Amounts,
               Create(t, bounds, amount)
        PROVE  WindowsInv'
    BY <1>1, <1>4, CreateWindows DEF WindowsInv
  <1>5. ASSUME NEW t \in Treasuries, NEW owner \in Treasuries,
               \/ \E amount \in Amounts : Deposit(t, amount)
               \/ \E amount \in Amounts : WithdrawPrincipal(t, owner, amount)
               \/ Revoke(t, owner)
               \/ \E p \in Protocols : OwnerTakeReceipt(t, owner, p)
               \/ \E p \in Protocols : \E receipt \in loose :
                     OwnerRecustody(t, owner, p, receipt)
               \/ \E a \in Adapters : \E amount \in Redeemable(t, a) :
                     OwnerRedeem(t, owner, a, amount)
        PROVE  WindowsInv'
    <2>1. /\ created' = created /\ terms' = terms /\ spend' = spend /\ now' = now
          /\ \A u \in Treasuries : /\ treasury'[u].spent = treasury[u].spent
                                 /\ treasury'[u].start = treasury[u].start
      BY <1>2, <1>5, OwnerKeeps
    <2>2. \A u \in created : WindowsOf(u)'
      BY <1>2, <2>1, WindowsFrame
    <2>3. QED  BY <1>1, <2>1, <2>2 DEF WindowsInv
  <1>6. CASE OwnerNext
    BY <1>4, <1>5, <1>6 DEF OwnerNext
  <1>7. CASE SupplyNext
    <2>1. \A u \in created' : WindowsOf(u)'
      BY <1>7, SupplyWindows, TreasuryAssumption DEF SupplyNext
    <2>2. QED  BY <1>1, <2>1 DEF WindowsInv
  <1>8. CASE UNCHANGED vars
    <2>1. \A t \in created : WindowsOf(t)'
      BY <1>2, <1>8, WindowsFrame DEF vars
    <2>2. QED  BY <1>1, <1>8, <2>1 DEF WindowsInv, vars
  <1>9. CASE HolderNext
    <2>1. UNCHANGED <<now, created, treasury, terms, spend>>
      BY <1>9 DEF HolderNext, OpenPosition, HolderTrades
    <2>2. \A t \in created : WindowsOf(t)'
      BY <1>2, <2>1, WindowsFrame
    <2>3. QED  BY <1>1, <2>1, <2>2 DEF WindowsInv
  <1>10. QED  BY <1>3, <1>6, <1>7, <1>8, <1>9 DEF Next

LEMMA InitWindows == Init => WindowsInv
  BY InitFunds, InitExposure DEF WindowsInv, Init

\* The invariant gives the first property of windows.
LEMMA WindowsTotal == WindowsInv => SpentIsWindowTotal
  <1> SUFFICES ASSUME WindowsInv, NEW t \in created, terms[t].periodMs > 0
               PROVE  treasury[t].spent =
                        AmountOf(t, {i \in DOMAIN spend[t].log :
                                        spend[t].log[i].at >= treasury[t].start})
    BY DEF SpentIsWindowTotal
  <1> DEFINE log == spend[t].log
             start == treasury[t].start
  <1>1. log \in Seq(Release) /\ DOMAIN log = 1..Len(log)
    BY DEF WindowsInv, FundsInv, TypeOK, Spending
  <1>2. treasury[t].spent = Total(log, Since(log, start))
    BY DEF WindowsInv, WindowsOf, Windows
  <1>3. Since(log, start) = {i \in DOMAIN log : log[i].at >= start}
    BY <1>1 DEF Since
  <1>4. AmountOf(t, Since(log, start)) = Total(log, Since(log, start))
    BY DEF AmountOf, Total
  <1> HIDE DEF log, start
  <1>5. treasury[t].spent = AmountOf(t, {i \in DOMAIN log : log[i].at >= start})
    BY <1>2, <1>3, <1>4, Zenon
  <1>6. QED  BY <1>5 DEF log, start

\* What the treasury counts against the period cap is what was released since
\* the window opened, whenever and however often windows are rolled.
THEOREM SpentIsExact == Spec => []SpentIsWindowTotal
  BY InitWindows, NextWindows, WindowsTotal, PTL DEF Spec

\* The invariant gives the second property of windows.
LEMMA WindowsSpan == WindowsInv => TwoWindowsPerSpan
  <1> SUFFICES ASSUME WindowsInv, NEW t \in created, NEW i \in DOMAIN spend[t].log
               PROVE  AmountOf(t, SpanFrom(t, i)) <= 2 * terms[t].periodCap
    BY DEF TwoWindowsPerSpan
  <1> DEFINE log == spend[t].log
             start == treasury[t].start
             spent == treasury[t].spent
             period == terms[t].periodMs
             cap == terms[t].periodCap
  <1>1. TypeOK /\ t \in Treasuries
    BY DEF WindowsInv, FundsInv, TypeOK
  <1>2. /\ log \in Seq(Release) /\ start \in Nat /\ spent \in Nat /\ period \in Nat
        /\ cap \in Nat /\ now \in Nat
    BY <1>1, WindowsTypes
  <1>3. i \in 1..Len(log)
    BY <1>2
  <1>4. Windows(log, start, spent, period, cap, now)
    BY DEF WindowsInv, WindowsOf
  <1>5. SpanFrom(t, i) = Span(log, i, period)
    BY DEF SpanFrom, Span
  <1>6. AmountOf(t, Span(log, i, period)) = Total(log, Span(log, i, period))
    BY DEF AmountOf, Total
  <1> HIDE DEF log, start, spent, period, cap
  <1>7. Total(log, Span(log, i, period)) <= 2 * cap
    BY <1>2, <1>3, <1>4, SpanBound
  <1>8. AmountOf(t, SpanFrom(t, i)) <= 2 * cap
    BY <1>5, <1>6, <1>7
  <1>9. QED  BY <1>8 DEF cap

\* No span of one period, wherever it starts, sees more than two period caps
\* leave a treasury.
THEOREM SpansHoldTwoWindows == Spec => []TwoWindowsPerSpan
  BY InitWindows, NextWindows, WindowsSpan, PTL DEF Spec

-----------------------------------------------------------------------------
(* Treasury implements BoundedVault.  Conservation says what is at work     *)
(* without looking at a receipt, so that a step of the treasury is compared *)
(* with a step of the vault through its histories alone.                    *)

mandates == [t \in Treasuries |-> MandateOf(t)]
funds == [t \in Treasuries |-> treasury[t].funds]
payments == [t \in Treasuries |-> hist[t].withdrawn + hist[t].redeemed]
releases == [t \in Treasuries |-> spend[t].released]
quotas == [t \in Treasuries |-> QuotaOf(t)]

FundsTyped ==
    /\ AtWork \in Nat
    /\ \A t \in Treasuries :
          /\ treasury[t].funds \in Nat /\ spend[t].released \in Nat
          /\ hist[t].withdrawn \in Nat /\ hist[t].redeemed \in Nat /\ hist[t].inflow \in Nat

\* The fields that the mapping subtracts are naturals, before and after a step.
LEMMA FundsNat == FundsInv => FundsTyped
  <1> SUFFICES ASSUME FundsInv
               PROVE  FundsTyped
    OBVIOUS
  <1>1. \A t \in Treasuries :
           /\ treasury[t] \in TreasuryType /\ hist[t] \in History /\ spend[t] \in Spending
           /\ custody[t] \in [Protocols -> Held]
    BY DEF FundsInv, TypeOK, Held
  <1>2. ASSUME NEW t \in Treasuries
        PROVE  CustodySum(custody[t]) \in Nat
    <2> DEFINE f == [p \in Protocols |-> Worth(custody[t][p])]
    <2>1. DOMAIN f = Protocols /\ \A p \in Protocols : f[p] \in Nat
      BY <1>1, WorthType
    <2> HIDE DEF f
    <2>2. SumFunctionOnSet(f, Protocols) \in Nat
      BY <2>1, SumNat, FiniteIds
    <2>3. SumFunction(f) \in Nat
      BY <2>1, <2>2 DEF SumFunction
    <2>4. QED  BY <2>3 DEF f, CustodySum
  <1>3. CustodyTotal(custody) \in Nat
    <2> DEFINE f == [t \in Treasuries |-> CustodySum(custody[t])]
    <2>1. DOMAIN f = Treasuries /\ \A t \in Treasuries : f[t] \in Nat
      BY <1>2
    <2> HIDE DEF f
    <2>2. SumFunctionOnSet(f, Treasuries) \in Nat
      BY <2>1, SumNat, FiniteIds
    <2>3. SumFunction(f) \in Nat
      BY <2>1, <2>2 DEF SumFunction
    <2>4. QED  BY <2>3 DEF f, CustodyTotal
  <1>4. LooseSum(loose) \in Nat
    <2> DEFINE f == [r \in loose |-> r.amount]
    <2>1. DOMAIN f = loose /\ (\A r \in loose : f[r] \in Nat) /\ IsFiniteSet(loose)
      BY DEF FundsInv, Separate, TypeOK, Receipt
    <2> HIDE DEF f
    <2>2. SumFunctionOnSet(f, loose) \in Nat
      BY <2>1, SumNat
    <2>3. SumFunction(f) \in Nat
      BY <2>1, <2>2 DEF SumFunction
    <2>4. QED  BY <2>3 DEF f, LooseSum
  <1>5. AtWork \in Nat
    BY <1>3, <1>4, AtWorkIs
  <1>6. QED  BY <1>1, <1>5 DEF FundsTyped, TreasuryType, History, Spending

LEMMA FundsNatNext == FundsInv' => FundsTyped'
  BY FundsNat, PTL

\* What is at work is what was released and brought, and not yet redeemed.
LEMMA AtWorkLeft ==
  ASSUME FundsInv, FundsInv', brought' = brought
  PROVE  /\ ReleasedTotal(spend) \in Int /\ RedeemedTotal(hist) \in Int
         /\ ReleasedTotal(spend') = ReleasedTotal(spend) /\ RedeemedTotal(hist') = RedeemedTotal(hist)
               => AtWork' = AtWork
         /\ \A amount \in Nat :
               /\ ReleasedTotal(spend') = ReleasedTotal(spend)
               /\ RedeemedTotal(hist') = RedeemedTotal(hist) + amount
               => AtWork' = AtWork - amount
         /\ \A amount \in Nat :
               /\ ReleasedTotal(spend') = ReleasedTotal(spend) + amount
               /\ RedeemedTotal(hist') = RedeemedTotal(hist)
               => AtWork' = AtWork + amount
  <1>1. PICK r \in Int, h \in Int, b \in Int, w \in Int, v \in Int :
           /\ r = ReleasedTotal(spend) /\ h = RedeemedTotal(hist) /\ b = brought
           /\ w = AtWork /\ v = AtWork'
    <2>1. AtWork \in Int /\ AtWork' \in Int
      BY FundsNat, FundsNatNext DEF FundsTyped
    <2>2. ReleasedTotal(spend) \in Int /\ RedeemedTotal(hist) \in Int /\ brought \in Int
      BY TotalsInt DEF FundsInv
    <2>3. QED  BY <2>1, <2>2
  <1>2. r + b = w + h
    BY <1>1 DEF FundsInv, Pooled
  <1>3. ReleasedTotal(spend') + b = v + RedeemedTotal(hist')
    BY <1>1 DEF FundsInv, Pooled
  <1>4. r + b = v + h => v = w
    BY <1>2
  <1>5. ASSUME NEW amount \in Nat
        PROVE  /\ r + b = v + (h + amount) => v = w - amount
               /\ (r + amount) + b = v + h => v = w + amount
    BY <1>2
  <1>6. QED  BY <1>1, <1>3, <1>4, <1>5

\* The owner's and the clock's steps leave alone what is at work.
LEMMA AtWorkSame ==
  ASSUME FundsInv, FundsInv', brought' = brought, spend' = spend,
         \A u \in Treasuries : hist'[u].redeemed = hist[u].redeemed
  PROVE  AtWork' = AtWork
  <1>1. ReleasedTotal(spend') = ReleasedTotal(spend) /\ RedeemedTotal(hist') = RedeemedTotal(hist)
    BY DEF ReleasedTotal, RedeemedTotal
  <1>2. QED  BY <1>1, AtWorkLeft

\* Quota and mandate depend on the terms and on the agent alone.
LEMMA SameQuota ==
  ASSUME NEW t, t \in created' <=> t \in created, terms'[t] = terms[t],
         hist'[t].bornAt = hist[t].bornAt
  PROVE  QuotaOf(t)' = QuotaOf(t)
  BY DEF QuotaOf, MaxWindows

LEMMA SameMandate ==
  ASSUME NEW t, t \in created' <=> t \in created,
         treasury'[t].agent = treasury[t].agent
  PROVE  MandateOf(t)' = MandateOf(t)
  BY DEF MandateOf

\* A quota is a natural.
LEMMA QuotaNat ==
  ASSUME TypeOK, NEW t \in Treasuries
  PROVE  QuotaOf(t) \in Nat
  <1> DEFINE m == terms[t].periodMs
             c == terms[t].periodCap
             life == terms[t].expiryMs - hist[t].bornAt
  <1>1. m \in Nat /\ c \in Nat /\ life \in Int /\ MaxInflow \in Nat
    BY TreasuryAssumption DEF TypeOK, TermsType, History
  <1>2. ASSUME m # 0
        PROVE  MaxWindows(t) \in Nat
    <2>1. CASE life <= 0
      BY <2>1 DEF MaxWindows
    <2>2. CASE ~ (life <= 0)
      <3>1. life \in Nat /\ m \in Nat \ {0}
        <4> HIDE DEF life, m
        <4>1. QED  BY <1>1, <1>2, <2>2
      <3>2. life \div m \in Nat
        <4> HIDE DEF life, m
        <4>1. 0 * m <= life /\ 0 \in Nat
          BY <3>1
        <4>2. QED  BY <3>1, <4>1, WindowsFit
      <3>3. MaxWindows(t) = 1 + (life \div m)
        BY <2>2 DEF MaxWindows
      <3> HIDE DEF life, m
      <3>4. QED  BY <3>2, <3>3
    <2>3. QED  BY <2>1, <2>2
  <1>3. ASSUME m # 0
        PROVE  MaxWindows(t) * c \in Nat
    <2>1. MaxWindows(t) \in Nat
      BY <1>2, <1>3
    <2> HIDE DEF c
    <2>2. QED  BY <1>1, <2>1
  <1>4. QED  BY <1>1, <1>3 DEF QuotaOf

QuotasTyped == \A t \in Treasuries : QuotaOf(t) \in Nat

LEMMA QuotasNatNext == TypeOK' => QuotasTyped'
  <1>1. TypeOK => QuotasTyped
    BY QuotaNat DEF QuotasTyped
  <1>2. QED  BY <1>1, PTL

\* All that a step may change of other treasuries is nothing.
OthersKept(t) ==
    \A u \in Treasuries \ {t} :
       /\ u \in created' <=> u \in created
       /\ treasury'[u].agent = treasury[u].agent /\ treasury'[u].funds = treasury[u].funds
       /\ hist'[u] = hist[u] /\ spend'[u].released = spend[u].released
       /\ terms'[u] = terms[u]

\* Other treasuries map to what they mapped to.
LEMMA VaultFrame ==
  ASSUME FundsInv, FundsInv', NEW t \in Treasuries, OthersKept(t)
  PROVE  /\ mandates' = [mandates EXCEPT ![t] = MandateOf(t)']
         /\ funds' = [funds EXCEPT ![t] = treasury'[t].funds]
         /\ payments' = [payments EXCEPT ![t] = hist'[t].withdrawn + hist'[t].redeemed]
         /\ releases' = [releases EXCEPT ![t] = spend'[t].released]
         /\ quotas' = [quotas EXCEPT ![t] = QuotaOf(t)']
  <1>1. ASSUME NEW u \in Treasuries \ {t}
        PROVE  /\ MandateOf(u)' = MandateOf(u) /\ QuotaOf(u)' = QuotaOf(u)
    <2>1. /\ u \in created' <=> u \in created
          /\ treasury'[u].agent = treasury[u].agent
          /\ hist'[u] = hist[u] /\ spend'[u].released = spend[u].released
          /\ terms'[u] = terms[u]
      BY DEF OthersKept
    <2>2. QED  BY <2>1, SameQuota, SameMandate
  <1>2. mandates' = [mandates EXCEPT ![t] = MandateOf(t)']
    BY <1>1 DEF mandates
  <1>3. funds' = [funds EXCEPT ![t] = treasury'[t].funds]
    BY DEF funds, OthersKept
  <1>5. payments' = [payments EXCEPT ![t] = hist'[t].withdrawn + hist'[t].redeemed]
    BY DEF payments, OthersKept
  <1>6. releases' = [releases EXCEPT ![t] = spend'[t].released]
    BY DEF releases, OthersKept
  <1>7. quotas' = [quotas EXCEPT ![t] = QuotaOf(t)']
    BY <1>1 DEF quotas
  <1>8. QED  BY <1>2, <1>3, <1>5, <1>6, <1>7

\* What one treasury maps to.
LEMMA VaultAt ==
  ASSUME NEW t \in Treasuries
  PROVE  /\ mandates[t] = MandateOf(t) /\ funds[t] = treasury[t].funds
         /\ quotas[t] = QuotaOf(t)
         /\ payments[t] = hist[t].withdrawn + hist[t].redeemed
         /\ releases[t] = spend[t].released
         /\ mandates'[t] = MandateOf(t)' /\ funds'[t] = treasury'[t].funds
         /\ quotas'[t] = QuotaOf(t)'
         /\ payments'[t] = hist'[t].withdrawn + hist'[t].redeemed
         /\ releases'[t] = spend'[t].released
  BY DEF mandates, funds, payments, releases, quotas

LEMMA SameAt ==
  /\ \A t \in Treasuries :
       /\ [mandates EXCEPT ![t] = mandates[t]] = mandates
       /\ [funds EXCEPT ![t] = funds[t]] = funds
       /\ [payments EXCEPT ![t] = payments[t]] = payments
       /\ [releases EXCEPT ![t] = releases[t]] = releases
       /\ [quotas EXCEPT ![t] = quotas[t]] = quotas
  BY DEF mandates, funds, payments, releases, quotas

\* The steps of the treasury, each as a step of the vault or none.
LEMMA CreateOpens ==
  ASSUME FundsInv, FundsInv', NEW t \in Treasuries, NEW bounds \in Terms, NEW amount \in Amounts,
         Create(t, bounds, amount)
  PROVE  Vault!Open(t)
  <1>1. /\ TypeOK /\ TypeOK' /\ amount \in Nat /\ Unborn(t) /\ t \notin created
        /\ created' = created \cup {t} /\ spend' = spend /\ custody' = custody /\ loose' = loose
    BY TreasuryAssumption DEF FundsInv, Create
  <1>2. /\ treasury'[t].funds = amount /\ treasury'[t].agent = t
        /\ hist'[t].withdrawn = 0 /\ hist'[t].redeemed = 0
        /\ \A u \in Treasuries \ {t} :
              treasury'[u] = treasury[u] /\ hist'[u] = hist[u] /\ terms'[u] = terms[u]
    BY <1>1 DEF Create, TypeOK
  <1>3. OthersKept(t)
    BY <1>1, <1>2 DEF OthersKept
  <1>4. MandateOf(t) = "none" /\ MandateOf(t)' = "open"
    <2>1. t \in created' /\ treasury'[t].agent # NoAgent
      BY <1>1, <1>2, TreasuryAssumption
    <2>2. QED  BY <1>1, <2>1 DEF MandateOf
  <1>5. QuotaOf(t)' \in Nat
    BY <1>1, QuotasNatNext DEF QuotasTyped
  <1>6. AtWork' = AtWork
    BY <1>1, AtWorkIs
  <1>7. hist[t].withdrawn + hist[t].redeemed = hist'[t].withdrawn + hist'[t].redeemed
    BY <1>1, <1>2 DEF Unborn
  <1>8. /\ mandates[t] = "none" /\ mandates' = [mandates EXCEPT ![t] = "open"]
        /\ funds'[t] \in Nat /\ funds' = [funds EXCEPT ![t] = funds'[t]]
        /\ quotas'[t] \in Nat /\ quotas' = [quotas EXCEPT ![t] = quotas'[t]]
        /\ AtWork' = AtWork /\ payments' = payments /\ releases' = releases
    BY <1>1, <1>2, <1>3, <1>4, <1>5, <1>6, <1>7, VaultAt, VaultFrame, SameAt
  <1>9. QED
    BY <1>8 DEF Vault!Open, mandates, funds, payments, releases, quotas

\* A step that pays nothing, releases nothing and moves no funds
\* is no step of the vault.
LEMMA VaultStill ==
  ASSUME FundsInv, FundsInv', NEW t \in Treasuries, OthersKept(t),
         MandateOf(t)' = MandateOf(t), QuotaOf(t)' = QuotaOf(t),
         treasury'[t].funds = treasury[t].funds, hist'[t].withdrawn = hist[t].withdrawn,
         hist'[t].redeemed = hist[t].redeemed, spend'[t].released = spend[t].released,
         AtWork' = AtWork
  PROVE  UNCHANGED Vault!vaultVars
  <1>2. /\ mandates' = mandates /\ funds' = funds /\ quotas' = quotas
        /\ AtWork' = AtWork /\ payments' = payments /\ releases' = releases
    BY VaultAt, VaultFrame, SameAt
  <1>3. QED
    BY <1>2 DEF Vault!vaultVars, mandates, funds, payments, releases, quotas

\* What the owner does keeps the quota, and but for Revoke the mandate.
LEMMA OwnerKeepsTerms ==
  ASSUME FundsInv, NEW t \in Treasuries, t \in created, created' = created, terms' = terms,
         hist'[t].bornAt = hist[t].bornAt
  PROVE  /\ QuotaOf(t)' = QuotaOf(t)
         /\ MandateOf(t) # "none"
         /\ treasury'[t].agent = treasury[t].agent => MandateOf(t)' = MandateOf(t)
  <1>1. QuotaOf(t)' = QuotaOf(t)
    BY SameQuota
  <1>2. treasury'[t].agent = treasury[t].agent => MandateOf(t)' = MandateOf(t)
    BY SameMandate
  <1>3. MandateOf(t) # "none"
    BY DEF MandateOf
  <1>4. QED  BY <1>1, <1>2, <1>3

\* A deposit funds the vault.
LEMMA DepositFunds ==
  ASSUME FundsInv, FundsInv', NEW t \in Treasuries, NEW amount \in Amounts, Deposit(t, amount)
  PROVE  Vault!Fund(t) \/ UNCHANGED Vault!vaultVars
  <1>1. /\ TypeOK /\ amount \in Nat /\ t \in created /\ treasury[t] \in TreasuryType
        /\ hist[t] \in History /\ treasury[t].funds \in Nat
        /\ created' = created /\ terms' = terms /\ spend' = spend /\ brought' = brought
    BY TreasuryAssumption DEF FundsInv, Deposit, TypeOK, TreasuryType
  <1>2. /\ treasury'[t].funds = treasury[t].funds + amount
        /\ treasury'[t].agent = treasury[t].agent /\ hist'[t].bornAt = hist[t].bornAt
        /\ hist'[t].withdrawn = hist[t].withdrawn /\ hist'[t].redeemed = hist[t].redeemed
        /\ \A u \in Treasuries \ {t} : treasury'[u] = treasury[u] /\ hist'[u] = hist[u]
    BY <1>1 DEF Deposit, TypeOK, TreasuryType, History
  <1>3. OthersKept(t)
    BY <1>1, <1>2 DEF OthersKept
  <1>4. /\ QuotaOf(t)' = QuotaOf(t) /\ MandateOf(t)' = MandateOf(t) /\ MandateOf(t) # "none"
    BY <1>1, <1>2, OwnerKeepsTerms
  <1>w. AtWork' = AtWork
    BY <1>1, <1>2, AtWorkSame
  <1>5. CASE amount = 0
    BY <1>1, <1>2, <1>3, <1>4, <1>w, <1>5, VaultStill
  <1>6. CASE amount > 0
    <2>2. /\ mandates[t] # "none" /\ funds'[t] > funds[t]
          /\ funds' = [funds EXCEPT ![t] = funds'[t]]
          /\ mandates' = mandates /\ quotas' = quotas
          /\ AtWork' = AtWork /\ payments' = payments /\ releases' = releases
      BY <1>1, <1>2, <1>3, <1>4, <1>w, <1>6, VaultAt, VaultFrame, SameAt
    <2>3. QED
      BY <2>2 DEF Vault!Fund, mandates, funds, payments, releases, quotas
  <1>7. QED  BY <1>1, <1>5, <1>6

\* A payment is a step of the vault, from its funds or from what is at work.
LEMMA PayStep ==
  ASSUME NEW t \in Treasuries, NEW amount \in Nat, amount > 0, mandates[t] # "none",
         payments[t] \in Nat, payments'[t] = payments[t] + amount,
         payments' = [payments EXCEPT ![t] = payments'[t]],
         mandates' = mandates, quotas' = quotas, releases' = releases,
         \/ /\ funds[t] >= amount /\ funds'[t] = funds[t] - amount
            /\ funds' = [funds EXCEPT ![t] = funds'[t]] /\ AtWork' = AtWork
         \/ AtWork >= amount /\ AtWork' = AtWork - amount /\ funds' = funds
  PROVE  Vault!PayOwner(t)
  <1>1. payments'[t] - payments[t] = amount
    OBVIOUS
  <1>2. payments' = [payments EXCEPT ![t] = payments[t] + amount]
    BY Zenon
  <1>3. \/ /\ funds[t] >= amount
           /\ funds' = [funds EXCEPT ![t] = funds[t] - amount] /\ AtWork' = AtWork
        \/ AtWork >= amount /\ AtWork' = AtWork - amount /\ funds' = funds
    BY Zenon
  <1>4. QED
    BY <1>1, <1>2, <1>3
       DEF Vault!PayOwner, mandates, funds, payments, releases, quotas

\* A withdrawal pays from the funds.
LEMMA WithdrawPays ==
  ASSUME FundsInv, FundsInv', NEW t \in Treasuries, NEW owner \in Treasuries,
         NEW amount \in Amounts, WithdrawPrincipal(t, owner, amount)
  PROVE  Vault!PayOwner(t) \/ UNCHANGED Vault!vaultVars
  <1>1. /\ TypeOK /\ amount \in Nat /\ t \in created /\ treasury[t] \in TreasuryType
        /\ hist[t] \in History /\ treasury[t].funds \in Nat /\ amount <= treasury[t].funds
        /\ created' = created /\ terms' = terms /\ spend' = spend /\ owner = t
        /\ brought' = brought
    BY TreasuryAssumption DEF FundsInv, WithdrawPrincipal, OwnerCapMatches, TypeOK, TreasuryType
  <1>2. /\ treasury'[t].funds = treasury[t].funds - amount
        /\ treasury'[t].agent = treasury[t].agent /\ hist'[t].bornAt = hist[t].bornAt
        /\ hist'[t].withdrawn = hist[t].withdrawn + amount
        /\ hist'[t].redeemed = hist[t].redeemed
        /\ \A u \in Treasuries \ {t} : treasury'[u] = treasury[u] /\ hist'[u] = hist[u]
    BY <1>1 DEF WithdrawPrincipal, TypeOK, TreasuryType, History
  <1>3. OthersKept(t)
    BY <1>1, <1>2 DEF OthersKept
  <1>4. /\ QuotaOf(t)' = QuotaOf(t) /\ MandateOf(t)' = MandateOf(t) /\ MandateOf(t) # "none"
    BY <1>1, <1>2, OwnerKeepsTerms
  <1>5. hist[t].withdrawn \in Nat /\ hist[t].redeemed \in Nat
    BY FundsNat DEF FundsTyped
  <1>w. AtWork' = AtWork
    BY <1>1, <1>2, AtWorkSame
  <1>6. CASE amount = 0
    BY <1>1, <1>2, <1>3, <1>4, <1>5, <1>w, <1>6, VaultStill
  <1>7. CASE amount > 0
    <2>2. /\ funds[t] \in Nat /\ payments[t] \in Nat /\ amount <= funds[t]
          /\ payments'[t] = payments[t] + amount
          /\ funds'[t] = funds[t] - amount
      BY <1>1, <1>2, <1>5, VaultAt
    <2>3. /\ mandates[t] # "none" /\ funds' = [funds EXCEPT ![t] = funds'[t]]
          /\ payments' = [payments EXCEPT ![t] = payments'[t]]
          /\ mandates' = mandates /\ quotas' = quotas
          /\ AtWork' = AtWork /\ releases' = releases
      BY <1>1, <1>2, <1>3, <1>4, <1>w, VaultAt, VaultFrame, SameAt
    <2>4. QED  BY <1>1, <1>7, <2>2, <2>3, PayStep
  <1>8. QED  BY <1>1, <1>6, <1>7

\* A revocation closes the mandate.
LEMMA RevokeCloses ==
  ASSUME FundsInv, FundsInv', NEW t \in Treasuries, NEW owner \in Treasuries, Revoke(t, owner)
  PROVE  Vault!Close(t) \/ UNCHANGED Vault!vaultVars
  <1>1. /\ TypeOK /\ t \in created /\ treasury[t] \in TreasuryType
        /\ created' = created /\ terms' = terms /\ spend' = spend /\ hist' = hist
        /\ brought' = brought
    BY DEF FundsInv, Revoke, TypeOK
  <1>2. /\ treasury'[t].funds = treasury[t].funds /\ treasury'[t].agent = NoAgent
        /\ \A u \in Treasuries \ {t} : treasury'[u] = treasury[u]
    BY <1>1 DEF Revoke, TypeOK, TreasuryType
  <1>3. OthersKept(t)
    BY <1>1, <1>2 DEF OthersKept
  <1>4. QuotaOf(t)' = QuotaOf(t) /\ MandateOf(t)' = "closed"
    BY <1>1, <1>2, OwnerKeepsTerms DEF MandateOf
  <1>w. AtWork' = AtWork
    BY <1>1, AtWorkSame
  <1>5. CASE treasury[t].agent = NoAgent
    <2>1. MandateOf(t)' = MandateOf(t)
      BY <1>1, <1>2, <1>5, OwnerKeepsTerms
    <2>2. QED  BY <1>1, <1>2, <1>3, <1>4, <1>w, <2>1, VaultStill
  <1>6. CASE treasury[t].agent # NoAgent
    <2>2. MandateOf(t) = "open"
      BY <1>1, <1>6 DEF MandateOf
    <2>3. /\ mandates[t] = "open" /\ mandates' = [mandates EXCEPT ![t] = "closed"]
          /\ funds' = funds /\ quotas' = quotas
          /\ AtWork' = AtWork /\ payments' = payments /\ releases' = releases
      BY <1>1, <1>2, <1>3, <1>4, <1>w, <2>2, VaultAt, VaultFrame, SameAt
    <2>4. QED
      BY <2>3 DEF Vault!Close, mandates, funds, payments, releases, quotas
  <1>7. QED  BY <1>5, <1>6

\* A receipt that moves between treasury and owner is no step of the vault.
LEMMA ReceiptStill ==
  ASSUME FundsInv, FundsInv', NEW t \in Treasuries, t \in created, created' = created,
         terms' = terms, spend' = spend, hist' = hist, treasury' = treasury, brought' = brought
  PROVE  UNCHANGED Vault!vaultVars
  <1>1. OthersKept(t)
    BY DEF OthersKept
  <1>2. QuotaOf(t)' = QuotaOf(t) /\ MandateOf(t)' = MandateOf(t)
    BY OwnerKeepsTerms
  <1>3. AtWork' = AtWork
    BY AtWorkSame
  <1>4. QED  BY <1>1, <1>2, <1>3, VaultStill

\* A redemption pays from what is at work.
LEMMA RedeemPays ==
  ASSUME FundsInv, FundsInv', NEW t \in Treasuries, NEW owner \in Treasuries,
         NEW a \in Adapters, NEW amount \in Redeemable(t, a), OwnerRedeem(t, owner, a, amount)
  PROVE  Vault!PayOwner(t) \/ UNCHANGED Vault!vaultVars
  <1>1. /\ {t, owner} \subseteq created /\ OwnerCapMatches(t, owner)
        /\ treasury' = treasury /\ spend' = spend /\ created' = created /\ terms' = terms
        /\ brought' = brought
        /\ hist' = [hist EXCEPT ![owner].redeemed = @ + amount]
    BY Zenon DEF OwnerRedeem
  <1>2. /\ owner = t /\ t \in created /\ amount \in Nat /\ hist \in [Treasuries -> History]
        /\ hist[t] \in History
    <2>1. TypeOK /\ amount \in Nat
      BY RedeemableNat DEF FundsInv
    <2>2. QED  BY <1>1, <2>1 DEF TypeOK, OwnerCapMatches
  <1>3. /\ hist'[t].redeemed = hist[t].redeemed + amount
        /\ hist'[t].withdrawn = hist[t].withdrawn /\ hist'[t].bornAt = hist[t].bornAt
        /\ \A u \in Treasuries \ {t} : hist'[u] = hist[u]
    BY <1>1, <1>2 DEF History
  <1>4. OthersKept(t)
    BY <1>1, <1>3 DEF OthersKept
  <1>5. /\ QuotaOf(t)' = QuotaOf(t) /\ MandateOf(t)' = MandateOf(t) /\ MandateOf(t) # "none"
    BY <1>1, <1>2, <1>3, OwnerKeepsTerms
  <1>6. /\ hist[t].withdrawn \in Nat /\ hist[t].redeemed \in Nat /\ AtWork \in Nat /\ AtWork' \in Nat
    BY FundsNat, FundsNatNext DEF FundsTyped
  <1>w. AtWork' = AtWork - amount
    <2>1. /\ RedeemedTotal(hist') = RedeemedTotal(hist) + amount
          /\ ReleasedTotal(spend') = ReleasedTotal(spend)
      BY <1>1, <1>2, <1>3, RedeemedChange DEF FundsInv
    <2>2. QED  BY <1>1, <1>2, <2>1, AtWorkLeft
  <1>7. CASE amount = 0
    <2>1. hist'[t].redeemed = hist[t].redeemed /\ AtWork' = AtWork
      BY <1>3, <1>6, <1>w, <1>7
    <2>2. QED  BY <1>1, <1>3, <1>4, <1>5, <2>1, VaultStill
  <1>8. CASE amount > 0
    <2>1. AtWork >= amount
      BY <1>2, <1>6, <1>w
    <2>2. payments[t] \in Nat /\ payments'[t] = payments[t] + amount
      <3>1. hist'[t].withdrawn + hist'[t].redeemed
              = (hist[t].withdrawn + hist[t].redeemed) + amount
        BY <1>2, <1>3, <1>6
      <3>2. hist[t].withdrawn + hist[t].redeemed \in Nat
        BY <1>6
      <3>3. QED  BY <3>1, <3>2, VaultAt
    <2>3. /\ mandates[t] # "none" /\ payments' = [payments EXCEPT ![t] = payments'[t]]
          /\ mandates' = mandates /\ quotas' = quotas
          /\ funds' = funds /\ releases' = releases
      BY <1>1, <1>4, <1>5, VaultAt, VaultFrame, SameAt
    <2>4. QED  BY <1>2, <1>8, <1>w, <2>1, <2>2, <2>3, PayStep
  <1>9. QED  BY <1>2, <1>7, <1>8

\* A release puts funds to work within the quota.
LEMMA SupplyWorks ==
  ASSUME WindowsInv, WindowsInv', NEW t \in Treasuries, NEW cap \in Treasuries, NEW a \in Adapters,
         NEW p \in Protocols, NEW amount \in Nat, SupplyThroughAdapter(t, cap, a, p, amount)
  PROVE  Vault!PutToWork(t) \/ UNCHANGED Vault!vaultVars
  <1>1. /\ FundsInv /\ FundsInv' /\ TypeOK /\ TypeOK' /\ ExposureInv'
        /\ t \in created /\ hist' = hist /\ created' = created /\ terms' = terms
        /\ brought' = brought /\ ReleaseWithTicket(t, cap, amount)
    BY DEF WindowsInv, FundsInv, SupplyThroughAdapter
  <1>2. /\ spend'[t].released = spend[t].released + amount
        /\ treasury'[t].agent = treasury[t].agent
        /\ \A u \in Treasuries \ {t} : treasury'[u] = treasury[u] /\ spend'[u] = spend[u]
    BY <1>1, ReleaseEffect
  <1>3. /\ treasury'[t].funds = treasury[t].funds - amount
        /\ treasury[t].agent # NoAgent
    BY <1>1, TreasuryAssumption DEF ReleaseWithTicket, AgentActive, TypeOK
  <1>4. OthersKept(t)
    BY <1>1, <1>2 DEF OthersKept
  <1>5. /\ QuotaOf(t)' = QuotaOf(t) /\ MandateOf(t)' = MandateOf(t) /\ MandateOf(t) = "open"
    BY <1>1, <1>2, <1>3, OwnerKeepsTerms DEF MandateOf
  <1>6. /\ treasury[t].funds \in Nat /\ treasury'[t].funds \in Nat /\ AtWork \in Nat
        /\ spend[t].released \in Nat /\ hist[t].redeemed \in Nat
    BY <1>1, FundsNat, FundsNatNext DEF FundsTyped
  <1>w. AtWork' = AtWork + amount
    <2>1. /\ ReleasedTotal(spend') = ReleasedTotal(spend) + amount
          /\ RedeemedTotal(hist') = RedeemedTotal(hist)
      BY <1>1, <1>2, ReleasedChange
    <2>2. QED  BY <1>1, <2>1, AtWorkLeft
  <1>7. CASE amount = 0
    <2>1. /\ treasury'[t].funds = treasury[t].funds /\ spend'[t].released = spend[t].released
          /\ AtWork' = AtWork
      BY <1>2, <1>3, <1>6, <1>w, <1>7
    <2>2. QED  BY <1>1, <1>4, <1>5, <2>1, VaultStill
  <1>8. CASE amount > 0
    <2>2. spend'[t].released <= QuotaOf(t)
      <3>1. LifetimeExposure'
        <4>1. ExposureInv' => LifetimeExposure'
          BY ExposureBound, PTL
        <4>2. QED  BY <1>1, <4>1
      <3>2. CASE terms[t].periodMs = 0
        <4>1. spend'[t].released <= MaxInflow
          <5>1. /\ hist'[t].inflow = treasury'[t].funds + hist'[t].withdrawn + spend'[t].released
                /\ hist'[t].inflow <= MaxInflow
            BY <1>1 DEF FundsInv, Balanced
          <5>2. /\ treasury'[t].funds \in Nat /\ hist'[t].withdrawn \in Nat
                /\ spend'[t].released \in Nat /\ MaxInflow \in Nat
            BY <1>1, FundsNatNext, TreasuryAssumption DEF FundsTyped
          <5>3. QED  BY <5>1, <5>2
        <4>2. QED  BY <1>1, <3>2, <4>1 DEF QuotaOf
      <3>3. CASE terms[t].periodMs # 0
        <4>1. terms[t].periodMs > 0
          BY <1>1, <3>3 DEF TypeOK, TermsType
        <4>2. spend'[t].released <= MaxWindows(t) * terms[t].periodCap
          BY <1>1, <3>1, <4>1 DEF LifetimeExposure, MaxWindows
        <4>3. QED  BY <1>1, <3>3, <4>2 DEF QuotaOf
      <3>4. QED  BY <3>2, <3>3
    <2>3. /\ funds[t] - funds'[t] = amount /\ funds'[t] >= 0
          /\ releases[t] + amount <= quotas[t]
          /\ funds'[t] = funds[t] - amount
          /\ releases'[t] = releases[t] + amount /\ mandates[t] = "open"
      <3>1. treasury[t].funds - treasury'[t].funds = amount /\ treasury'[t].funds >= 0
        BY <1>3, <1>6
      <3>2. QED  BY <1>2, <1>3, <1>5, <2>2, <3>1, VaultAt
    <2>4. /\ funds' = [funds EXCEPT ![t] = funds'[t]]
          /\ releases' = [releases EXCEPT ![t] = releases'[t]]
          /\ mandates' = mandates /\ quotas' = quotas /\ payments' = payments
      BY <1>1, <1>4, <1>5, VaultAt, VaultFrame, SameAt
    <2>5. /\ funds' = [funds EXCEPT ![t] = funds[t] - amount]
          /\ releases' = [releases EXCEPT ![t] = releases[t] + amount]
      BY <2>3, <2>4, Zenon
    <2>6. QED
      BY <1>8, <1>w, <2>3, <2>4, <2>5
         DEF Vault!PutToWork, mandates, funds, payments, releases, quotas
  <1>9. QED  BY <1>7, <1>8

\* Initial states map to initial states, and steps to steps or to none.
LEMMA InitVault == Init => Vault!VaultInit
  <1> SUFFICES ASSUME Init
               PROVE  Vault!VaultInit
    OBVIOUS
  <1>1. FundsInv /\ created = {}
    BY InitFunds DEF Init
  <1>2. ASSUME NEW t \in Treasuries
        PROVE  /\ MandateOf(t) = "none" /\ treasury[t].funds = 0
               /\ hist[t].withdrawn + hist[t].redeemed = 0 /\ spend[t].released = 0
               /\ QuotaOf(t) = 0
    <2>1. Unborn(t) /\ t \notin created
      BY <1>1 DEF FundsInv
    <2>2. MandateOf(t) = "none" /\ QuotaOf(t) = 0
      BY <2>1 DEF MandateOf, QuotaOf
    <2>3. QED  BY <2>1, <2>2 DEF Unborn
  <1>3. AtWork = 0
    <2> DEFINE f == [t \in Treasuries |-> 0]
    <2>1. [t \in Treasuries |-> spend[t].released] = f /\ [t \in Treasuries |-> hist[t].redeemed] = f
      BY DEF Init
    <2>2. SumFunction(f) = 0
      BY SumOfZeros, FiniteIds DEF SumFunction
    <2> HIDE DEF f
    <2>3. ReleasedTotal(spend) = 0 /\ RedeemedTotal(hist) = 0
      BY <2>1, <2>2 DEF ReleasedTotal, RedeemedTotal
    <2>4. brought = 0 /\ AtWork \in Nat
      BY <1>1, FundsNat DEF Init, FundsTyped
    <2>5. QED  BY <1>1, <2>3, <2>4 DEF FundsInv, Pooled
  <1>4. QED  BY <1>2, <1>3 DEF Vault!VaultInit

LEMMA NextVault ==
  ASSUME WindowsInv, WindowsInv', [Next]_vars
  PROVE  [Vault!VaultNext]_(Vault!vaultVars)
  <1>1. FundsInv /\ FundsInv'
    BY DEF WindowsInv
  <1>2. ASSUME UNCHANGED <<created, terms, spend, hist, treasury, custody, loose>>
        PROVE  UNCHANGED Vault!vaultVars
    <2>1. ASSUME NEW t \in Treasuries
          PROVE  MandateOf(t)' = MandateOf(t) /\ QuotaOf(t)' = QuotaOf(t)
      BY <1>2, SameMandate, SameQuota
    <2>2. AtWork' = AtWork
      BY <1>2, AtWorkIs
    <2>3. QED  BY <1>2, <2>1, <2>2 DEF Vault!vaultVars
  <1>3. CASE Tick
    BY <1>2, <1>3 DEF Tick
  <1>4. ASSUME NEW t \in Treasuries,
               \/ \E bounds \in Terms, amount \in Amounts : Create(t, bounds, amount)
               \/ \E amount \in Amounts : Deposit(t, amount)
        PROVE  Vault!VaultNext \/ UNCHANGED Vault!vaultVars
    <2>1. Vault!Open(t) \/ Vault!Fund(t) \/ UNCHANGED Vault!vaultVars
      BY <1>1, <1>4, CreateOpens, DepositFunds
    <2>2. QED  BY <2>1 DEF Vault!VaultNext
  <1>5. ASSUME NEW t \in Treasuries, NEW owner \in Treasuries,
               \/ \E amount \in Amounts : WithdrawPrincipal(t, owner, amount)
               \/ Revoke(t, owner)
               \/ \E a \in Adapters : \E amount \in Redeemable(t, a) :
                     OwnerRedeem(t, owner, a, amount)
        PROVE  Vault!VaultNext \/ UNCHANGED Vault!vaultVars
    <2>1. Vault!PayOwner(t) \/ Vault!Close(t) \/ UNCHANGED Vault!vaultVars
      BY <1>1, <1>5, WithdrawPays, RevokeCloses, RedeemPays
    <2>2. QED  BY <2>1 DEF Vault!VaultNext
  <1>6. ASSUME NEW t \in Treasuries, NEW owner \in Treasuries, NEW p \in Protocols,
               \/ OwnerTakeReceipt(t, owner, p)
               \/ \E receipt \in loose : OwnerRecustody(t, owner, p, receipt)
        PROVE  UNCHANGED Vault!vaultVars
    <2>1. /\ t \in created /\ created' = created /\ terms' = terms /\ spend' = spend
          /\ hist' = hist /\ treasury' = treasury /\ brought' = brought
      BY <1>6 DEF OwnerTakeReceipt, OwnerRecustody
    <2>2. QED  BY <1>1, <2>1, ReceiptStill
  <1>7. CASE OwnerNext
    <2>1. Vault!VaultNext \/ UNCHANGED Vault!vaultVars
      BY <1>4, <1>5, <1>6, <1>7 DEF OwnerNext
    <2>2. QED  BY <2>1
  <1>8. CASE SupplyNext
    <2>1. PICK t \in Treasuries : Vault!PutToWork(t) \/ UNCHANGED Vault!vaultVars
      BY <1>8, SupplyWorks, TreasuryAssumption DEF SupplyNext
    <2>2. QED  BY <2>1 DEF Vault!VaultNext
  <1>9. CASE UNCHANGED vars
    BY <1>2, <1>9 DEF vars
  <1>10. CASE HolderNext
    <2>1. UNCHANGED <<created, treasury, terms, spend, hist>>
      BY <1>10 DEF HolderNext, OpenPosition, HolderTrades
    <2>2. ASSUME NEW t \in Treasuries
          PROVE  MandateOf(t)' = MandateOf(t) /\ QuotaOf(t)' = QuotaOf(t)
      BY <2>1, SameMandate, SameQuota
    <2>3. AtWork' \in Nat
      BY <1>1, FundsNatNext DEF FundsTyped
    <2>4. Vault!Trade
      BY <2>1, <2>2, <2>3 DEF Vault!Trade
    <2>5. QED  BY <2>4 DEF Vault!VaultNext
  <1>11. QED  BY <1>3, <1>7, <1>8, <1>9, <1>10 DEF Next

\* The treasury keeps the vault's promise to its owner: one mandate that closes for
\* good, and at most a quota fixed when it opened ever put to work.
THEOREM TreasuryImplementsVault == Spec => ImplementsVault
  <1>1. Spec => []WindowsInv
    BY InitWindows, NextWindows, PTL DEF Spec
  <1>2. WindowsInv /\ WindowsInv' /\ [Next]_vars => [Vault!VaultNext]_(Vault!vaultVars)
    BY NextVault
  <1>3. QED
    BY <1>1, <1>2, InitVault, PTL DEF Spec, ImplementsVault, Vault!VaultSpec
=============================================================================
