--------------------------- MODULE DecisionProofs ---------------------------
(***************************************************************************)
(* Theorems about Decision: every attested release is a release the        *)
(* treasury alone would allow, one per nonce, and under an Enclave object  *)
(* of the current version only for the image pinned at that moment.        *)
(***************************************************************************)
EXTENDS Decision, TreasuryProofs

-----------------------------------------------------------------------------
(* The registry by itself, for every set of images and keys.               *)

LEMMA RegistryTypeOK ==
  ASSUME Registry!RegTypeOK, Registry!RegNext
  PROVE  Registry!RegTypeOK'
  BY DEF Registry!RegTypeOK, Registry!RegNext, Registry!RegisterEnclave,
         Registry!UpdatePcrs, Registry!DestroyOldEnclave,
         Registry!DeployOldEnclaveByOwner, Registry!EnclaveObject

LEMMA RegistryAttested ==
  ASSUME Registry!RegTypeOK, Registry!ObjectsOfPinnedImage, Registry!RegNext
  PROVE  Registry!ObjectsOfPinnedImage'
  <1>1. /\ config \in [image : Images, version : Nat]
        /\ enclaves \subseteq [key : Keys, version : Nat]
    BY DEF Registry!RegTypeOK, Registry!EnclaveObject
  <1>2. ASSUME NEW key \in Keys, Registry!RegisterEnclave(key)
        PROVE  Registry!ObjectsOfPinnedImage'
    BY <1>1, <1>2 DEF Registry!ObjectsOfPinnedImage, Registry!RegisterEnclave
  <1>3. ASSUME NEW image \in Images, Registry!UpdatePcrs(image)
        PROVE  Registry!ObjectsOfPinnedImage'
    <2>1. config.version \in Nat /\ config'.version = config.version + 1
      BY <1>1, <1>3 DEF Registry!UpdatePcrs
    <2>2. \A e \in enclaves : e.version \in Nat /\ e.version <= config.version
      BY <1>1 DEF Registry!ObjectsOfPinnedImage
    <2>3. \A e \in enclaves : e.version <= config'.version /\ e.version # config'.version
      BY <2>1, <2>2
    <2>4. QED  BY <1>3, <2>3 DEF Registry!ObjectsOfPinnedImage, Registry!UpdatePcrs
  <1>4. CASE enclaves' \subseteq enclaves /\ config' = config
    BY <1>4 DEF Registry!ObjectsOfPinnedImage
  <1>5. QED
    BY <1>2, <1>3, <1>4
    DEF Registry!RegNext, Registry!DestroyOldEnclave, Registry!DeployOldEnclaveByOwner

-----------------------------------------------------------------------------
(* The attested path implements the treasury.                              *)

LEMMA VerifiedSupplyIsSupply ==
  ASSUME NEW t \in Treasuries, NEW cap \in Treasuries, NEW e, NEW key \in Keys,
         NEW intent \in Intents, NEW a \in Adapters,
         VerifiedSupply(t, cap, e, key, intent, a)
  PROVE  /\ intent \in IntentType
         /\ intent.protocol \in Protocols /\ intent.amount \in Amounts
         /\ intent.treasury = t
         /\ SupplyThroughAdapter(t, cap, a, intent.protocol, intent.amount)
  BY DecisionAssumption DEF VerifiedSupply, AssertIntentValid, IntentType

LEMMA DecStepIsStep == [DecNext]_decVars => [Next]_vars
  <1> SUFFICES ASSUME [DecNext]_decVars
               PROVE  [Next]_vars
    OBVIOUS
  <1>1. CASE Tick \/ OwnerNext \/ HolderNext
    BY <1>1 DEF Next
  <1>2. CASE UNCHANGED vars
    BY <1>2
  <1>3. ASSUME NEW t \in Treasuries, NEW cap \in Treasuries, NEW e \in enclaves,
               NEW key \in Keys, NEW a \in Adapters, NEW intent \in Intents,
               VerifiedSupply(t, cap, e, key, intent, a)
        PROVE  Next
    BY <1>3, VerifiedSupplyIsSupply DEF Next, SupplyNext
  <1>4. CASE UNCHANGED decVars
    BY <1>2, <1>4 DEF decVars
  <1>5. CASE \E b \in Bindings : RegisterAdapter(b[1], b[2])
    BY <1>2, <1>5 DEF RegisterAdapter
  <1>6. QED  BY <1>1, <1>2, <1>3, <1>4, <1>5 DEF DecNext

\* Whatever enclaves, adapters, intents and nonces do, the treasury sees only
\* its own transactions: verified_release has no way round release_with_ticket.
THEOREM AttestedPathImplementsTreasury == DecSpec => ImplementsTreasury
  <1>1. DecInit => Init
    BY DEF DecInit
  <1>2. QED  BY <1>1, DecStepIsStep, PTL DEF DecSpec, Spec, ImplementsTreasury

\* So the lifetime bound of the treasury holds of the attested system too.
THEOREM AttestedExposureIsBounded == DecSpec => []LifetimeExposure
  BY AttestedPathImplementsTreasury, ExposureIsBounded, PTL DEF ImplementsTreasury

\* And so do its accounts: every coin an attested release moved is behind a
\* receipt, in whichever treasury it lies, or was redeemed, and the window
\* total and the bound over any span of it are exact.
THEOREM AttestedAccountsAreExact ==
  DecSpec => []Conservation /\ []SpentIsWindowTotal /\ []TwoWindowsPerSpan
  BY AttestedPathImplementsTreasury, FundsAreConserved, SpentIsExact,
     SpansHoldTwoWindows, PTL DEF ImplementsTreasury

\* The bounded vault, two refinements up, is all the attested path can be.
THEOREM AttestedPathImplementsVault == DecSpec => ImplementsVault
  BY AttestedPathImplementsTreasury, TreasuryImplementsVault, PTL DEF ImplementsTreasury

-----------------------------------------------------------------------------
(* Type correctness.                                                       *)

LEMMA InitDecTypeOK == DecInit => DecTypeOK
  BY InitTypeOK
  DEF DecInit, DecTypeOK, Registry!RegInit, Registry!RegTypeOK

LEMMA NextDecTypeOK == DecTypeOK /\ [DecNext]_decVars => DecTypeOK'
  <1> SUFFICES ASSUME DecTypeOK, [DecNext]_decVars
               PROVE  DecTypeOK'
    OBVIOUS
  <1>1. TypeOK'
    BY DecStepIsStep, NextTypeOK DEF DecTypeOK
  <1>2. CASE UNCHANGED <<config, enclaves, lastNonce, adapters, accepted>>
    BY <1>1, <1>2 DEF DecTypeOK, Registry!RegTypeOK
  <1>3. CASE Registry!RegNext /\ UNCHANGED <<lastNonce, adapters, accepted>>
    BY <1>1, <1>3, RegistryTypeOK DEF DecTypeOK
  <1>4. ASSUME NEW b \in Bindings, RegisterAdapter(b[1], b[2])
        PROVE  DecTypeOK'
    <2>1. b[1] \in Protocols /\ b[2] \in Adapters
      BY DecisionAssumption
    <2>2. QED  BY <1>1, <1>4, <2>1 DEF RegisterAdapter, DecTypeOK, Registry!RegTypeOK
  <1>5. ASSUME NEW t \in Treasuries, NEW cap \in Treasuries, NEW e \in enclaves,
               NEW key \in Keys, NEW a \in Adapters, NEW intent \in Intents,
               VerifiedSupply(t, cap, e, key, intent, a)
        PROVE  DecTypeOK'
    <2>1. intent \in IntentType /\ intent.treasury = t
      BY <1>5, VerifiedSupplyIsSupply
    <2>2. lastNonce' \in [Treasuries -> Nat]
      BY <1>5, <2>1 DEF VerifiedSupply, ConsumeNonce, DecTypeOK, IntentType
    <2> DEFINE acceptance == [nonce |-> intent.nonce, signedBy |-> ImageOf[key],
                              pinned |-> config.image,
                              current |-> e.version = config.version]
    <2>3. acceptance \in Acceptance
      BY <2>1, DecisionAssumption DEF Acceptance, IntentType, DecTypeOK, Registry!RegTypeOK
    <2>4. accepted' = [accepted EXCEPT ![t] = Append(@, acceptance)]
      BY <1>5 DEF VerifiedSupply
    <2> HIDE DEF acceptance
    <2>5. accepted' \in [Treasuries -> Seq(Acceptance)]
      BY <2>3, <2>4 DEF DecTypeOK
    <2>6. UNCHANGED <<config, enclaves, adapters>>
      BY <1>5 DEF VerifiedSupply
    <2>7. QED  BY <1>1, <2>2, <2>5, <2>6 DEF DecTypeOK, Registry!RegTypeOK
  <1>6. CASE UNCHANGED decVars
    BY <1>2, <1>6 DEF decVars
  <1>7. QED  BY <1>2, <1>3, <1>4, <1>5, <1>6 DEF DecNext

\* Every variable of the attested system keeps its type.
THEOREM DecTypeCorrect == DecSpec => []DecTypeOK
  BY InitDecTypeOK, NextDecTypeOK, PTL DEF DecSpec

-----------------------------------------------------------------------------
(* Nonces and attestation.  OneReleasePerNonce is not inductive: it does   *)
(* not say that the registry remembers the last nonce it accepted.  The    *)
(* attestation property rests on CurrentObjectsAttested.                   *)

ReleaseInv ==
    /\ DecTypeOK
    /\ Registry!ObjectsOfPinnedImage
    /\ OneReleasePerNonce
    /\ \A t \in Treasuries : \A i \in DOMAIN accepted[t] :
          accepted[t][i].nonce <= lastNonce[t]
    /\ CurrentReleasesAttested

LEMMA InitReleaseInv == DecInit => ReleaseInv
  <1> SUFFICES ASSUME DecInit
               PROVE  ReleaseInv
    OBVIOUS
  <1>1. DecTypeOK /\ Registry!ObjectsOfPinnedImage
    BY InitDecTypeOK DEF DecInit, Registry!RegInit, Registry!ObjectsOfPinnedImage
  <1>2. \A t \in Treasuries : accepted[t] = <<>> /\ spend[t].log = <<>>
    BY DEF DecInit, Init
  <1>3. \A t \in Treasuries : /\ Len(accepted[t]) = Len(spend[t].log)
                              /\ DOMAIN accepted[t] = {}
    BY <1>2
  <1>4. OneReleasePerNonce
    BY <1>3 DEF OneReleasePerNonce
  <1>5. ASSUME NEW t \in Treasuries, NEW i \in DOMAIN accepted[t]
        PROVE  FALSE
    BY <1>3
  <1>6. QED  BY <1>1, <1>4, <1>5 DEF ReleaseInv, CurrentReleasesAttested

LEMMA OwnerKeepsSpend == Tick \/ OwnerNext \/ HolderNext => spend' = spend
  <1>1. Tick => spend' = spend
    BY DEF Tick
  <1>2. ASSUME NEW t, NEW owner, NEW amount
        PROVE  /\ \A bounds : Create(t, bounds, amount) => spend' = spend
               /\ Deposit(t, amount) => spend' = spend
               /\ WithdrawPrincipal(t, owner, amount) => spend' = spend
               /\ Revoke(t, owner) => spend' = spend
    BY DEF Create, Deposit, WithdrawPrincipal, Revoke
  <1>3. ASSUME NEW t, NEW owner, NEW p
        PROVE  /\ OwnerTakeReceipt(t, owner, p) => spend' = spend
               /\ \A receipt : OwnerRecustody(t, owner, p, receipt) => spend' = spend
    BY DEF OwnerTakeReceipt, OwnerRecustody
  <1>4. ASSUME NEW t, NEW owner, NEW a, NEW amount
        PROVE  OwnerRedeem(t, owner, a, amount) => spend' = spend
    BY Zenon DEF OwnerRedeem
  <1>5. HolderNext => spend' = spend
    BY DEF HolderNext, OpenPosition, HolderTrades
  <1>6. QED  BY <1>1, <1>2, <1>3, <1>4, <1>5 DEF OwnerNext

\* Steps that accept nothing.
LEMMA ReleaseFrame ==
  ASSUME ReleaseInv, DecTypeOK', Registry!ObjectsOfPinnedImage',
         UNCHANGED <<spend, lastNonce, accepted>>
  PROVE  ReleaseInv'
  BY DEF ReleaseInv, OneReleasePerNonce, CurrentReleasesAttested

LEMMA SupplyReleaseInv ==
  ASSUME ReleaseInv, DecTypeOK', NEW t \in Treasuries, NEW cap \in Treasuries,
         NEW e \in enclaves, NEW key \in Keys, NEW a \in Adapters,
         NEW intent \in Intents, VerifiedSupply(t, cap, e, key, intent, a)
  PROVE  ReleaseInv'
  <1> DEFINE acceptance == [nonce |-> intent.nonce, signedBy |-> ImageOf[key],
                            pinned |-> config.image,
                            current |-> e.version = config.version]
  <1>1. /\ intent \in IntentType /\ intent.treasury = t /\ intent.amount \in Nat
        /\ ReleaseWithTicket(t, cap, intent.amount)
    BY VerifiedSupplyIsSupply DEF IntentType, SupplyThroughAdapter
  <1>2. /\ accepted \in [Treasuries -> Seq(Acceptance)]
        /\ lastNonce \in [Treasuries -> Nat] /\ TypeOK
    BY DEF ReleaseInv, DecTypeOK
  <1>3. /\ intent.nonce > lastNonce[t] /\ intent.nonce \in Nat
        /\ lastNonce' = [lastNonce EXCEPT ![t] = intent.nonce]
        /\ accepted' = [accepted EXCEPT ![t] = Append(@, acceptance)]
        /\ UNCHANGED <<config, enclaves>>
    BY <1>1 DEF VerifiedSupply, ConsumeNonce, IntentType
  <1>4. acceptance.nonce = intent.nonce
    OBVIOUS
  <1>5. acceptance.current => acceptance.signedBy = acceptance.pinned
    <2>1. e.key = key
      BY DEF VerifiedSupply, Registry!VerifySignature
    <2>2. e.version = config.version => ImageOf[key] = config.image
      BY <2>1 DEF ReleaseInv, Registry!ObjectsOfPinnedImage
    <2>3. QED  BY <2>2
  <1> HIDE DEF acceptance
  <1>6. Len(spend'[t].log) = Len(spend[t].log) + 1
    <2>1. spend'[t].log = Append(spend[t].log, [amount |-> intent.amount, at |-> now])
      BY <1>1, <1>2, ReleaseEffect
    <2>2. spend[t].log \in Seq(Release)
      BY <1>2 DEF TypeOK, Spending
    <2>3. QED  BY <2>1, <2>2
  <1>7. \A u \in Treasuries \ {t} : spend'[u] = spend[u]
    BY <1>1, <1>2, ReleaseEffect
  <1>8. /\ accepted'[t] = Append(accepted[t], acceptance)
        /\ lastNonce'[t] = intent.nonce
        /\ \A u \in Treasuries \ {t} : accepted'[u] = accepted[u] /\ lastNonce'[u] = lastNonce[u]
    BY <1>2, <1>3
  <1> DEFINE old == accepted[t]
             grown == accepted'[t]
  <1>9. /\ old \in Seq(Acceptance) /\ Len(old) \in Nat /\ DOMAIN old = 1..Len(old)
        /\ Len(grown) = Len(old) + 1 /\ DOMAIN grown = 1..(Len(old) + 1)
        /\ \A i \in 1..Len(old) : grown[i] = old[i]
        /\ grown[Len(old) + 1] = acceptance
    BY <1>2, <1>8
  <1>10. \A i \in DOMAIN old : old[i].nonce \in Nat /\ old[i].nonce < intent.nonce
    <2>1. ASSUME NEW i \in DOMAIN old
          PROVE  old[i].nonce \in Nat /\ old[i].nonce < intent.nonce
      <3>1. old[i].nonce \in Nat
        <4>1. old[i] \in Acceptance
          BY <1>9
        <4>2. QED  BY <4>1 DEF Acceptance
      <3>2. old[i].nonce <= lastNonce[t]
        BY DEF ReleaseInv
      <3>3. QED  BY <1>2, <1>3, <3>1, <3>2
    <2>2. QED  BY <2>1
  <1>11. OneReleasePerNonce'
    <2>1. Len(old) = Len(spend[t].log)
          /\ \A i, j \in DOMAIN old : i < j => old[i].nonce < old[j].nonce
      BY DEF ReleaseInv, OneReleasePerNonce
    <2>2. Len(grown) = Len(spend'[t].log)
      BY <1>6, <1>9, <2>1
    <2>3. ASSUME NEW i \in DOMAIN grown, NEW j \in DOMAIN grown, i < j
          PROVE  grown[i].nonce < grown[j].nonce
      <3>1. i \in DOMAIN old /\ grown[i] = old[i]
        BY <1>9, <2>3
      <3>2. CASE j = Len(old) + 1
        BY <1>4, <1>9, <1>10, <3>1, <3>2
      <3>3. CASE j \in DOMAIN old
        BY <1>9, <2>1, <2>3, <3>1, <3>3
      <3>4. QED  BY <1>9, <3>2, <3>3
    <2>4. ASSUME NEW u \in Treasuries \ {t}
          PROVE  /\ Len(accepted'[u]) = Len(spend'[u].log)
                 /\ \A i, j \in DOMAIN accepted'[u] :
                       i < j => accepted'[u][i].nonce < accepted'[u][j].nonce
      BY <1>7, <1>8 DEF ReleaseInv, OneReleasePerNonce
    <2>5. QED  BY <2>2, <2>3, <2>4 DEF OneReleasePerNonce
  <1>12. \A u \in Treasuries : \A i \in DOMAIN accepted'[u] :
            accepted'[u][i].nonce <= lastNonce'[u]
    <2>1. ASSUME NEW i \in DOMAIN grown
          PROVE  grown[i].nonce <= lastNonce'[t]
      BY <1>3, <1>4, <1>8, <1>9, <1>10
    <2>2. \A u \in Treasuries \ {t} : \A i \in DOMAIN accepted'[u] :
             accepted'[u][i].nonce <= lastNonce'[u]
      BY <1>8 DEF ReleaseInv
    <2>3. QED  BY <2>1, <2>2
  <1>13. CurrentReleasesAttested'
    <2>1. ASSUME NEW i \in DOMAIN grown
          PROVE  grown[i].current => grown[i].signedBy = grown[i].pinned
      BY <1>5, <1>9 DEF ReleaseInv, CurrentReleasesAttested
    <2>2. QED  BY <1>8, <2>1 DEF ReleaseInv, CurrentReleasesAttested
  <1>14. Registry!ObjectsOfPinnedImage'
    BY <1>3 DEF ReleaseInv, Registry!ObjectsOfPinnedImage
  <1>15. QED  BY <1>11, <1>12, <1>13, <1>14 DEF ReleaseInv

LEMMA NextReleaseInv == ReleaseInv /\ [DecNext]_decVars => ReleaseInv'
  <1> SUFFICES ASSUME ReleaseInv, [DecNext]_decVars
               PROVE  ReleaseInv'
    OBVIOUS
  <1>1. DecTypeOK'
    BY NextDecTypeOK DEF ReleaseInv
  <1>2. CASE UNCHANGED <<spend, config, enclaves, lastNonce, accepted>>
    BY <1>1, <1>2, ReleaseFrame DEF ReleaseInv, Registry!ObjectsOfPinnedImage
  <1>3. CASE Registry!RegNext /\ UNCHANGED <<vars, lastNonce, adapters, accepted>>
    BY <1>1, <1>3, ReleaseFrame, RegistryAttested DEF ReleaseInv, DecTypeOK, vars
  <1>4. CASE (Tick \/ OwnerNext \/ HolderNext)
             /\ UNCHANGED <<config, enclaves, lastNonce, adapters, accepted>>
    BY <1>2, <1>4, OwnerKeepsSpend
  <1>5. CASE \E b \in Bindings : RegisterAdapter(b[1], b[2])
    BY <1>2, <1>5 DEF RegisterAdapter, vars
  <1>6. CASE UNCHANGED decVars
    BY <1>2, <1>6 DEF decVars, vars
  <1>7. QED  BY <1>1, <1>3, <1>4, <1>5, <1>6, SupplyReleaseInv DEF DecNext

\* However often and in whatever order signed intents are delivered, each
\* release consumed a nonce above every nonce before it.
THEOREM NoReplay == DecSpec => []OneReleasePerNonce
  <1>1. ReleaseInv => OneReleasePerNonce
    BY DEF ReleaseInv
  <1>2. QED  BY InitReleaseInv, NextReleaseInv, <1>1, PTL DEF DecSpec

\* A release under an Enclave object of the current version was signed by the
\* image pinned at that moment.
THEOREM ReleasesAttested == DecSpec => []CurrentReleasesAttested
  <1>1. ReleaseInv => CurrentReleasesAttested
    BY DEF ReleaseInv
  <1>2. QED  BY InitReleaseInv, NextReleaseInv, <1>1, PTL DEF DecSpec

\* However registrations, PCR updates and deletions follow each other, an
\* Enclave object of the current version holds a key of the image pinned now.
THEOREM ObjectsAttested == DecSpec => []CurrentObjectsAttested
  <1>1. ReleaseInv => CurrentObjectsAttested
    BY DEF ReleaseInv, CurrentObjectsAttested
  <1>2. QED  BY InitReleaseInv, NextReleaseInv, <1>1, PTL DEF DecSpec
=============================================================================
