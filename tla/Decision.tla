------------------------------ MODULE Decision ------------------------------
(***************************************************************************)
(* decision.move on top of the treasury: a release happens only in         *)
(* verified_release, which checks the enclave signature, the intent's      *)
(* bindings, the adapter allowlist and the nonce, and then asks the        *)
(* treasury for the bounded release.  The adapter's entry function calls   *)
(* it and custodies the receipt in the same transaction, so one action is  *)
(* the whole transaction.                                                  *)
(*                                                                         *)
(* The /decide service signs whatever request it is given, and a signed    *)
(* intent can be submitted by whoever holds the AgentCap at any time, in   *)
(* any order, any number of times.  No set of messages is kept for that:   *)
(* every intent of Intents may be presented with a signature of any key at *)
(* any moment, which includes every late, repeated or reordered delivery.  *)
(***************************************************************************)
EXTENDS Treasury

CONSTANTS
    Images, Keys, ImageOf, MaxVersion,   \* see EnclaveRegistry
    Intents,      \* ActionIntents that get signed
    Bindings,     \* (protocol, adapter) pairs the deployer registers
    NoAdapter     \* protocol_id absent from the adapters table

ActionSupply == 0

IntentType ==
    [treasury : Treasuries, agentCap : Treasuries, nonce : Nat, expiresAt : Nat,
     kind : Nat, protocol : Protocols, amount : Nat]

ASSUME DecisionAssumption ==
    /\ Intents \subseteq IntentType
    /\ {i.amount : i \in Intents} \subseteq Amounts
    /\ Bindings \subseteq Protocols \X Adapters
    /\ NoAdapter \notin Adapters
    /\ ImageOf \in [Keys -> Images] /\ MaxVersion \in Nat

VARIABLES
    config, enclaves,   \* EnclaveRegistry
    lastNonce,          \* DecisionRegistry.last_nonce; 0 when it has no entry
    adapters,           \* DecisionRegistry.adapters
    accepted            \* history: the intents each treasury released under

Registry == INSTANCE EnclaveRegistry

decVars == <<vars, config, enclaves, lastNonce, adapters, accepted>>

\* What was accepted: the nonce, the image whose key signed, the image pinned
\* at that moment, and whether the Enclave object was of the current version.
Acceptance == [nonce : Nat, signedBy : Images, pinned : Images, current : BOOLEAN]

DecTypeOK ==
    /\ TypeOK
    /\ Registry!RegTypeOK
    /\ lastNonce \in [Treasuries -> Nat]
    /\ adapters \in [Protocols -> Adapters \cup {NoAdapter}]
    /\ accepted \in [Treasuries -> Seq(Acceptance)]

DecInit ==
    /\ Init
    /\ Registry!RegInit
    /\ lastNonce = [t \in Treasuries |-> 0]
    /\ adapters = [p \in Protocols |-> NoAdapter]
    /\ accepted = [t \in Treasuries |-> <<>>]

-----------------------------------------------------------------------------

\* Re-registering overwrites.
RegisterAdapter(p, a) ==
    /\ adapters' = [adapters EXCEPT ![p] = a]
    /\ UNCHANGED <<vars, config, enclaves, lastNonce, accepted>>

AssertIntentValid(intent, t, cap) ==
    /\ intent.treasury = t
    /\ intent.agentCap = cap
    /\ intent.expiresAt >= now
    /\ intent.kind = ActionSupply

\* Mutant: the last nonce is accepted again.
ConsumeNonceAgain(t, nonce) ==
    /\ nonce >= lastNonce[t]
    /\ lastNonce' = [lastNonce EXCEPT ![t] = nonce]

\* A missing table entry and a last nonce of 0 both ask for a nonce above 0.
ConsumeNonce(t, nonce) ==
    /\ nonce > lastNonce[t]
    /\ lastNonce' = [lastNonce EXCEPT ![t] = nonce]

\* Mutant: the coin is split off without release_with_ticket's bounds.
UnboundedSupply(t, cap, e, key, intent, a) ==
    /\ Registry!VerifySignature(e, key)
    /\ AssertIntentValid(intent, t, cap)
    /\ adapters[intent.protocol] = a
    /\ ConsumeNonce(intent.treasury, intent.nonce)
    /\ t \in created /\ intent.amount <= treasury[t].funds
    /\ treasury' = [treasury EXCEPT ![t].funds = @ - intent.amount]
    /\ DischargeTicket(t, a, intent.protocol, intent.amount)
    /\ UNCHANGED <<now, created, terms, loose, brought, hist, spend, config,
                   enclaves, adapters, accepted>>

\* verified_supply_*_entry of adapter a.
VerifiedSupply(t, cap, e, key, intent, a) ==
    /\ Registry!VerifySignature(e, key)
    /\ AssertIntentValid(intent, t, cap)
    /\ adapters[intent.protocol] = a
    /\ ConsumeNonce(intent.treasury, intent.nonce)
    /\ SupplyThroughAdapter(t, cap, a, intent.protocol, intent.amount)
    /\ accepted' = [accepted EXCEPT ![t] = Append(@,
                      [nonce |-> intent.nonce, signedBy |-> ImageOf[key],
                       pinned |-> config.image,
                       current |-> e.version = config.version])]
    /\ UNCHANGED <<config, enclaves, adapters>>

DecNext ==
    \/ /\ Tick \/ OwnerNext \/ HolderNext
       /\ UNCHANGED <<config, enclaves, lastNonce, adapters, accepted>>
    \/ /\ Registry!RegNext
       /\ UNCHANGED <<vars, lastNonce, adapters, accepted>>
    \/ \E b \in Bindings : RegisterAdapter(b[1], b[2])
    \/ \E t, cap \in Treasuries, e \in enclaves, key \in Keys, a \in Adapters,
          intent \in Intents :
             VerifiedSupply(t, cap, e, key, intent, a)

DecSpec == DecInit /\ [][DecNext]_decVars

-----------------------------------------------------------------------------
(* Properties.                                                             *)

\* One signature, one release: the nonces a treasury accepted are strictly
\* increasing, so an intent delivered twice, or after a later one, releases
\* nothing (consume_nonce), and no release goes without consuming one.
OneReleasePerNonce ==
    \A t \in Treasuries :
       /\ Len(accepted[t]) = Len(spend[t].log)
       /\ \A i, j \in DOMAIN accepted[t] :
             i < j => accepted[t][i].nonce < accepted[t][j].nonce

\* No Enclave object claims a version the config has not reached, and one of the
\* current version holds a key of the image pinned now: attestation under one
\* pinning never passes for another (register_enclave, update_pcrs).
CurrentObjectsAttested == Registry!ObjectsOfPinnedImage

\* A signature accepted under an Enclave object of the current version comes
\* from the image pinned at that moment (register_enclave's PCR check).
CurrentReleasesAttested ==
    \A t \in Treasuries : \A i \in DOMAIN accepted[t] :
       accepted[t][i].current => accepted[t][i].signedBy = accepted[t][i].pinned

\* The attested release path stays within what the treasury alone promises.
ImplementsTreasury == Spec
=============================================================================
