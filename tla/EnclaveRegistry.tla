--------------------------- MODULE EnclaveRegistry ---------------------------
(***************************************************************************)
(* enclave.move: the EnclaveConfig that pins the expected measurements     *)
(* (PCRs) and the Enclave objects that bind an attested key to the config  *)
(* version it was attested under.  An image stands for the four PCR values *)
(* a build measures to; a key for the secp256k1 key one boot of an image   *)
(* generates, so a key belongs to one image.                               *)
(*                                                                         *)
(* An Enclave object is named by its key and version: registering the same *)
(* attestation twice under one version adds nothing.  Its owner, who may   *)
(* delete it at any time, is whoever registered it.                        *)
(***************************************************************************)
EXTENDS Naturals

CONSTANTS
    Images,      \* measurable builds
    Keys,        \* one per boot
    ImageOf,     \* [Keys -> Images]: what the attestation document says
    MaxVersion   \* bound: updates of the config

VARIABLES config, enclaves

regVars == <<config, enclaves>>

EnclaveObject == [key : Keys, version : Nat]

RegTypeOK ==
    /\ config \in [image : Images, version : Nat]
    /\ enclaves \subseteq EnclaveObject

\* create_enclave_config, run once by the deployer.
RegInit ==
    /\ config \in [image : Images, version : {0}]
    /\ enclaves = {}

\* Permissionless: anyone with an attestation document of the pinned image.
RegisterEnclave(key) ==
    /\ ImageOf[key] = config.image
    /\ enclaves' = enclaves \cup {[key |-> key, version |-> config.version]}
    /\ UNCHANGED config

\* Mutant: the version stays.
RepinInPlace(image) ==
    /\ config.version < MaxVersion
    /\ config' = [config EXCEPT !.image = image]
    /\ UNCHANGED enclaves

\* update_pcrs, with the deployer's Cap; the new PCRs may be any.
UpdatePcrs(image) ==
    /\ config.version < MaxVersion
    /\ config' = [image |-> image, version |-> config.version + 1]
    /\ UNCHANGED enclaves

\* Anyone may delete an object of an earlier version.
DestroyOldEnclave(e) ==
    /\ e.version < config.version
    /\ enclaves' = enclaves \ {e}
    /\ UNCHANGED config

\* The registrant may delete an object of any version.
DeployOldEnclaveByOwner(e) ==
    /\ enclaves' = enclaves \ {e}
    /\ UNCHANGED config

\* Mutant: any signature verifies.
AnySignature(e, signer) == TRUE

\* The signature is checked against the object's key and nothing else.
VerifySignature(e, signer) == e.key = signer

RegNext ==
    \/ \E key \in Keys : RegisterEnclave(key)
    \/ \E image \in Images : UpdatePcrs(image)
    \/ \E e \in enclaves : DestroyOldEnclave(e)
    \/ \E e \in enclaves : DeployOldEnclaveByOwner(e)

-----------------------------------------------------------------------------

\* Every object was attested under a version pinned before now, and those of the
\* current version under the image pinned now.
ObjectsOfPinnedImage ==
    \A e \in enclaves :
       /\ e.version <= config.version
       /\ e.version = config.version => ImageOf[e.key] = config.image
=============================================================================
