------------------------------ MODULE Deployment ------------------------------
(***************************************************************************)
(* The contracts as BaseDeployScript.sol deploys them: one key registry    *)
(* and one Verifier, each behind a proxy and with an owner of its own, and *)
(* one account's EmailAuth that asks them.  A call from one contract into  *)
(* another is part of the caller's transaction, and every transaction is   *)
(* one step of one contract: nothing is done to two of them at once, so    *)
(* their owners give up one after the other (RenounceOwners.s.sol for the  *)
(* Verifier and the registry, the account's owner for the EmailAuth).      *)
(***************************************************************************)
EXTENDS ECDSAOwnedDKIMRegistry, Sequences

CONSTANTS
    Space, Shown(_, _, _), Decodable(_, _),            \* of CommandUtils
    Users,                                             \* owners and controllers of the EmailAuth
    Registries, DkimRegistry,                          \* the registries it may be given; the deployed one
    Verifier,                                          \* the deployed Verifier
    Groth16Verifiers,
    Proves,                                            \* Proves[g]: the proofs Groth16 verifier g accepts
    Salts, NoSalt, TemplateIds, Templates, Nullifiers, Timestamps, Msgs, CommandBytes

ASSUME DeploymentAssumption == NoAddr \notin Users /\ DkimRegistry \in Registries

VARIABLES
    verifierOwner, verifierInitialized, verifierImplementation, groth16Verifier,
    authOwner, authInitialized, authImplementation, accountSalt, dkim, verifier, controller,
    commandTemplates, lastTimestamp, usedNullifiers, timestampCheckEnabled, authed,
    fallen         \* history: the hashes that a call of revokeDKIMPublicKeyHash revoked

registryVars == vars
verifierVars == <<verifierOwner, verifierInitialized, verifierImplementation, groth16Verifier>>
authVars ==
    << authOwner, authInitialized, authImplementation, accountSalt, dkim, verifier, controller,
       commandTemplates, lastTimestamp, usedNullifiers, timestampCheckEnabled, authed >>
allVars == <<registryVars, verifierVars, authVars, fallen>>

Keys == Domains \X Hashes

\* A registry other than the deployed one may say anything: here it calls every
\* key valid.
KeysOf(r) ==
    IF r = DkimRegistry THEN {key \in Keys : isDKIMPublicKeyHashValid(key[1], key[2])} ELSE Keys

\* verifyEmailProof ends with the Groth16 verifier's answer; there is none before
\* the Verifier has one.
ProofsAccepted == IF groth16Verifier = NoAddr THEN {} ELSE Proves[groth16Verifier]

VerifierAdmin ==
    INSTANCE Verifier WITH
        owner <- verifierOwner,
        initialized <- verifierInitialized,
        implementation <- verifierImplementation

Auth ==
    INSTANCE EmailAuth WITH
        Accounts <- Users,
        Verifiers <- {Verifier},
        ProofSets <- {Proves[g] : g \in Groth16Verifiers} \union {{}},
        owner <- authOwner,
        initialized <- authInitialized,
        implementation <- authImplementation,
        registered <- [r \in Registries |-> KeysOf(r)],
        accepts <- [v \in {Verifier} |-> ProofsAccepted]

DeploymentInit ==
    /\ Init
    /\ VerifierAdmin!Init
    /\ Auth!Init
    /\ fallen = {}

RegistryStep ==
    /\ Next
    /\ fallen' = fallen \union
           {h \in Hashes : \E s \in Selectors, d \in Domains : revokeDKIMPublicKeyHash(s, d, h)}
    /\ UNCHANGED <<verifierVars, authVars>>

VerifierStep ==
    /\ VerifierAdmin!Next
    /\ UNCHANGED <<registryVars, authVars, fallen>>

AuthStep ==
    /\ UNCHANGED <<registryVars, verifierVars, fallen>>
    /\ \/ Auth!ByAnyone
       \/ \E sender \in Users : Auth!ByOwner(sender) \/ Auth!ByController(sender)

DeploymentNext == RegistryStep \/ VerifierStep \/ AuthStep

DeploymentSpec == DeploymentInit /\ [][DeploymentNext]_allVars

-------------------------------------------------------------------------------

\* Across the contracts, revocation is final: from the moment a hash is revoked for
\* a domain, authEmail (EmailAuth.sol:193) lets no email through that is proven with
\* it, for this or another domain, as long as the account asks the
\* deployed registry: neither a SET signature presented again nor a new one, nor a
\* new signer or owner of the registry, nor a new Groth16 verifier brings it back.
RevokedNeverAuthorizes ==
    [][ Len(authed') > Len(authed) /\ dkim = DkimRegistry =>
            authed'[Len(authed')].key[2] \notin fallen ]_allVars

Renounced ==
    /\ initialized /\ owner = NoAddr
    /\ verifierInitialized /\ verifierOwner = NoAddr
    /\ authInitialized /\ authOwner = NoAddr

\* When all three owners are gone, however their renunciations were interleaved
\* with the other calls (RenounceOwners.s.sol:22-27 sends one transaction for the
\* Verifier and one for each registry), nothing that decides over the account's emails can be replaced any
\* more: not the registry or verifier it asks, the account that vouches for keys,
\* the Groth16 verifier, or the code of a proxy.  What is left to change is the
\* keys, on the signer's word.
RenouncedDeploymentIsFixed ==
    [][ Renounced /\ dkim # NoAddr /\ verifier # NoAddr =>
            UNCHANGED <<admin, verifierVars, authOwner, authImplementation, accountSalt,
                        dkim, verifier, controller>> ]_allVars
===============================================================================
