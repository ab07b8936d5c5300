------------------------------ MODULE EmailSigner ------------------------------
(***************************************************************************)
(* The contracts EmailSigner.sol and EmailSignerFactory.sol beside the     *)
(* ECDSAOwnedDKIMRegistry they ask: emails used as ERC-1271 signatures.    *)
(*                                                                         *)
(* The factory clones the signer and initializes the clone in one          *)
(* transaction.  Anyone may also clone it elsewhere, and anyone may        *)
(* initialize a clone that is not.  Nothing is stored when a signature is  *)
(* checked, so verifyEmail and isValidSignature are operators on the       *)
(* state; the caller picks every part of the message but the proof.        *)
(***************************************************************************)
EXTENDS CommandUtils

CONSTANTS
    Accounts, Implementations, Selectors, Domains, Hashes,  \* of the registry
    NoAddr, NoSalt, NoTemplateId,  \* address(0), bytes32(0) and uint256(0)
    Salts,                \* account salts
    Predicted,            \* Predicted[s]: the CREATE2 address for salt s
    TemplateIdOf,         \* TemplateIdOf[s]: keccak256("EMAIL-SIGNER" and s)
    Elsewhere,            \* addresses of clones that are not the factory's
    dkimRegistry, verifier,  \* the factory's immutables
    Registries, Verifiers,   \* contracts that a clone may be initialized with
    ForeignKeys,          \* ForeignKeys[r]: what a registry other than dkimRegistry calls valid
    Accepts,              \* Accepts[v]: the proofs that verifier v accepts
    CommandBytes,         \* CommandBytes[v]: verifier v's commandBytes()
    TemplateIds,          \* the non-zero template ids
    Msgs                  \* the EmailAuthMsg values that may be presented

ASSUME FactoryAssumption ==
    /\ dkimRegistry \in Registries /\ verifier \in Verifiers
    /\ NoAddr \notin Registries /\ NoAddr \notin Verifiers
    /\ NoSalt \notin Salts /\ NoTemplateId \notin TemplateIds
    /\ NoAddr \notin Accounts \union Implementations  \* the registry's AddressAssumption

\* The two hashes do not collide.
ASSUME HashAssumption ==
    /\ DOMAIN Predicted = Salts
    /\ TemplateIdOf \in [Salts -> TemplateIds]
    /\ \A s, t \in Salts : s # t => Predicted[s] # Predicted[t] /\ TemplateIdOf[s] # TemplateIdOf[t]
    /\ \A s \in Salts : Predicted[s] \notin Elsewhere

\* A command is a sequence of tokens.  A uint is printed in decimal (Strings.toString):
\* different numbers differently, and none with the word of the template in it.
ASSUME CommandAssumption ==
    /\ CommandBytes \in [Verifiers -> Nat]
    /\ Space # "signHash"
    /\ \A msg \in Msgs :
           msg.skippedCommandPrefix \in Nat /\ msg.proof.maskedCommand \in Seq(STRING)
    /\ LET uints == { msg.commandParams[1] : msg \in
                         {m \in Msgs : /\ Len(m.commandParams) >= 1
                                       /\ Decodable("uint", m.commandParams[1])} }
       IN  \A p, q \in uints, c, d \in StringCases :
               /\ Shown("uint", p, c) \in Seq(STRING \ {"signHash"})
               /\ Shown("uint", p, c) = Shown("uint", q, d) => p.word = q.word

VARIABLES
    code,      \* the addresses that hold a clone
    storage,   \* storage[a]: what the clone at a stores
    events,    \* the EmailSignerDeployed events
    owner, initialized, implementation, signer, dkimPublicKeyHashes,
    revokedDKIMPublicKeyHashes, signatures, everSet

Registry == INSTANCE ECDSAOwnedDKIMRegistry

signerVars == <<code, storage, events>>
registryVars == <<owner, initialized, implementation, signer, dkimPublicKeyHashes,
                  revokedDKIMPublicKeyHashes, signatures, everSet>>
vars == <<signerVars, registryVars>>

predictAddress(accountSalt) == Predicted[accountSalt]

FactoryAddresses == {predictAddress(accountSalt) : accountSalt \in Salts}
Addresses == FactoryAddresses \union Elsewhere

Blank == [ isInitialized |-> FALSE, accountSalt |-> NoSalt, dkimRegistryAddr |-> NoAddr,
           verifierAddr |-> NoAddr, templateId |-> NoTemplateId ]

\* Mutation: the two addresses are swapped.
AddressesSwapped(accountSalt, registryAddr, verifierAddr, templateId) ==
    [ isInitialized |-> TRUE, accountSalt |-> accountSalt, dkimRegistryAddr |-> verifierAddr,
      verifierAddr |-> registryAddr, templateId |-> templateId ]

Initialized(accountSalt, registryAddr, verifierAddr, templateId) ==
    [ isInitialized |-> TRUE, accountSalt |-> accountSalt, dkimRegistryAddr |-> registryAddr,
      verifierAddr |-> verifierAddr, templateId |-> templateId ]

Init ==
    /\ code = {}
    /\ storage = [a \in Addresses |-> Blank]
    /\ events = {}
    /\ Registry!Init

-------------------------------------------------------------------------------
\* The clones

\* EmailSigner.initialize, called by anyone on a clone that is not initialized.
initialize(a, accountSalt, registryAddr, verifierAddr, templateId) ==
    /\ a \in code
    /\ ~storage[a].isInitialized
    /\ accountSalt # NoSalt
    /\ templateId # NoTemplateId
    /\ registryAddr # NoAddr
    /\ verifierAddr # NoAddr
    /\ storage' = [storage EXCEPT ![a] =
                      Initialized(accountSalt, registryAddr, verifierAddr, templateId)]
    /\ UNCHANGED <<code, events, registryVars>>

\* The event's second argument is the hash of the salt.
EmailSignerDeployed(accountSalt) == <<predictAddress(accountSalt), <<"keccak256", accountSalt>> >>

\* Mutation: the clone is left for a second transaction to initialize.
DeployOnly(accountSalt) ==
    LET clone == predictAddress(accountSalt) IN
    /\ accountSalt # NoSalt
    /\ clone \notin code
    /\ code' = code \union {clone}
    /\ events' = events \union {EmailSignerDeployed(accountSalt)}
    /\ UNCHANGED <<storage, registryVars>>

\* EmailSignerFactory.deploy: CREATE2 reverts on an address that holds code, and a
\* revert of initialize undoes the clone.
deploy(accountSalt) ==
    LET clone == predictAddress(accountSalt) IN
    /\ accountSalt # NoSalt
    /\ clone \notin code
    /\ code' = code \union {clone}
    /\ storage' = [storage EXCEPT ![clone] =
                      Initialized(accountSalt, dkimRegistry, verifier, TemplateIdOf[accountSalt])]
    /\ events' = events \union {EmailSignerDeployed(accountSalt)}
    /\ UNCHANGED registryVars

\* Someone clones the implementation without the factory.
CloneElsewhere(a) ==
    /\ a \in Elsewhere \ code
    /\ code' = code \union {a}
    /\ UNCHANGED <<storage, events, registryVars>>

SignersNext ==
    \/ \E accountSalt \in Salts \union {NoSalt} : deploy(accountSalt)
    \/ \E a \in Elsewhere : CloneElsewhere(a)
    \/ \E a \in Addresses, accountSalt \in Salts \union {NoSalt},
          registryAddr \in Registries \union {NoAddr}, verifierAddr \in Verifiers \union {NoAddr},
          templateId \in TemplateIds \union {NoTemplateId} :
              initialize(a, accountSalt, registryAddr, verifierAddr, templateId)

Next ==
    \/ SignersNext
    \/ Registry!Next /\ UNCHANGED signerVars

Spec == Init /\ [][Next]_vars

-------------------------------------------------------------------------------
\* Checking a signature

KeyValid(registryAddr, proof) ==
    IF registryAddr = dkimRegistry
    THEN Registry!isDKIMPublicKeyHashValid(proof.domainName, proof.publicKeyHash)
    ELSE <<proof.domainName, proof.publicKeyHash>> \in ForeignKeys[registryAddr]

\* Mutation: the account of the proof is not looked at.
AnyAccount(a, proof) == TRUE

AccountMatches(a, proof) == storage[a].accountSalt = proof.accountSalt

signHashTemplate == <<[kind |-> "literal", text |-> <<"signHash">>], [kind |-> "uint"]>>

CommandMatches(commandBytes, msg) ==
    LET masked  == msg.proof.maskedCommand
        skipped == msg.skippedCommandPrefix
    IN  /\ Len(masked) <= commandBytes
        /\ skipped < commandBytes
        /\ skipped <= Len(masked)
        /\ IsExpectedCommand(removePrefix(masked, skipped), msg.commandParams, signHashTemplate)

\* The call does not revert; on a blank clone it does, as it calls address(0).
verifyEmail(a, msg) ==
    LET self == storage[a] IN
    /\ a \in code
    /\ self.isInitialized
    /\ self.templateId = msg.templateId
    /\ KeyValid(self.dkimRegistryAddr, msg.proof)
    /\ AccountMatches(a, msg.proof)
    /\ CommandMatches(CommandBytes[self.verifierAddr], msg)
    /\ msg.proof \in Accepts[self.verifierAddr]

\* Mutation: the last parameter is compared, and the command prints the first.
LastParam(msg) == msg.commandParams[Len(msg.commandParams)].word

signedHash(msg) == msg.commandParams[1].word

\* "magic" stands for MAGIC_VALUE, or LEGACY_MAGIC_VALUE when the caller passes the
\* data whose hash this is.
isValidSignature(a, hash, msg) ==
    IF ~verifyEmail(a, msg) THEN "reverts"
    ELSE IF signedHash(msg) = hash THEN "magic" ELSE "0"

-------------------------------------------------------------------------------
\* Properties

Store == [ isInitialized : BOOLEAN, accountSalt : Salts \union {NoSalt},
           dkimRegistryAddr : Registries \union {NoAddr},
           verifierAddr : Verifiers \union {NoAddr}, templateId : TemplateIds \union {NoTemplateId} ]

TypeOK ==
    /\ code \subseteq Addresses
    /\ storage \in [Addresses -> Store]
    /\ events \subseteq {EmailSignerDeployed(accountSalt) : accountSalt \in Salts}
    /\ Registry!TypeOK

\* What a caller of predictAddress counts on (EmailSignerFactory.sol:74): whoever calls
\* deploy or initialize, and in whatever order, the clone at the predicted address is
\* the account's, asks the factory's registry and verifier, and was announced.
FactorySignersAreBound ==
    \A accountSalt \in Salts :
        LET a == predictAddress(accountSalt) IN
        IF a \in code
        THEN /\ storage[a] = Initialized(accountSalt, dkimRegistry, verifier, TemplateIdOf[accountSalt])
             /\ EmailSignerDeployed(accountSalt) \in events
        ELSE /\ ~storage[a].isInitialized
             /\ EmailSignerDeployed(accountSalt) \notin events

\* The signer of the factory and the message that is its signature of the hash it names.
Accepted == {am \in FactoryAddresses \X Msgs :
                isValidSignature(am[1], signedHash(am[2]), am[2]) = "magic"}

\* The message a caller builds around a proof has a template id, parameters and a
\* skipped prefix of the caller's choice (EmailSigner.sol:90).  Whatever they are, a
\* proof speaks for one signer of the factory ...
OneSignerPerProof ==
    \A x, y \in Accepted : x[2].proof = y[2].proof => x[1] = y[1]

\* ... and signs one hash.
OneHashPerProof ==
    \A x, y \in Accepted : x[2].proof = y[2].proof => signedHash(x[2]) = signedHash(y[2])

\* A signature is checked again at each use, so revoking the key ends it: a message
\* proven with a key that was valid and is not any more is never accepted again by a
\* signer of the factory.
RevokedIsNeverAccepted ==
    [][ \A key \in everSet :
            ~Registry!isDKIMPublicKeyHashValid(key[1], key[2]) =>
                \A am \in Accepted' :
                    key # <<am[2].proof.domainName, am[2].proof.publicKeyHash>> ]_vars
===============================================================================
