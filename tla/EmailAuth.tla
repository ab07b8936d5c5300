------------------------------- MODULE EmailAuth -------------------------------
(***************************************************************************)
(* The contract EmailAuth.sol: one account's gate between its controller   *)
(* and the emails that authorize the controller's actions.                 *)
(*                                                                         *)
(* Every public function is one action, taken by a sender; a function that *)
(* reverts changes nothing, so a require is a conjunct of the guard.  The  *)
(* DKIM registry and the zero-knowledge verifier that the contract calls   *)
(* are external: `registered` is what each registry answers, `accepts`     *)
(* which proofs each verifier accepts, and both change at any time.  The   *)
(* contract is behind a proxy; every implementation that its owner may put *)
(* there is taken to be this contract's code.                              *)
(***************************************************************************)
EXTENDS CommandUtils

CONSTANTS
    Accounts,       \* addresses that send transactions
    NoAddr,         \* address(0)
    Registries,     \* addresses of DKIM registries
    Verifiers,      \* addresses of verifiers
    Salts, NoSalt,  \* account salts, and bytes32(0) before initialize
    Keys,           \* pairs of a domain name and a public key hash
    TemplateIds,
    Templates,      \* the non-empty command templates a controller may insert
    Nullifiers,
    Timestamps,     \* in seconds; 0 for an email that has none
    Msgs,           \* the EmailAuthMsg values that may be presented
    ProofSets,      \* the sets of proofs that a verifier may accept
    Implementations,\* addresses of the contract's code
    CommandBytes    \* CommandBytes[v]: verifier v's commandBytes()

NoTemplate == <<>>  \* commandTemplates[id] of an id without a template

\* What the proof inside a message states about an email.
IsProof(proof) ==
    /\ <<proof.domainName, proof.publicKeyHash>> \in Keys
    /\ proof.emailNullifier \in Nullifiers
    /\ proof.timestamp \in Timestamps
    /\ proof.isCodeExist \in BOOLEAN

ASSUME AddressAssumption ==
    /\ NoAddr \notin Accounts
    /\ NoAddr \notin Registries
    /\ NoAddr \notin Verifiers
ASSUME TimestampAssumption == Timestamps \subseteq Nat /\ 0 \in Timestamps
ASSUME TemplateAssumption == NoTemplate \notin Templates
ASSUME MsgAssumption ==
    \A msg \in Msgs : IsProof(msg.proof) /\ msg.templateId \in TemplateIds

VARIABLES
    owner,                 \* of OwnableUpgradeable; NoAddr once renounced
    initialized,           \* of Initializable
    implementation,        \* of the proxy
    accountSalt, dkim, verifier, controller,
    commandTemplates, lastTimestamp, usedNullifiers, timestampCheckEnabled,
    registered,            \* registered[r]: the keys registry r calls valid
    accepts,               \* accepts[v]: the proofs verifier v accepts
    authed                 \* history: the EmailAuthed events, with the message's key
                           \* and timestamp and whether the check was on

config == <<owner, initialized, implementation, accountSalt, controller>>
trust  == <<dkim, verifier>>
spent  == <<lastTimestamp, usedNullifiers, authed>>
outside == <<registered, accepts>>
vars   == <<config, trust, commandTemplates, spent, timestampCheckEnabled, outside>>

Init ==
    /\ owner = NoAddr
    /\ initialized = FALSE
    /\ implementation \in Implementations
    /\ accountSalt = NoSalt
    /\ dkim = NoAddr
    /\ verifier = NoAddr
    /\ controller = NoAddr
    /\ commandTemplates = [id \in TemplateIds |-> NoTemplate]
    /\ lastTimestamp = 0
    /\ usedNullifiers = [n \in Nullifiers |-> FALSE]
    /\ timestampCheckEnabled = FALSE
    /\ registered \in [Registries -> SUBSET Keys]
    /\ accepts \in [Verifiers -> ProofSets]
    /\ authed = <<>>

-------------------------------------------------------------------------------
\* Initialization and ownership

\* The initializer modifier lets this run once.
initialize(initialOwner, salt, controllerAddr) ==
    /\ ~initialized
    /\ initialized' = TRUE
    /\ owner' = initialOwner
    /\ accountSalt' = salt
    /\ timestampCheckEnabled' = TRUE
    /\ controller' = controllerAddr
    /\ UNCHANGED <<implementation, trust, commandTemplates, spent, outside>>

onlyController(sender) == sender = controller

onlyOwner(sender) == sender = owner

\* OwnableUpgradeable: the owner hands the contract over, or gives it up for good.
transferOwnership(sender, newOwner) ==
    /\ onlyOwner(sender)
    /\ newOwner # NoAddr
    /\ owner' = newOwner
    /\ UNCHANGED <<initialized, implementation, accountSalt, controller, trust,
                   commandTemplates, spent, timestampCheckEnabled, outside>>

renounceOwnership(sender) ==
    /\ onlyOwner(sender)
    /\ owner' = NoAddr
    /\ UNCHANGED <<initialized, implementation, accountSalt, controller, trust,
                   commandTemplates, spent, timestampCheckEnabled, outside>>

\* Mutation: _authorizeUpgrade has no modifier.
UpgradeByAnyone(sender, newImplementation) ==
    /\ newImplementation # NoAddr
    /\ implementation' = newImplementation
    /\ UNCHANGED <<owner, initialized, accountSalt, controller, trust, commandTemplates, spent,
                   timestampCheckEnabled, outside>>

\* UUPSUpgradeable, which asks _authorizeUpgrade.
upgradeToAndCall(sender, newImplementation) ==
    /\ onlyOwner(sender)
    /\ newImplementation # NoAddr
    /\ implementation' = newImplementation
    /\ UNCHANGED <<owner, initialized, accountSalt, controller, trust, commandTemplates, spent,
                   timestampCheckEnabled, outside>>

-------------------------------------------------------------------------------
\* The registry and the verifier

initDKIMRegistry(sender, addr) ==
    /\ onlyController(sender)
    /\ addr # NoAddr
    /\ dkim = NoAddr
    /\ dkim' = addr
    /\ UNCHANGED <<config, verifier, commandTemplates, spent, timestampCheckEnabled, outside>>

initVerifier(sender, addr) ==
    /\ onlyController(sender)
    /\ addr # NoAddr
    /\ verifier = NoAddr
    /\ verifier' = addr
    /\ UNCHANGED <<config, dkim, commandTemplates, spent, timestampCheckEnabled, outside>>

updateDKIMRegistry(sender, addr) ==
    /\ onlyOwner(sender)
    /\ addr # NoAddr
    /\ dkim' = addr
    /\ UNCHANGED <<config, verifier, commandTemplates, spent, timestampCheckEnabled, outside>>

updateVerifier(sender, addr) ==
    /\ onlyOwner(sender)
    /\ addr # NoAddr
    /\ verifier' = addr
    /\ UNCHANGED <<config, dkim, commandTemplates, spent, timestampCheckEnabled, outside>>

\* A registry sets keys, or revokes a hash for all its domains.
RegistryChanges(r, keys) ==
    /\ registered' = [registered EXCEPT ![r] = keys]
    /\ UNCHANGED <<config, trust, commandTemplates, spent, timestampCheckEnabled, accepts>>

\* A verifier is given another Groth16 verifier, or another implementation.
VerifierChanges(v, proofs) ==
    /\ accepts' = [accepts EXCEPT ![v] = proofs]
    /\ UNCHANGED <<config, trust, commandTemplates, spent, timestampCheckEnabled, registered>>

-------------------------------------------------------------------------------
\* The command templates

TemplateExists(id) == commandTemplates[id] # NoTemplate

SetTemplate(id, template) ==
    /\ commandTemplates' = [commandTemplates EXCEPT ![id] = template]
    /\ UNCHANGED <<config, trust, spent, timestampCheckEnabled, outside>>

insertCommandTemplate(sender, id, template) ==
    /\ onlyController(sender)
    /\ template # NoTemplate
    /\ ~TemplateExists(id)
    /\ SetTemplate(id, template)

updateCommandTemplate(sender, id, template) ==
    /\ onlyController(sender)
    /\ template # NoTemplate
    /\ TemplateExists(id)
    /\ SetTemplate(id, template)

deleteCommandTemplate(sender, id) ==
    /\ onlyController(sender)
    /\ TemplateExists(id)
    /\ SetTemplate(id, NoTemplate)

-------------------------------------------------------------------------------
\* Authentication

\* Calls to address(0) revert, so each registry or verifier call needs one set.
DKIMKeyValid(proof) ==
    /\ dkim # NoAddr
    /\ <<proof.domainName, proof.publicKeyHash>> \in registered[dkim]

NullifierUnused(proof) == usedNullifiers[proof.emailNullifier] = FALSE

\* Mutation: an email as old as the last one passes.
NotOlder(proof) ==
    \/ timestampCheckEnabled = FALSE
    \/ proof.timestamp = 0
    \/ proof.timestamp >= lastTimestamp

TimestampFresh(proof) ==
    \/ timestampCheckEnabled = FALSE
    \/ proof.timestamp = 0
    \/ proof.timestamp > lastTimestamp

\* The command with its prefix skipped is what the template and the parameters print.
CommandMatches(msg) ==
    LET masked  == msg.proof.maskedCommand
        skipped == msg.skippedCommandPrefix
    IN  /\ Len(masked) <= CommandBytes[verifier]
        /\ skipped < CommandBytes[verifier]
        /\ skipped <= Len(masked)
        /\ IsExpectedCommand(removePrefix(masked, skipped), msg.commandParams,
                             commandTemplates[msg.templateId])

ProofValid(proof) ==
    /\ verifier # NoAddr
    /\ proof \in accepts[verifier]

\* Mutation: lastTimestamp also moves while the check is off.
MovesUnchecked(proof) == IF proof.timestamp # 0 THEN proof.timestamp ELSE lastTimestamp

\* The value authEmail leaves in lastTimestamp.
NextTimestamp(proof) ==
    IF timestampCheckEnabled /\ proof.timestamp # 0 THEN proof.timestamp ELSE lastTimestamp

\* Mutation: an email presented while the check is off is not remembered.
RememberCheckedOnly(proof) ==
    IF timestampCheckEnabled
    THEN [usedNullifiers EXCEPT ![proof.emailNullifier] = TRUE] ELSE usedNullifiers

\* The value authEmail leaves in usedNullifiers.
NextUsedNullifiers(proof) == [usedNullifiers EXCEPT ![proof.emailNullifier] = TRUE]

\* Mutation: two arguments of the event are swapped.
EventArgumentsSwapped(msg) ==
    [ emailNullifier |-> msg.proof.accountSalt,
      accountSalt    |-> msg.proof.emailNullifier,
      isCodeExist    |-> msg.proof.isCodeExist,
      templateId     |-> msg.templateId,
      timestamp      |-> msg.proof.timestamp,
      key            |-> <<msg.proof.domainName, msg.proof.publicKeyHash>>,
      checked        |-> timestampCheckEnabled ]

\* The event EmailAuthed, with three fields of history.
EmailAuthed(msg) ==
    [ emailNullifier |-> msg.proof.emailNullifier,
      accountSalt    |-> msg.proof.accountSalt,
      isCodeExist    |-> msg.proof.isCodeExist,
      templateId     |-> msg.templateId,
      timestamp      |-> msg.proof.timestamp,
      key            |-> <<msg.proof.domainName, msg.proof.publicKeyHash>>,
      checked        |-> timestampCheckEnabled ]

authEmail(sender, msg) ==
    /\ onlyController(sender)
    /\ TemplateExists(msg.templateId)
    /\ DKIMKeyValid(msg.proof)
    /\ NullifierUnused(msg.proof)
    /\ accountSalt = msg.proof.accountSalt
    /\ TimestampFresh(msg.proof)
    /\ ProofValid(msg.proof)
    /\ CommandMatches(msg)
    /\ usedNullifiers' = NextUsedNullifiers(msg.proof)
    /\ lastTimestamp' = NextTimestamp(msg.proof)
    /\ authed' = Append(authed, EmailAuthed(msg))
    /\ UNCHANGED <<config, trust, commandTemplates, timestampCheckEnabled, outside>>

setTimestampCheckEnabled(sender, enabled) ==
    /\ onlyController(sender)
    /\ timestampCheckEnabled' = enabled
    /\ UNCHANGED <<config, trust, commandTemplates, spent, outside>>

-------------------------------------------------------------------------------

ByAnyone ==
    \E initialOwner, controllerAddr \in Accounts, salt \in Salts :
        initialize(initialOwner, salt, controllerAddr)

ByOwner(sender) ==
    \/ \E newOwner \in Accounts : transferOwnership(sender, newOwner)
    \/ renounceOwnership(sender)
    \/ \E i \in Implementations : upgradeToAndCall(sender, i)
    \/ \E r \in Registries : updateDKIMRegistry(sender, r)
    \/ \E v \in Verifiers : updateVerifier(sender, v)

ByController(sender) ==
    \/ \E r \in Registries : initDKIMRegistry(sender, r)
    \/ \E v \in Verifiers : initVerifier(sender, v)
    \/ \E id \in TemplateIds, template \in Templates :
           \/ insertCommandTemplate(sender, id, template)
           \/ updateCommandTemplate(sender, id, template)
    \/ \E id \in TemplateIds : deleteCommandTemplate(sender, id)
    \/ \E msg \in Msgs : authEmail(sender, msg)
    \/ \E enabled \in BOOLEAN : setTimestampCheckEnabled(sender, enabled)

Outside ==
    \/ \E r \in Registries, keys \in SUBSET Keys : RegistryChanges(r, keys)
    \/ \E v \in Verifiers, proofs \in ProofSets : VerifierChanges(v, proofs)

Next ==
    \/ ByAnyone
    \/ \E sender \in Accounts : ByOwner(sender) \/ ByController(sender)
    \/ Outside

Spec == Init /\ [][Next]_vars

-------------------------------------------------------------------------------

Event == [ emailNullifier : Nullifiers, accountSalt : Salts, isCodeExist : BOOLEAN,
           templateId : TemplateIds, timestamp : Timestamps, key : Keys, checked : BOOLEAN ]

TypeOK ==
    /\ owner \in Accounts \union {NoAddr}
    /\ initialized \in BOOLEAN
    /\ implementation \in Implementations
    /\ accountSalt \in Salts \union {NoSalt}
    /\ dkim \in Registries \union {NoAddr}
    /\ verifier \in Verifiers \union {NoAddr}
    /\ controller \in Accounts \union {NoAddr}
    /\ commandTemplates \in [TemplateIds -> Templates \union {NoTemplate}]
    /\ lastTimestamp \in Timestamps
    /\ usedNullifiers \in [Nullifiers -> BOOLEAN]
    /\ timestampCheckEnabled \in BOOLEAN
    /\ registered \in [Registries -> SUBSET Keys]
    /\ accepts \in [Verifiers -> ProofSets]
    /\ authed \in Seq(Event)

\* An event's place in the order of timestamps: 0 if it was never compared.
Place(event) == IF event.checked THEN event.timestamp ELSE 0

\* usedNullifiers is exactly the set of emails of the log: none is forgotten and
\* none is burnt by a call that authorized nothing.
UsedIsAuthed ==
    \A n \in Nullifiers :
        usedNullifiers[n] <=> \E i \in 1..Len(authed) : authed[i].emailNullifier = n

\* The place of each event that was compared stays below or at lastTimestamp, and
\* lastTimestamp is one of them (or still 0): turning the check off and on again
\* (setTimestampCheckEnabled) never moves it back or forward.
LastTimestampIsLatestChecked ==
    /\ \A i \in 1..Len(authed) : Place(authed[i]) <= lastTimestamp
    /\ lastTimestamp # 0 => \E i \in 1..Len(authed) : Place(authed[i]) = lastTimestamp

\* The contract is a one-time authorizer: whatever the owner, the controller and
\* the registries do in between (new registry, new verifier, new template, check
\* off and on), authEmail (EmailAuth.sol:189) never accepts an email it accepted
\* before, nor an email that is not newer than the latest checked one.
Promise ==
    INSTANCE OneTimeAuthorization WITH
        Places <- Timestamps,
        log <- [i \in 1..Len(authed) |->
                    [emailNullifier |-> authed[i].emailNullifier, place |-> Place(authed[i])]]

RefinesPromise == Promise!Spec

\* Once the owner has renounced the contract, what it trusts is out of everyone's
\* reach: the controller may still fill in a registry or a verifier that was never
\* set (initDKIMRegistry, initVerifier), but nobody can replace one, replace the
\* contract's code, appoint an owner, or change whose emails count and who may
\* present them.
RenouncedIsFrozen ==
    [][ initialized /\ owner = NoAddr =>
            /\ UNCHANGED config
            /\ dkim # NoAddr => UNCHANGED dkim
            /\ verifier # NoAddr => UNCHANGED verifier ]_vars
===============================================================================
