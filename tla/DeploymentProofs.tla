--------------------------- MODULE DeploymentProofs ---------------------------
(***************************************************************************)
(* What the deployed contracts promise together, for all accounts, keys,   *)
(* emails, Groth16 verifiers and registries beside the deployed one.       *)
(*                                                                         *)
(* That no revoked hash authorizes anything needs one fact that relates    *)
(* the history of the registry to its storage: whatever was revoked stays  *)
(* revoked.  EmailAuth keeps nothing of the registry, so a call of         *)
(* authEmail sees that.                                                    *)
(***************************************************************************)
EXTENDS Deployment, TLAPS

\* The events that authEmail may log.
Events ==
    UNION {{[ emailNullifier |-> msg.proof.emailNullifier,
              accountSalt    |-> msg.proof.accountSalt,
              isCodeExist    |-> msg.proof.isCodeExist,
              templateId     |-> msg.templateId,
              timestamp      |-> msg.proof.timestamp,
              key            |-> <<msg.proof.domainName, msg.proof.publicKeyHash>>,
              checked        |-> checked ] : checked \in BOOLEAN} : msg \in Msgs}

DeploymentInv ==
    /\ fallen \subseteq revokedDKIMPublicKeyHashes
    /\ timestampCheckEnabled \in BOOLEAN
    /\ authed \in Seq(Events)

\* Revocations are never taken back.
LEMMA RevocationsGrow ==
    ASSUME Next
    PROVE  revokedDKIMPublicKeyHashes \subseteq revokedDKIMPublicKeyHashes'
  BY DEF Next, book, initialize, setDKIMPublicKeyHash, RecordKey, revokeDKIMPublicKeyHash, RevokeKey,
         Sign, changeSigner, transferOwnership, renounceOwnership, upgradeToAndCall

\* Of EmailAuth's functions, only authEmail logs an event; no other than initialize and
\* setTimestampCheckEnabled touches the check.
LEMMA StepsOfTheLog ==
    ASSUME AuthStep
    PROVE  \/ UNCHANGED authed
           \/ \E sender \in Users, msg \in Msgs : Auth!authEmail(sender, msg)
  BY DEF AuthStep, Auth!ByAnyone, Auth!ByOwner, Auth!ByController, Auth!initialize,
         Auth!transferOwnership, Auth!renounceOwnership, Auth!upgradeToAndCall,
         Auth!updateDKIMRegistry, Auth!updateVerifier, Auth!initDKIMRegistry, Auth!initVerifier,
         Auth!insertCommandTemplate, Auth!updateCommandTemplate, Auth!deleteCommandTemplate,
         Auth!SetTemplate, Auth!setTimestampCheckEnabled, Auth!spent

\* The check of the timestamp is on or off.
LEMMA StepsOfTheCheck ==
    ASSUME AuthStep, timestampCheckEnabled \in BOOLEAN
    PROVE  timestampCheckEnabled' \in BOOLEAN
  BY DEF AuthStep, Auth!ByAnyone, Auth!ByOwner, Auth!ByController, Auth!initialize,
         Auth!transferOwnership, Auth!renounceOwnership, Auth!upgradeToAndCall,
         Auth!updateDKIMRegistry, Auth!updateVerifier, Auth!initDKIMRegistry, Auth!initVerifier,
         Auth!insertCommandTemplate, Auth!updateCommandTemplate, Auth!deleteCommandTemplate,
         Auth!SetTemplate, Auth!setTimestampCheckEnabled, Auth!authEmail

\* authEmail appends the message's event, whose key the registry that it asks calls valid.
LEMMA AuthEmailStep ==
    ASSUME DeploymentInv, NEW sender \in Users, NEW msg \in Msgs, Auth!authEmail(sender, msg)
    PROVE  /\ authed' \in Seq(Events)
           /\ authed'[Len(authed')].key = <<msg.proof.domainName, msg.proof.publicKeyHash>>
           /\ dkim # NoAddr
           /\ dkim \in Registries => <<msg.proof.domainName, msg.proof.publicKeyHash>> \in KeysOf(dkim)
  <1> DEFINE event == Auth!EmailAuthed(msg)
  <1>1. event \in Events
    BY DEF Auth!EmailAuthed, Events, DeploymentInv
  <1>2. event.key = <<msg.proof.domainName, msg.proof.publicKeyHash>>
    BY DEF Auth!EmailAuthed
  <1>3. authed \in Seq(Events) /\ authed' = Append(authed, event)
    BY DEF Auth!authEmail, DeploymentInv
  <1>4. authed' \in Seq(Events) /\ authed'[Len(authed')] = event
    <2> HIDE DEF event
    <2> QED
      BY <1>1, <1>3
  <1>5. /\ dkim # NoAddr
        /\ dkim \in Registries => <<msg.proof.domainName, msg.proof.publicKeyHash>> \in KeysOf(dkim)
    BY DEF Auth!authEmail, Auth!DKIMKeyValid
  <1> QED
    BY <1>2, <1>4, <1>5

\* The initial state satisfies the invariant.
LEMMA DeploymentInitInv == DeploymentInit => DeploymentInv
  <1> SUFFICES ASSUME DeploymentInit PROVE DeploymentInv
    OBVIOUS
  <1>1. fallen = {} /\ timestampCheckEnabled = FALSE /\ authed = <<>>
    BY Zenon DEF DeploymentInit, Auth!Init
  <1>2. <<>> \in Seq(Events)
    OBVIOUS
  <1> QED
    BY <1>1, <1>2, Zenon DEF DeploymentInv

\* Every step, of whichever contract, keeps it.
LEMMA DeploymentNextInv == DeploymentInv /\ [DeploymentNext]_allVars => DeploymentInv'
  <1> SUFFICES ASSUME DeploymentInv, [DeploymentNext]_allVars
               PROVE  DeploymentInv'
    OBVIOUS
  <1>1. CASE RegistryStep
    <2>1. fallen' \subseteq revokedDKIMPublicKeyHashes'
      BY <1>1, RevocationsGrow DEF RegistryStep, DeploymentInv, revokeDKIMPublicKeyHash, RevokeKey
    <2> QED
      BY <1>1, <2>1 DEF RegistryStep, DeploymentInv, authVars
  <1>2. CASE VerifierStep
    BY <1>2 DEF VerifierStep, DeploymentInv, registryVars, vars, book, authVars
  <1>3. CASE AuthStep
    <2>1. fallen' \subseteq revokedDKIMPublicKeyHashes'
      BY <1>3 DEF AuthStep, DeploymentInv, registryVars, vars, book
    <2>2. authed' \in Seq(Events)
      BY <1>3, StepsOfTheLog, AuthEmailStep DEF DeploymentInv
    <2>3. timestampCheckEnabled' \in BOOLEAN
      BY <1>3, StepsOfTheCheck DEF DeploymentInv
    <2> QED
      BY <2>1, <2>2, <2>3, Zenon DEF DeploymentInv, Events
  <1>4. CASE UNCHANGED allVars
    BY <1>4 DEF allVars, registryVars, vars, book, authVars, DeploymentInv
  <1> QED
    BY <1>1, <1>2, <1>3, <1>4 DEF DeploymentNext

\* A hash once revoked is revoked in the registry's storage, always.
THEOREM DeploymentInvariance == DeploymentSpec => []DeploymentInv
  BY DeploymentInitInv, DeploymentNextInv, PTL DEF DeploymentSpec

\* No email that is proven with a revoked hash passes authEmail while the
\* account asks the deployed registry, whoever calls what in between.
THEOREM RevokedNever == DeploymentSpec => RevokedNeverAuthorizes
  <1> DEFINE Step == Len(authed') > Len(authed) /\ dkim = DkimRegistry =>
                        authed'[Len(authed')].key[2] \notin fallen
  <1>1. DeploymentInv /\ [DeploymentNext]_allVars => [Step]_allVars
    <2> SUFFICES ASSUME DeploymentInv, DeploymentNext,
                        Len(authed') > Len(authed), dkim = DkimRegistry
                 PROVE  authed'[Len(authed')].key[2] \notin fallen
      OBVIOUS
    <2>1. ~ UNCHANGED authed
      BY DEF DeploymentInv
    <2>2. AuthStep
      BY <2>1 DEF DeploymentNext, RegistryStep, VerifierStep, authVars
    <2>3. PICK sender \in Users, msg \in Msgs : Auth!authEmail(sender, msg)
      BY <2>1, <2>2, StepsOfTheLog
    <2>4. /\ authed'[Len(authed')].key = <<msg.proof.domainName, msg.proof.publicKeyHash>>
          /\ <<msg.proof.domainName, msg.proof.publicKeyHash>> \in KeysOf(DkimRegistry)
      BY <2>3, AuthEmailStep, DeploymentAssumption
    <2>5. msg.proof.publicKeyHash \notin revokedDKIMPublicKeyHashes
      BY <2>4 DEF KeysOf, isDKIMPublicKeyHashValid
    <2> QED
      BY <2>4, <2>5 DEF DeploymentInv
  <1> QED
    BY <1>1, DeploymentInvariance, PTL DEF DeploymentSpec, RevokedNeverAuthorizes

\* In whatever order the owners are given up: after the last of them, what decides over the
\* account's emails stays.
THEOREM RenouncedFixed == DeploymentSpec => RenouncedDeploymentIsFixed
  <1> DEFINE Fixed == UNCHANGED <<admin, verifierVars, authOwner, authImplementation, accountSalt,
                                  dkim, verifier, controller>>
             Step == Renounced /\ dkim # NoAddr /\ verifier # NoAddr => Fixed
  <1>1. [DeploymentNext]_allVars => [Step]_allVars
    <2> SUFFICES ASSUME DeploymentNext, Renounced, dkim # NoAddr, verifier # NoAddr
                 PROVE  Fixed
      OBVIOUS
    <2>1. CASE RegistryStep
      <3>1. UNCHANGED admin
        BY <2>1, AddressAssumption
           DEF RegistryStep, Renounced, Next, initialize, setDKIMPublicKeyHash,
               revokeDKIMPublicKeyHash, Sign, changeSigner, transferOwnership, renounceOwnership,
               upgradeToAndCall
      <3> QED
        BY <2>1, <3>1 DEF RegistryStep, authVars
    <2>2. CASE VerifierStep
      <3>1. UNCHANGED verifierVars
        BY <2>2, AddressAssumption
           DEF VerifierStep, Renounced, verifierVars, VerifierAdmin!Next, VerifierAdmin!initialize,
               VerifierAdmin!updateGroth16Verifier, VerifierAdmin!transferOwnership,
               VerifierAdmin!renounceOwnership, VerifierAdmin!upgradeToAndCall
      <3> QED
        BY <2>2, <3>1 DEF VerifierStep, authVars, registryVars, vars
    <2>3. CASE AuthStep
      <3>1. UNCHANGED <<authOwner, authImplementation, accountSalt, dkim, verifier, controller>>
        <4>1. ~Auth!ByAnyone
          BY DEF Renounced, Auth!ByAnyone, Auth!initialize
        <4>2. \A sender \in Users : ~Auth!ByOwner(sender)
          BY DeploymentAssumption
             DEF Renounced, Auth!ByOwner, Auth!onlyOwner, Auth!transferOwnership,
                 Auth!renounceOwnership, Auth!upgradeToAndCall, Auth!updateDKIMRegistry,
                 Auth!updateVerifier
        <4>3. PICK sender \in Users : Auth!ByController(sender)
          BY <2>3, <4>1, <4>2 DEF AuthStep
        <4> QED
          BY <4>3
             DEF Auth!ByController, Auth!initDKIMRegistry, Auth!initVerifier,
                 Auth!insertCommandTemplate, Auth!updateCommandTemplate,
                 Auth!deleteCommandTemplate, Auth!SetTemplate, Auth!authEmail,
                 Auth!setTimestampCheckEnabled, Auth!config, Auth!trust
      <3> QED
        BY <2>3, <3>1 DEF AuthStep, registryVars, vars, verifierVars
    <2> QED
      BY <2>1, <2>2, <2>3 DEF DeploymentNext
  <1> QED
    BY <1>1, PTL DEF DeploymentSpec, RenouncedDeploymentIsFixed
===============================================================================
