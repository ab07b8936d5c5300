--------------------------- MODULE EmailSignerProofs ---------------------------
(***************************************************************************)
(* What EmailSigner guarantees for every set of salts, messages and        *)
(* registries: the factory's signers are bound to their accounts, and what *)
(* the registry promises of its keys they inherit, as their steps leave it *)
(* alone and each check of a signature asks it again.  That a proof signs  *)
(* one hash is a fact of the command's text alone.                         *)
(***************************************************************************)
EXTENDS EmailSigner, FiniteSetTheorems, SequenceTheorems, TLAPS

\* The registry with what is proved of it.
RegistryProofs == INSTANCE ECDSAOwnedDKIMRegistryProofs

\* A clone's address is a factory address or elsewhere; storage is a function on them.
Domain == storage = [a \in Addresses |-> storage[a]]

IInv == Domain /\ FactorySignersAreBound

\* Two salts have two addresses, and none of them is elsewhere.
LEMMA PredictedDistinct ==
    /\ \A s, t \in Salts : s # t => predictAddress(s) # predictAddress(t)
    /\ \A s \in Salts : predictAddress(s) \in Addresses /\ predictAddress(s) \notin Elsewhere
BY HashAssumption DEF predictAddress, Addresses, FactoryAddresses

\* The strengthened invariant: every clone outside the factory may be anybody's, and
\* no step of theirs, of a second deploy or of the registry reaches the factory's.
THEOREM Invariance == Spec => []IInv
<1>1. Init => IInv
  BY PredictedDistinct, FactoryAssumption
     DEF Init, IInv, Domain, FactorySignersAreBound, Blank
<1>2. IInv /\ [Next]_vars => IInv'
  <2> SUFFICES ASSUME IInv, [Next]_vars PROVE IInv'
    OBVIOUS
  <2> USE PredictedDistinct DEF IInv, Domain
  <2>1. ASSUME NEW s \in Salts \union {NoSalt}, deploy(s) PROVE IInv'
    <3>1. s \in Salts /\ predictAddress(s) \notin code
      BY <2>1 DEF deploy
    <3>2. Domain'
      BY <2>1 DEF deploy
    <3>3. ASSUME NEW t \in Salts
          PROVE LET a == predictAddress(t) IN
                IF a \in code'
                THEN /\ storage'[a] = Initialized(t, dkimRegistry, verifier, TemplateIdOf[t])
                     /\ EmailSignerDeployed(t) \in events'
                ELSE /\ ~storage'[a].isInitialized
                     /\ EmailSignerDeployed(t) \notin events'
      <4>1. CASE t = s
        BY <2>1, <3>1, <4>1 DEF deploy
      <4>2. CASE t # s
        <5>1. predictAddress(t) # predictAddress(s)
          BY <3>1, <4>2
        <5>2. storage'[predictAddress(t)] = storage[predictAddress(t)]
          BY <2>1, <5>1 DEF deploy
        <5>3. predictAddress(t) \in code' <=> predictAddress(t) \in code
          BY <2>1, <5>1 DEF deploy
        <5>4. EmailSignerDeployed(t) # EmailSignerDeployed(s)
          BY <5>1 DEF EmailSignerDeployed
        <5>5. EmailSignerDeployed(t) \in events' <=> EmailSignerDeployed(t) \in events
          BY <2>1, <5>4 DEF deploy
        <5> QED BY <5>2, <5>3, <5>5 DEF FactorySignersAreBound
      <4> QED BY <4>1, <4>2
    <3> QED BY <3>2, <3>3 DEF FactorySignersAreBound
  <2>2. ASSUME NEW b \in Elsewhere, CloneElsewhere(b) PROVE IInv'
    BY <2>2 DEF CloneElsewhere, FactorySignersAreBound
  <2>3. ASSUME NEW b \in Addresses, NEW s, NEW r, NEW v, NEW id, initialize(b, s, r, v, id)
        PROVE  IInv'
    <3>1. b \in code /\ ~storage[b].isInitialized
      BY <2>3 DEF initialize
    <3>2. ASSUME NEW t \in Salts PROVE storage'[predictAddress(t)] = storage[predictAddress(t)]
      <4>1. b # predictAddress(t)
        <5> SUFFICES ASSUME b = predictAddress(t) PROVE FALSE
          OBVIOUS
        <5>1. storage[b] = Initialized(t, dkimRegistry, verifier, TemplateIdOf[t])
          BY <3>1 DEF FactorySignersAreBound
        <5> QED BY <3>1, <5>1 DEF Initialized
      <4> QED BY <2>3, <4>1 DEF initialize
    <3>3. Domain'
      BY <2>3 DEF initialize
    <3> QED BY <2>3, <3>2, <3>3 DEF initialize, FactorySignersAreBound
  <2>4. ASSUME UNCHANGED signerVars PROVE IInv'
    BY <2>4 DEF signerVars, FactorySignersAreBound
  <2> QED BY <2>1, <2>2, <2>3, <2>4 DEF Next, SignersNext, vars
<1> QED BY <1>1, <1>2, PTL DEF Spec

\* Whoever deploys or initializes what, the clone at a predicted address belongs to its
\* account (EmailSignerFactory.deploy and predictAddress).
THEOREM FactoryBound == Spec => []FactorySignersAreBound
BY Invariance, PTL DEF IInv

\* isValidSignature has no other test than verifyEmail for the hash in the message.
LEMMA AcceptedIs == Accepted = {am \in FactoryAddresses \X Msgs : verifyEmail(am[1], am[2])}
BY DEF Accepted, isValidSignature

\* A proof is accepted by at most one signer of the factory, whatever message a caller
\* builds around it (EmailSigner.verifyEmail).
THEOREM OneSigner == Spec => []OneSignerPerProof
<1>1. IInv => OneSignerPerProof
  <2> SUFFICES ASSUME IInv, NEW x \in Accepted, NEW y \in Accepted, x[2].proof = y[2].proof
               PROVE  x[1] = y[1]
    BY DEF OneSignerPerProof
  <2>1. ASSUME NEW z \in Accepted
        PROVE  \E s \in Salts : z[1] = predictAddress(s) /\ z[2].proof.accountSalt = s
    <3>1. z[1] \in FactoryAddresses /\ verifyEmail(z[1], z[2])
      BY AcceptedIs
    <3>2. PICK s \in Salts : z[1] = predictAddress(s)
      BY <3>1 DEF FactoryAddresses
    <3>3. z[1] \in code /\ AccountMatches(z[1], z[2].proof)
      BY <3>1 DEF verifyEmail
    <3>4. storage[z[1]] = Initialized(s, dkimRegistry, verifier, TemplateIdOf[s])
      BY <3>2, <3>3 DEF IInv, FactorySignersAreBound
    <3>5. storage[z[1]].accountSalt = s
      BY <3>4 DEF Initialized
    <3> QED BY <3>2, <3>3, <3>5 DEF AccountMatches
  <2> QED BY <2>1
<1> QED BY <1>1, Invariance, PTL

-------------------------------------------------------------------------------
\* The registry below the signers

\* Both instances of the registry are the same one.
LEMMA SameTypes == Registry!TypeOK <=> RegistryProofs!TypeOK
BY DEF Registry!TypeOK, RegistryProofs!TypeOK, Registry!SignedMsg, RegistryProofs!SignedMsg,
       Registry!SET_PREFIX, RegistryProofs!SET_PREFIX,
       Registry!REVOKE_PREFIX, RegistryProofs!REVOKE_PREFIX

\* ... and take the same steps.
LEMMA SameSteps == Registry!Next <=> RegistryProofs!Next
BY DEF Registry!Next, RegistryProofs!Next,
       Registry!initialize, RegistryProofs!initialize,
       Registry!setDKIMPublicKeyHash, RegistryProofs!setDKIMPublicKeyHash,
       Registry!revokeDKIMPublicKeyHash, RegistryProofs!revokeDKIMPublicKeyHash,
       Registry!Sign, RegistryProofs!Sign,
       Registry!changeSigner, RegistryProofs!changeSigner,
       Registry!transferOwnership, RegistryProofs!transferOwnership,
       Registry!renounceOwnership, RegistryProofs!renounceOwnership,
       Registry!upgradeToAndCall, RegistryProofs!upgradeToAndCall,
       Registry!isDKIMPublicKeyHashValid, RegistryProofs!isDKIMPublicKeyHashValid,
       Registry!SignedBySigner, RegistryProofs!SignedBySigner,
       Registry!RecordKey, RegistryProofs!RecordKey,
       Registry!RevokeKey, RegistryProofs!RevokeKey,
       Registry!computeSignedMsg, RegistryProofs!computeSignedMsg,
       Registry!SignedMsg, RegistryProofs!SignedMsg,
       Registry!SET_PREFIX, RegistryProofs!SET_PREFIX,
       Registry!REVOKE_PREFIX, RegistryProofs!REVOKE_PREFIX,
       Registry!book, RegistryProofs!book, Registry!admin, RegistryProofs!admin

\* A step of this module is a step of the registry or leaves it alone.
LEMMA RegistryStep == [Next]_vars => [RegistryProofs!Next]_RegistryProofs!vars
<1>1. SignersNext => UNCHANGED registryVars
  BY DEF SignersNext, deploy, CloneElsewhere, initialize
<1>2. UNCHANGED registryVars => UNCHANGED RegistryProofs!vars
  BY DEF registryVars, RegistryProofs!vars, RegistryProofs!admin, RegistryProofs!book
<1>3. UNCHANGED vars => UNCHANGED registryVars
  BY DEF vars, registryVars
<1> QED BY <1>1, <1>2, <1>3, SameSteps DEF Next

\* The registry's invariant holds beside the signers.
LEMMA RegistryInvariance == Spec => []RegistryProofs!Inv
<1>1. Init => RegistryProofs!Inv
  <2>1. Init => RegistryProofs!Init
    BY DEF Init, Registry!Init, RegistryProofs!Init
  <2> QED BY <2>1, RegistryProofs!InitInv, FactoryAssumption
<1>2. RegistryProofs!Inv /\ [Next]_vars => RegistryProofs!Inv'
  BY RegistryStep, RegistryProofs!NextInv, FactoryAssumption
<1> QED BY <1>1, <1>2, PTL DEF Spec

-------------------------------------------------------------------------------
\* The types

SignersTyped ==
    /\ code \subseteq Addresses
    /\ storage \in [Addresses -> Store]
    /\ events \subseteq {EmailSignerDeployed(accountSalt) : accountSalt \in Salts}

\* The types of the clones' storage and of the registry's, whoever initializes what.
THEOREM TypeCorrect == Spec => []TypeOK
<1>1. Init => SignersTyped
  BY DEF Init, SignersTyped, Blank, Store
<1>2. SignersTyped /\ [Next]_vars => SignersTyped'
  <2> SUFFICES ASSUME SignersTyped, [Next]_vars PROVE SignersTyped'
    OBVIOUS
  <2> USE DEF SignersTyped
  <2>1. ASSUME NEW s \in Salts \union {NoSalt}, deploy(s) PROVE SignersTyped'
    <3>1. s \in Salts
      BY <2>1 DEF deploy
    <3>2. Initialized(s, dkimRegistry, verifier, TemplateIdOf[s]) \in Store
      BY <3>1, FactoryAssumption, HashAssumption DEF Initialized, Store
    <3>3. predictAddress(s) \in Addresses
      BY <3>1, PredictedDistinct
    <3> QED BY <2>1, <3>1, <3>2, <3>3 DEF deploy
  <2>2. ASSUME NEW a \in Elsewhere, CloneElsewhere(a) PROVE SignersTyped'
    BY <2>2 DEF CloneElsewhere, Addresses
  <2>3. ASSUME NEW a \in Addresses, NEW s \in Salts \union {NoSalt},
               NEW r \in Registries \union {NoAddr}, NEW v \in Verifiers \union {NoAddr},
               NEW id \in TemplateIds \union {NoTemplateId}, initialize(a, s, r, v, id)
        PROVE  SignersTyped'
    <3>1. Initialized(s, r, v, id) \in Store
      BY DEF Initialized, Store
    <3> QED BY <2>3, <3>1 DEF initialize
  <2>4. ASSUME UNCHANGED signerVars PROVE SignersTyped'
    BY <2>4 DEF signerVars
  <2> QED BY <2>1, <2>2, <2>3, <2>4 DEF Next, SignersNext, vars
<1>3. SignersTyped /\ RegistryProofs!Inv => TypeOK
  BY SameTypes DEF SignersTyped, TypeOK, RegistryProofs!Inv
<1> QED BY <1>1, <1>2, <1>3, RegistryInvariance, PTL DEF Spec

-------------------------------------------------------------------------------
\* Revocation

\* A revoked hash stays revoked.
LEMMA RevocationsStay ==
    [Next]_vars => revokedDKIMPublicKeyHashes \subseteq revokedDKIMPublicKeyHashes'
<1>1. [RegistryProofs!Next]_RegistryProofs!vars =>
          revokedDKIMPublicKeyHashes \subseteq revokedDKIMPublicKeyHashes'
  <2> SUFFICES ASSUME [RegistryProofs!Next]_RegistryProofs!vars
               PROVE  revokedDKIMPublicKeyHashes \subseteq revokedDKIMPublicKeyHashes'
    OBVIOUS
  <2>1. \/ UNCHANGED RegistryProofs!book
        \/ \E s \in Selectors, d \in Domains, h \in Hashes :
               \/ RegistryProofs!setDKIMPublicKeyHash(s, d, h)
               \/ RegistryProofs!revokeDKIMPublicKeyHash(s, d, h)
    BY RegistryProofs!StepsOfTheBook, FactoryAssumption
  <2> QED
    BY <2>1 DEF RegistryProofs!book, RegistryProofs!setDKIMPublicKeyHash, RegistryProofs!RecordKey,
                RegistryProofs!revokeDKIMPublicKeyHash, RegistryProofs!RevokeKey
<1> QED BY <1>1, RegistryStep

\* A signer of the factory that accepts a message found the message's key valid.
LEMMA AcceptedKeyIsValid ==
    ASSUME IInv, NEW am \in Accepted
    PROVE  Registry!isDKIMPublicKeyHashValid(am[2].proof.domainName, am[2].proof.publicKeyHash)
<1>1. am[1] \in FactoryAddresses /\ verifyEmail(am[1], am[2])
  BY AcceptedIs
<1>2. am[1] \in code /\ KeyValid(storage[am[1]].dkimRegistryAddr, am[2].proof)
  BY <1>1 DEF verifyEmail
<1>3. PICK s \in Salts : am[1] = predictAddress(s)
  BY <1>1 DEF FactoryAddresses
<1>4. storage[am[1]] = Initialized(s, dkimRegistry, verifier, TemplateIdOf[s])
  BY <1>2, <1>3 DEF IInv, FactorySignersAreBound
<1>5. storage[am[1]].dkimRegistryAddr = dkimRegistry
  BY <1>4 DEF Initialized
<1> QED BY <1>2, <1>5 DEF KeyValid

\* A key that was valid and is not any more ends every signature proven with it
\* (EmailSigner.verifyEmail asks the registry each time): a pair that set made valid is
\* still recorded, so only a revocation can have ended it, and revocations stay.
THEOREM RevocationEnds == Spec => RevokedIsNeverAccepted
<1> DEFINE Ends == \A key \in everSet :
                       ~Registry!isDKIMPublicKeyHashValid(key[1], key[2]) =>
                           \A am \in Accepted' :
                               key # <<am[2].proof.domainName, am[2].proof.publicKeyHash>>
       Asked == \A am \in Accepted :
                    Registry!isDKIMPublicKeyHashValid(am[2].proof.domainName,
                                                      am[2].proof.publicKeyHash)
<1>1. IInv' => Asked'
  <2>1. IInv => Asked
    BY AcceptedKeyIsValid
  <2> QED BY <2>1, PTL
<1>2. RegistryProofs!Inv /\ IInv' /\ [Next]_vars => Ends
  <2> SUFFICES ASSUME RegistryProofs!Inv, IInv', [Next]_vars, NEW key \in everSet,
                      ~Registry!isDKIMPublicKeyHashValid(key[1], key[2]),
                      NEW am \in Accepted',
                      key = <<am[2].proof.domainName, am[2].proof.publicKeyHash>>
               PROVE  FALSE
    OBVIOUS
  <2>1. key[2] \in revokedDKIMPublicKeyHashes
    <3>1. key \in dkimPublicKeyHashes
      BY DEF RegistryProofs!Inv
    <3>2. key = <<key[1], key[2]>>
      OBVIOUS
    <3> QED BY <3>1, <3>2 DEF Registry!isDKIMPublicKeyHashValid
  <2>2. key[2] \in revokedDKIMPublicKeyHashes'
    BY <2>1, RevocationsStay
  <2>3. Registry!isDKIMPublicKeyHashValid(am[2].proof.domainName, am[2].proof.publicKeyHash)'
    BY <1>1
  <2> QED BY <2>2, <2>3 DEF Registry!isDKIMPublicKeyHashValid
<1> QED BY <1>2, Invariance, RegistryInvariance, PTL DEF Spec, RevokedIsNeverAccepted

-------------------------------------------------------------------------------
\* The command

\* The template's only matcher is its second entry: it takes the first parameter.
LEMMA OneMatcher ==
    /\ ParamIndex(signHashTemplate, 2) = 1
    /\ ~IsMatcher(signHashTemplate[1])
    /\ IsMatcher(signHashTemplate[2])
<1>1. /\ Len(signHashTemplate) = 2
      /\ signHashTemplate[1].kind = "literal" 
      /\ signHashTemplate[2].kind = "uint"
      /\ signHashTemplate[1].text = <<"signHash">>
  BY DEF signHashTemplate
<1>2. ~IsMatcher(signHashTemplate[1]) /\ IsMatcher(signHashTemplate[2])
  BY <1>1 DEF IsMatcher, Matchers
<1>3. {j \in 1..2 : IsMatcher(signHashTemplate[j])} = {2}
  BY <1>2
<1>4. Cardinality({2}) = 1
  BY FS_Singleton
<1> QED BY <1>2, <1>3, <1>4 DEF ParamIndex

\* Two texts with a blank between them.
LEMMA JoinedTwo ==
    ASSUME NEW texts, Len(texts) = 2, texts[1] = <<"signHash">>
    PROVE  Joined(texts) = <<"signHash">> \o <<Space>> \o texts[2]
<1> DEFINE T(i) == texts[i]
           Step(f) == [i \in 0..2 |-> IF i = 0 THEN <<>>
                             ELSE f[i - 1]
                                  \o (IF i > 1 THEN <<Space>> ELSE <<>>)
                                  \o T(i)]
           f == CHOOSE f : f = Step(f)
           g == [i \in 0..2 |-> IF i = 0 THEN <<>>
                                ELSE IF i = 1 THEN <<>> \o <<>> \o T(1)
                                ELSE (<<>> \o <<>> \o T(1)) \o <<Space>> \o T(2)]
<1>1. Joined(texts) = f[2]
  BY Zenon DEF Joined
<1> HIDE DEF T
<1>2. g = Step(g)
  OBVIOUS
<1>3. f = Step(f)
  <2> HIDE DEF Step, g
  <2> QED BY <1>2, Zenon
<1> HIDE DEF f
<1>4. f[0] = <<>> /\ f[1] = f[0] \o <<>> \o T(1) /\ f[2] = f[1] \o <<Space>> \o T(2)
  <2>1. /\ f[0] = <<>>
        /\ f[1] = f[1 - 1] \o (IF 1 > 1 THEN <<Space>> ELSE <<>>) \o T(1)
        /\ f[2] = f[2 - 1] \o (IF 2 > 1 THEN <<Space>> ELSE <<>>) \o T(2)
    <3>1. \A i \in 0..2 : f[i] = Step(f)[i]
      BY <1>3, Zenon
    <3> QED BY <3>1
  <2>2. 1 - 1 = 0 /\ 2 - 1 = 1 /\ ~(1 > 1) /\ 2 > 1
    OBVIOUS
  <2> QED BY <2>1, <2>2
<1>5. (<<>> \o <<>>) \o <<"signHash">> = <<"signHash">>
  OBVIOUS
<1>6. T(1) = <<"signHash">>
  BY DEF T
<1>7. f[1] = <<"signHash">>
  BY <1>4, <1>5, <1>6, Zenon
<1> QED BY <1>1, <1>4, <1>7, Zenon DEF T

\* What computeExpectedCommand makes of this template: the recursive function has three
\* values, which are written out and shown to be its only solution.
LEMMA ExpectedSignHash ==
    ASSUME NEW params, NEW c
    PROVE  computeExpectedCommand(params, signHashTemplate, c) =
               <<"signHash">> \o <<Space>> \o Shown("uint", params[1], c)
<1> DEFINE T(i) == EntryText(params, signHashTemplate, i, c)
           texts == [i \in 1..Len(signHashTemplate) |-> T(i)]
<1>0. Len(signHashTemplate) = 2
  BY DEF signHashTemplate
<1>1. computeExpectedCommand(params, signHashTemplate, c) = Joined(texts)
  BY Zenon DEF computeExpectedCommand
<1>2. Len(texts) = 2 /\ texts[1] = T(1) /\ texts[2] = T(2)
  <2> HIDE DEF T
  <2> QED BY <1>0
<1>3. T(1) = <<"signHash">>
  <2>1. signHashTemplate[1].text = <<"signHash">>
    BY DEF signHashTemplate
  <2> QED BY <2>1, OneMatcher DEF T, EntryText
<1>4. T(2) = Shown("uint", params[1], c)
  <2>1. signHashTemplate[2].kind = "uint"
    BY DEF signHashTemplate
  <2>2. T(2) = Shown(signHashTemplate[2].kind, params[ParamIndex(signHashTemplate, 2)], c)
    BY OneMatcher DEF T, EntryText
  <2> QED BY <2>1, <2>2, OneMatcher
<1> HIDE DEF texts, T
<1> QED BY <1>1, <1>2, <1>3, <1>4, JoinedTwo

\* Parameters that fit the template begin with a number.
LEMMA SignHashFits ==
    ASSUME NEW params, ParamsFit(params, signHashTemplate)
    PROVE  1 <= Len(params) /\ Decodable("uint", params[1])
<1>1. 2 \in 1..Len(signHashTemplate) /\ signHashTemplate[2].kind = "uint"
  BY DEF signHashTemplate
<1> QED BY <1>1, OneMatcher DEF ParamsFit

\* No text ends in two commands: the word of the template begins both, and is not found
\* in the rest of the longer one.
LEMMA OneSkip ==
    ASSUME NEW masked \in Seq(STRING), NEW k \in 0..Len(masked), NEW m \in 0..Len(masked),
           NEW P \in Seq(STRING \ {"signHash"}), NEW Q \in Seq(STRING \ {"signHash"}),
           Space # "signHash",
           SubSeq(masked, k + 1, Len(masked)) = <<"signHash">> \o <<Space>> \o P,
           SubSeq(masked, m + 1, Len(masked)) = <<"signHash">> \o <<Space>> \o Q
    PROVE  ~(k < m)
<1> SUFFICES ASSUME k < m PROVE FALSE
  OBVIOUS
<1> DEFINE X == (<<"signHash">> \o <<Space>>) \o P
           Y == (<<"signHash">> \o <<Space>>) \o Q
<1>1. /\ Len(X) = Len(P) + 2 /\ X[2] = Space 
      /\ \A i \in 3..Len(X) : X[i] # "signHash"
  OBVIOUS
<1>2. Len(Y) = Len(Q) + 2 /\ Y[1] = "signHash"
  OBVIOUS
<1> HIDE DEF X, Y
<1>3. Len(X) = Len(masked) - k /\ \A i \in 1..Len(X) : X[i] = masked[k + i]
  <2>1. X = SubSeq(masked, k + 1, Len(masked))
    BY DEF X
  <2>2. k + 1 \in 1..(Len(masked) + 1) /\ Len(masked) \in Nat
    OBVIOUS
  <2> HIDE DEF X
  <2> QED BY <2>1, <2>2
<1>4. Len(Y) = Len(masked) - m /\ \A i \in 1..Len(Y) : Y[i] = masked[m + i]
  <2>1. Y = SubSeq(masked, m + 1, Len(masked))
    BY DEF Y
  <2>2. m + 1 \in 1..(Len(masked) + 1) /\ Len(masked) \in Nat
    OBVIOUS
  <2> HIDE DEF Y
  <2> QED BY <2>1, <2>2
<1>5. Len(Q) \in Nat /\ Len(P) \in Nat
  OBVIOUS
<1>6. Y[1] = masked[m + 1] /\ Len(Y) >= 1
  <2>1. Len(Y) = Len(Q) + 2 /\ Len(Q) \in Nat
    BY <1>2, <1>5
  <2>2. Len(Y) >= 1 /\ 1 \in 1..Len(Y)
    BY <2>1
  <2>3. Y[1] = masked[m + 1]
    BY <1>4, <2>2
  <2> QED BY <2>2, <2>3
<1>7. m - k + 1 \in 2..Len(X)
  <2>1. Len(X) = Len(masked) - k /\ Len(masked) - m >= 1
    BY <1>3, <1>4, <1>6
  <2>2. k \in Int /\ m \in Int /\ Len(masked) \in Int
    OBVIOUS
  <2> HIDE DEF X, Y
  <2> QED BY <2>1, <2>2
<1>8. X[m - k + 1] = masked[m + 1]
  BY <1>3, <1>7
<1>9. X[m - k + 1] # "signHash"
  <2>1. CASE m - k + 1 = 2
    BY <1>1, <2>1
  <2>2. CASE m - k + 1 \in 3..Len(X)
    BY <1>1, <2>2
  <2> QED BY <1>7, <2>1, <2>2
<1> QED BY <1>2, <1>6, <1>8, <1>9

\* What a message whose command matches has behind the skipped prefix.
LEMMA MatchingCommand ==
    ASSUME NEW msg \in Msgs, NEW n, CommandMatches(n, msg)
    PROVE  /\ msg.skippedCommandPrefix \in 0..Len(msg.proof.maskedCommand)
           /\ Len(msg.commandParams) >= 1
           /\ Decodable("uint", msg.commandParams[1])
           /\ \E c \in StringCases :
                  /\ Shown("uint", msg.commandParams[1], c) \in Seq(STRING \ {"signHash"})
                  /\ SubSeq(msg.proof.maskedCommand, msg.skippedCommandPrefix + 1,
                            Len(msg.proof.maskedCommand)) =
                         <<"signHash">> \o <<Space>> \o Shown("uint", msg.commandParams[1], c)
<1>1. /\ msg.skippedCommandPrefix \in Nat
      /\ msg.skippedCommandPrefix <= Len(msg.proof.maskedCommand)
      /\ msg.proof.maskedCommand \in Seq(STRING)
  BY CommandAssumption DEF CommandMatches
<1>2. ParamsFit(msg.commandParams, signHashTemplate)
  BY DEF CommandMatches, IsExpectedCommand
<1>3. 1 <= Len(msg.commandParams) /\ Decodable("uint", msg.commandParams[1])
  BY <1>2, SignHashFits
<1>4. PICK c \in StringCases :
          computeExpectedCommand(msg.commandParams, signHashTemplate, c) =
              SubSeq(msg.proof.maskedCommand, msg.skippedCommandPrefix + 1,
                     Len(msg.proof.maskedCommand))
  BY Zenon DEF CommandMatches, IsExpectedCommand, removePrefix
<1>5. computeExpectedCommand(msg.commandParams, signHashTemplate, c) =
          <<"signHash">> \o <<Space>> \o Shown("uint", msg.commandParams[1], c)
  BY ExpectedSignHash, Zenon
<1>6. Shown("uint", msg.commandParams[1], c) \in Seq(STRING \ {"signHash"})
  <2> DEFINE uints == { m.commandParams[1] : m \in
                          {m \in Msgs : /\ Len(m.commandParams) >= 1
                                        /\ Decodable("uint", m.commandParams[1])} }
  <2>1. \A p \in uints, d \in StringCases : Shown("uint", p, d) \in Seq(STRING \ {"signHash"})
    BY CommandAssumption
  <2>2. msg.commandParams[1] \in uints
    BY <1>3
  <2> HIDE DEF uints
  <2> QED BY <2>1, <2>2, Zenon
<1>7. msg.skippedCommandPrefix \in 0..Len(msg.proof.maskedCommand)
  BY <1>1
<1>8. SubSeq(msg.proof.maskedCommand, msg.skippedCommandPrefix + 1,
             Len(msg.proof.maskedCommand)) =
          <<"signHash">> \o <<Space>> \o Shown("uint", msg.commandParams[1], c)
  BY <1>4, <1>5, Zenon
<1> QED BY <1>3, <1>6, <1>7, <1>8, Zenon

\* A proof signs at most one hash, whatever prefix a caller skips and whatever parameters
\* it passes (EmailSigner.verifyEmail and isValidSignature): whether the caller's prefix
\* ends before an older command quoted in the email or behind it, only one of the two
\* rests is a command.
THEOREM OneHash == Spec => []OneHashPerProof
<1>1. OneHashPerProof
  <2> SUFFICES ASSUME NEW x \in Accepted, NEW y \in Accepted, x[2].proof = y[2].proof
               PROVE  signedHash(x[2]) = signedHash(y[2])
    BY DEF OneHashPerProof
  <2> DEFINE masked == x[2].proof.maskedCommand
             k == x[2].skippedCommandPrefix
             m == y[2].skippedCommandPrefix
             p == x[2].commandParams[1]
             q == y[2].commandParams[1]
  <2>1. x[2] \in Msgs /\ y[2] \in Msgs /\ y[2].proof.maskedCommand = masked
    BY AcceptedIs
  <2>2. PICK n : CommandMatches(n, x[2])
    BY AcceptedIs DEF verifyEmail
  <2>3. PICK o : CommandMatches(o, y[2])
    BY AcceptedIs DEF verifyEmail
  <2>4. PICK c \in StringCases :
          /\ SubSeq(masked, k + 1, Len(masked)) = <<"signHash">> \o <<Space>> \o Shown("uint", p, c)
          /\ Shown("uint", p, c) \in Seq(STRING \ {"signHash"})
    BY <2>1, <2>2, MatchingCommand
  <2>5. PICK d \in StringCases :
          /\ SubSeq(masked, m + 1, Len(masked)) = <<"signHash">> \o <<Space>> \o Shown("uint", q, d)
          /\ Shown("uint", q, d) \in Seq(STRING \ {"signHash"})
    BY <2>1, <2>3, MatchingCommand
  <2>6. masked \in Seq(STRING) /\ k \in 0..Len(masked) /\ m \in 0..Len(masked)
    BY <2>1, <2>2, <2>3, MatchingCommand, CommandAssumption
  <2>7. /\ Len(x[2].commandParams) >= 1 /\ Decodable("uint", p)
        /\ Len(y[2].commandParams) >= 1 /\ Decodable("uint", q)
    BY <2>1, <2>2, <2>3, MatchingCommand
  <2> HIDE DEF masked, k, m
  <2>8. k = m
    <3>1. ~(k < m)
      BY <2>4, <2>5, <2>6, CommandAssumption, OneSkip
    <3>2. ~(m < k)
      BY <2>4, <2>5, <2>6, CommandAssumption, OneSkip
    <3>3. k \in Int /\ m \in Int
      BY <2>6
    <3> QED BY <3>1, <3>2, <3>3
  <2>9. Shown("uint", p, c) = Shown("uint", q, d)
    <3>1. <<"signHash">> \o <<Space>> \o Shown("uint", p, c) =
              <<"signHash">> \o <<Space>> \o Shown("uint", q, d)
      BY <2>4, <2>5, <2>8
    <3>2. ASSUME NEW P \in Seq(STRING \ {"signHash"}), NEW Q \in Seq(STRING \ {"signHash"}),
                 <<"signHash">> \o <<Space>> \o P = <<"signHash">> \o <<Space>> \o Q
          PROVE P = Q
      <4>1. Len(P) = Len(Q)
        BY <3>2
      <4>2. \A i \in 1..Len(P) : P[i] = (<<"signHash">> \o <<Space>> \o P)[i + 2]
        OBVIOUS
      <4>3. \A i \in 1..Len(Q) : Q[i] = (<<"signHash">> \o <<Space>> \o Q)[i + 2]
        OBVIOUS
      <4> QED BY <3>2, <4>1, <4>2, <4>3
    <3> QED BY <2>4, <2>5, <3>1, <3>2
  <2>10. p.word = q.word
    BY <2>1, <2>7, <2>9, CommandAssumption
  <2> QED BY <2>10 DEF signedHash
<1> QED BY <1>1, PTL
===============================================================================
