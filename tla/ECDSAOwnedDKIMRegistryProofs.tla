--------------------- MODULE ECDSAOwnedDKIMRegistryProofs ---------------------
(***************************************************************************)
(* The registry's promises for all accounts, domains, hashes and numbers   *)
(* of signatures in circulation.                                           *)
(*                                                                         *)
(* That nothing is revived needs one fact about the past: a pair that set  *)
(* ever made valid is still recorded, so the only way it can have become   *)
(* invalid is the revocation of its hash, which nothing takes back.        *)
(***************************************************************************)
EXTENDS ECDSAOwnedDKIMRegistry, TLAPS

Inv == TypeOK /\ everSet \subseteq dkimPublicKeyHashes

\* Every step is one of the functions, a signature or a stutter: which of them
\* touches the keys.
LEMMA StepsOfTheBook ==
    ASSUME [Next]_vars
    PROVE  \/ UNCHANGED book
           \/ \E s \in Selectors, d \in Domains, h \in Hashes :
                  setDKIMPublicKeyHash(s, d, h) \/ revokeDKIMPublicKeyHash(s, d, h)
  BY DEF Next, vars, book, initialize, Sign, changeSigner, transferOwnership, renounceOwnership,
         upgradeToAndCall

\* The initial state satisfies the invariant.
LEMMA InitInv == Init => Inv
  BY DEF Init, Inv, TypeOK

\* Every function and every signature keeps it.
LEMMA NextInv == Inv /\ [Next]_vars => Inv'
  <1> SUFFICES ASSUME Inv, [Next]_vars PROVE Inv'
    OBVIOUS
  <1> USE DEF Inv
  <1>1. ASSUME NEW s \in Selectors, NEW d \in Domains, NEW h \in Hashes,
               setDKIMPublicKeyHash(s, d, h)
        PROVE  Inv'
    BY <1>1 DEF setDKIMPublicKeyHash, RecordKey, admin, TypeOK
  <1>2. ASSUME NEW s \in Selectors, NEW d \in Domains, NEW h \in Hashes,
               revokeDKIMPublicKeyHash(s, d, h)
        PROVE  Inv'
    BY <1>2 DEF revokeDKIMPublicKeyHash, RevokeKey, admin, TypeOK
  <1>3. ASSUME NEW a \in Accounts, NEW b \in Accounts, initialize(a, b)
        PROVE  Inv'
    BY <1>3 DEF initialize, book, TypeOK
  <1>4. ASSUME NEW a \in Accounts, NEW msg \in SignedMsg, Sign(a, msg)
        PROVE  Inv'
    BY <1>4 DEF Sign, admin, book, TypeOK
  <1>5. ASSUME NEW a \in Accounts, NEW b \in Accounts, changeSigner(a, b)
        PROVE  Inv'
    BY <1>5 DEF changeSigner, book, TypeOK
  <1>6. ASSUME NEW a \in Accounts, NEW b \in Accounts, transferOwnership(a, b)
        PROVE  Inv'
    BY <1>6 DEF transferOwnership, book, TypeOK
  <1>7. ASSUME NEW a \in Accounts, renounceOwnership(a)
        PROVE  Inv'
    BY <1>7 DEF renounceOwnership, book, TypeOK
  <1>8. ASSUME NEW a \in Accounts, NEW i \in Implementations, upgradeToAndCall(a, i)
        PROVE  Inv'
    BY <1>8 DEF upgradeToAndCall, book, TypeOK
  <1>9. CASE UNCHANGED vars
    BY <1>9 DEF vars, admin, book, TypeOK
  <1> QED
    BY <1>1, <1>2, <1>3, <1>4, <1>5, <1>6, <1>7, <1>8, <1>9 DEF Next

\* The types, and that a pair once set stays recorded, in every reachable state.
THEOREM Invariance == Spec => []Inv
  BY InitInv, NextInv, PTL DEF Spec

\* The types of the registry's storage.
THEOREM TypeCorrect == Spec => []TypeOK
  <1>1. Inv => TypeOK
    BY DEF Inv
  <1> QED
    BY <1>1, Invariance, PTL

\* No signature ever issued brings a key back that was revoked.
THEOREM RevocationIsFinal == Spec => NeverRevived
  <1> DEFINE Final ==
          \A h \in Hashes :
              (\E d \in Domains : <<d, h>> \in everSet /\ ~isDKIMPublicKeyHashValid(d, h))
                  => \A d \in Domains : ~isDKIMPublicKeyHashValid(d, h)'
  <1>1. Inv /\ [Next]_vars => [Final]_vars
    <2> SUFFICES ASSUME Inv, [Next]_vars,
                        NEW h \in Hashes, NEW d \in Domains,
                        <<d, h>> \in everSet, ~isDKIMPublicKeyHashValid(d, h)
                 PROVE  h \in revokedDKIMPublicKeyHashes'
      BY DEF isDKIMPublicKeyHashValid
    <2>1. h \in revokedDKIMPublicKeyHashes
      BY DEF Inv, isDKIMPublicKeyHashValid
    <2> QED
      BY <2>1, StepsOfTheBook
         DEF book, setDKIMPublicKeyHash, RecordKey, revokeDKIMPublicKeyHash, RevokeKey
  <1> QED
    BY <1>1, Invariance, PTL DEF Spec, NeverRevived

\* Keys come and go only on the word of whoever is the signer at that moment.
THEOREM SignerDecides == Spec => OnlySignerDecides
  <1> DEFINE Valid(d, h) == isDKIMPublicKeyHashValid(d, h)
             Decided ==
               \A h \in Hashes :
                 /\ \A d \in Domains :
                        ~Valid(d, h) /\ Valid(d, h)' =>
                            [by |-> signer, msg |-> <<"SET:", d, h>>] \in signatures
                 /\ (\E d \in Domains : Valid(d, h) /\ ~Valid(d, h)') =>
                            \E d \in Domains :
                                /\ Valid(d, h)
                                /\ [by |-> signer, msg |-> <<"REVOKE:", d, h>>] \in signatures
  <1>1. ASSUME NEW s \in Selectors, NEW e \in Domains, NEW g \in Hashes,
               setDKIMPublicKeyHash(s, e, g)
        PROVE  Decided
    BY <1>1 DEF setDKIMPublicKeyHash, RecordKey, isDKIMPublicKeyHashValid, SignedBySigner,
                computeSignedMsg, SET_PREFIX
  <1>2. ASSUME NEW s \in Selectors, NEW e \in Domains, NEW g \in Hashes,
               revokeDKIMPublicKeyHash(s, e, g)
        PROVE  Decided
    BY <1>2 DEF revokeDKIMPublicKeyHash, RevokeKey, isDKIMPublicKeyHashValid, SignedBySigner,
                computeSignedMsg, REVOKE_PREFIX
  <1>3. UNCHANGED book => Decided
    BY DEF book, isDKIMPublicKeyHashValid
  <1>4. [Next]_vars => [Decided]_vars
    BY <1>1, <1>2, <1>3, StepsOfTheBook
  <1> QED
    BY <1>4, PTL DEF Spec, OnlySignerDecides
===============================================================================
