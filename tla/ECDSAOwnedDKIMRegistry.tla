------------------------ MODULE ECDSAOwnedDKIMRegistry ------------------------
(***************************************************************************)
(* The contract utils/ECDSAOwnedDKIMRegistry.sol and the DKIMRegistry it   *)
(* owns: which public key hashes count as keys of which domain.            *)
(*                                                                         *)
(* Anyone may call set and revoke: the authority is the ECDSA signature    *)
(* they pass.  The signed message holds no nonce, no contract address and  *)
(* no selector, so a signature that was issued once can be presented again *)
(* by anyone at any time: `signatures` only grows.                         *)
(***************************************************************************)
EXTENDS Naturals, FiniteSets

CONSTANTS
    Accounts,           \* owners and signers
    NoAddr,             \* address(0)
    Implementations,    \* addresses of the contract's code
    Selectors,          \* the non-empty DKIM selectors
    Domains, Hashes     \* the non-empty domain names, the non-zero public key hashes

ASSUME AddressAssumption == NoAddr \notin Accounts \union Implementations

SET_PREFIX == "SET:"
REVOKE_PREFIX == "REVOKE:"

\* The hash is the last part of the signed string and printed without ';', so
\* the string determines the three parts.
computeSignedMsg(prefix, domainName, publicKeyHash) == <<prefix, domainName, publicKeyHash>>

SignedMsg == {SET_PREFIX, REVOKE_PREFIX} \X Domains \X Hashes

VARIABLES
    owner, initialized,            \* of OwnableUpgradeable and Initializable
    implementation,                \* of the proxy; all run this contract's code
    signer,
    dkimPublicKeyHashes,           \* DKIMRegistry: the (domain, hash) pairs ever set
    revokedDKIMPublicKeyHashes,    \* DKIMRegistry: the revoked hashes, of whatever domain
    signatures,                    \* the signatures issued so far: [by, msg]
    everSet                        \* history: the pairs that set ever made valid

book == <<dkimPublicKeyHashes, revokedDKIMPublicKeyHashes, everSet>>
admin == <<owner, initialized, implementation, signer>>
vars == <<admin, book, signatures>>

Init ==
    /\ owner = NoAddr
    /\ initialized = FALSE
    /\ implementation \in Implementations
    /\ signer = NoAddr
    /\ dkimPublicKeyHashes = {}
    /\ revokedDKIMPublicKeyHashes = {}
    /\ signatures = {}
    /\ everSet = {}

initialize(initialOwner, initialSigner) ==
    /\ ~initialized
    /\ initialized' = TRUE
    /\ owner' = initialOwner
    /\ signer' = initialSigner
    /\ UNCHANGED <<implementation, book, signatures>>

-------------------------------------------------------------------------------
\* The keys

\* Mutation: revocations are not looked at.
ValidWhenSet(domainName, publicKeyHash) == <<domainName, publicKeyHash>> \in dkimPublicKeyHashes

isDKIMPublicKeyHashValid(domainName, publicKeyHash) ==
    /\ <<domainName, publicKeyHash>> \in dkimPublicKeyHashes
    /\ publicKeyHash \notin revokedDKIMPublicKeyHashes

\* Mutation: the recovered address is compared with the owner.
SignedByOwner(msg) == [by |-> owner, msg |-> msg] \in signatures

\* ECDSA recovery of the presented signature yields the signer exactly when the
\* signer issued a signature of this message.
SignedBySigner(msg) == [by |-> signer, msg |-> msg] \in signatures

\* Mutation: the two keys of the mapping are swapped.
RecordSwapped(domainName, publicKeyHash) ==
    /\ dkimPublicKeyHashes' = dkimPublicKeyHashes \union {<<publicKeyHash, domainName>>}
    /\ UNCHANGED revokedDKIMPublicKeyHashes

\* Mutation: revocation deletes the entry and remembers nothing.
DeleteKey(domainName, publicKeyHash) ==
    /\ dkimPublicKeyHashes' = dkimPublicKeyHashes \ {<<domainName, publicKeyHash>>}
    /\ UNCHANGED revokedDKIMPublicKeyHashes

\* DKIMRegistry.setDKIMPublicKeyHash and DKIMRegistry.revokeDKIMPublicKeyHash.
RecordKey(domainName, publicKeyHash) ==
    /\ dkimPublicKeyHashes' = dkimPublicKeyHashes \union {<<domainName, publicKeyHash>>}
    /\ UNCHANGED revokedDKIMPublicKeyHashes

RevokeKey(domainName, publicKeyHash) ==
    /\ revokedDKIMPublicKeyHashes' = revokedDKIMPublicKeyHashes \union {publicKeyHash}
    /\ UNCHANGED dkimPublicKeyHashes

setDKIMPublicKeyHash(selector, domainName, publicKeyHash) ==
    /\ selector \in Selectors
    /\ ~isDKIMPublicKeyHashValid(domainName, publicKeyHash)
    /\ publicKeyHash \notin revokedDKIMPublicKeyHashes
    /\ SignedBySigner(computeSignedMsg(SET_PREFIX, domainName, publicKeyHash))
    /\ RecordKey(domainName, publicKeyHash)
    /\ everSet' = everSet \union {<<domainName, publicKeyHash>>}
    /\ UNCHANGED <<admin, signatures>>

revokeDKIMPublicKeyHash(selector, domainName, publicKeyHash) ==
    /\ selector \in Selectors
    /\ isDKIMPublicKeyHashValid(domainName, publicKeyHash)
    /\ publicKeyHash \notin revokedDKIMPublicKeyHashes
    /\ SignedBySigner(computeSignedMsg(REVOKE_PREFIX, domainName, publicKeyHash))
    /\ RevokeKey(domainName, publicKeyHash)
    /\ UNCHANGED <<admin, signatures, everSet>>

-------------------------------------------------------------------------------
\* The signer and the owner

\* Off chain, the holder of an account's key signs a message (the DKIM oracle).
Sign(account, msg) ==
    /\ signatures' = signatures \union {[by |-> account, msg |-> msg]}
    /\ UNCHANGED <<admin, book>>

changeSigner(sender, newSigner) ==
    /\ sender = owner
    /\ newSigner # NoAddr
    /\ newSigner # signer
    /\ signer' = newSigner
    /\ UNCHANGED <<owner, initialized, implementation, book, signatures>>

\* OwnableUpgradeable.
transferOwnership(sender, newOwner) ==
    /\ sender = owner
    /\ owner' = newOwner
    /\ UNCHANGED <<initialized, implementation, signer, book, signatures>>

renounceOwnership(sender) ==
    /\ sender = owner
    /\ owner' = NoAddr
    /\ UNCHANGED <<initialized, implementation, signer, book, signatures>>

\* UUPSUpgradeable, which asks _authorizeUpgrade.
upgradeToAndCall(sender, newImplementation) ==
    /\ sender = owner
    /\ implementation' = newImplementation
    /\ UNCHANGED <<owner, initialized, signer, book, signatures>>

-------------------------------------------------------------------------------

Next ==
    \/ \E initialOwner, initialSigner \in Accounts : initialize(initialOwner, initialSigner)
    \/ \E selector \in Selectors, domainName \in Domains, publicKeyHash \in Hashes :
           \/ setDKIMPublicKeyHash(selector, domainName, publicKeyHash)
           \/ revokeDKIMPublicKeyHash(selector, domainName, publicKeyHash)
    \/ \E account \in Accounts, msg \in SignedMsg : Sign(account, msg)
    \/ \E sender \in Accounts :
           \/ \E account \in Accounts :
                  changeSigner(sender, account) \/ transferOwnership(sender, account)
           \/ renounceOwnership(sender)
           \/ \E i \in Implementations : upgradeToAndCall(sender, i)

Spec == Init /\ [][Next]_vars

-------------------------------------------------------------------------------

TypeOK ==
    /\ owner \in Accounts \union {NoAddr}
    /\ initialized \in BOOLEAN
    /\ implementation \in Implementations
    /\ signer \in Accounts \union {NoAddr}
    /\ dkimPublicKeyHashes \subseteq Domains \X Hashes
    /\ revokedDKIMPublicKeyHashes \subseteq Hashes
    /\ signatures \subseteq [by : Accounts, msg : SignedMsg]
    /\ everSet \subseteq Domains \X Hashes

\* A hash that was valid for a domain and is not any more never is again, for any
\* domain, although the SET signatures that once made it valid stay presentable
\* (setDKIMPublicKeyHash, ECDSAOwnedDKIMRegistry.sol:61).
NeverRevived ==
    [][ \A h \in Hashes :
            (\E d \in Domains : <<d, h>> \in everSet /\ ~isDKIMPublicKeyHashValid(d, h))
                => \A d \in Domains : ~isDKIMPublicKeyHashValid(d, h)' ]_vars

\* Whoever calls, a key becomes valid only on the word of the account that is the
\* signer at that moment, for that domain and hash, and a hash falls only on that
\* signer's word for a domain where the hash was valid: signatures of a former
\* signer, of the owner, or for the other operation have no force.
OnlySignerDecides ==
    [][ \A h \in Hashes :
            /\ \A d \in Domains :
                   ~isDKIMPublicKeyHashValid(d, h) /\ isDKIMPublicKeyHashValid(d, h)' =>
                       [by |-> signer, msg |-> <<"SET:", d, h>>] \in signatures
            /\ (\E d \in Domains :
                    isDKIMPublicKeyHashValid(d, h) /\ ~isDKIMPublicKeyHashValid(d, h)') =>
                       \E d \in Domains :
                           /\ isDKIMPublicKeyHashValid(d, h)
                           /\ [by |-> signer, msg |-> <<"REVOKE:", d, h>>] \in signatures ]_vars

\* ECDSAOwnedDKIMRegistry.sol:93, "Revokes a DKIM public key hash for a domain name": a hash
\* falls for a domain only if the signer says so of that domain.
RevokedWhereSigned ==
    [][ \A d \in Domains, h \in Hashes :
            isDKIMPublicKeyHashValid(d, h) /\ ~isDKIMPublicKeyHashValid(d, h)' =>
                [by |-> signer, msg |-> <<"REVOKE:", d, h>>] \in signatures ]_vars
===============================================================================
