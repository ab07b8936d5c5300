----------------------------- MODULE MCDeployment -----------------------------
(***************************************************************************)
(* Constants of the run of Deployment: one hash that serves two domains,   *)
(* two accounts that may be owner or signer of the registry or owner of    *)
(* the Verifier, one user and one email.  At most MaxSignatures signatures *)
(* are issued.                                                             *)
(***************************************************************************)
EXTENDS Deployment, TLC

CONSTANTS MaxSignatures, d1, d2, h1, g1, g2

\* The email says "Yes", the only command, which takes no parameters.
MCSpace == " "
MCShown(kind, param, stringCase) == <<param>>
MCDecodable(kind, param) == TRUE
MCTemplates == {<< [kind |-> "literal", text |-> <<"Yes">>] >>}

Email ==
    [ domainName |-> d1, publicKeyHash |-> h1, emailNullifier |-> "n1", timestamp |-> 1,
      maskedCommand |-> <<"Yes">>, accountSalt |-> "salt", isCodeExist |-> FALSE ]

MCMsgs ==
    {[templateId |-> 1, commandParams |-> <<>>, skippedCommandPrefix |-> 0, proof |-> Email]}

MCGroth16Verifiers == {g1, g2}
MCProves == (g1 :> {Email}) @@ (g2 :> {})
MCDomains == {d1, d2}
MCHashes == {h1}
MCCommandBytes == [v \in {Verifier} |-> 5]

SignaturesBounded == Cardinality(signatures) <= MaxSignatures

\* What the timestamp check does is the subject of the run of EmailAuth.
CheckStaysOn == authInitialized => timestampCheckEnabled

Symmetry == Permutations(Accounts)
===============================================================================
