------------------------------- MODULE Verifier -------------------------------
(***************************************************************************)
(* The administration of the contract utils/Verifier.sol: who may choose   *)
(* the Groth16 verifier that decides over a proof.  How the contract makes *)
(* the public signals of a proof is the subject of CommandSignals.         *)
(***************************************************************************)
CONSTANTS
    Accounts, NoAddr,    \* addresses that send transactions, address(0)
    Implementations,     \* addresses of the contract's code
    Groth16Verifiers     \* contracts that check proofs

VARIABLES owner, initialized, implementation, groth16Verifier

vars == <<owner, initialized, implementation, groth16Verifier>>

Init ==
    /\ owner = NoAddr
    /\ initialized = FALSE
    /\ implementation \in Implementations
    /\ groth16Verifier = NoAddr

initialize(initialOwner, groth16) ==
    /\ ~initialized
    /\ initialized' = TRUE
    /\ owner' = initialOwner
    /\ groth16Verifier' = groth16
    /\ UNCHANGED implementation

\* Mutation: the modifier onlyOwner is missing.
UpdateByAnyone(sender, groth16) ==
    /\ groth16 # NoAddr
    /\ groth16Verifier' = groth16
    /\ UNCHANGED <<owner, initialized, implementation>>

updateGroth16Verifier(sender, groth16) ==
    /\ sender = owner
    /\ groth16 # NoAddr
    /\ groth16Verifier' = groth16
    /\ UNCHANGED <<owner, initialized, implementation>>

\* OwnableUpgradeable.
transferOwnership(sender, newOwner) ==
    /\ sender = owner
    /\ owner' = newOwner
    /\ UNCHANGED <<initialized, implementation, groth16Verifier>>

renounceOwnership(sender) ==
    /\ sender = owner
    /\ owner' = NoAddr
    /\ UNCHANGED <<initialized, implementation, groth16Verifier>>

\* UUPSUpgradeable, which asks _authorizeUpgrade.
upgradeToAndCall(sender, newImplementation) ==
    /\ sender = owner
    /\ implementation' = newImplementation
    /\ UNCHANGED <<owner, initialized, groth16Verifier>>

Next ==
    \/ \E initialOwner \in Accounts, groth16 \in Groth16Verifiers : initialize(initialOwner, groth16)
    \/ \E sender \in Accounts :
           \/ \E groth16 \in Groth16Verifiers : updateGroth16Verifier(sender, groth16)
           \/ \E newOwner \in Accounts : transferOwnership(sender, newOwner)
           \/ renounceOwnership(sender)
           \/ \E i \in Implementations : upgradeToAndCall(sender, i)
===============================================================================
