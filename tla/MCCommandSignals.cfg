SPECIFICATION Spec
CONSTANTS
    Base = 4
    FieldBytes = 4
    Prime = 769
    DOMAIN_BYTES = 3
    COMMAND_BYTES = 5
    TypedBytes = {1, 2}
    SecretBytes = {1}
    TextBytes = {0, 1}
CHECK_DEADLOCK FALSE
INVARIANTS
    ProofVerifiesUnlessGap
    VerifiedTextIsTyped
    AcceptedTextIsMasked
