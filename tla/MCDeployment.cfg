SPECIFICATION DeploymentSpec
CONSTANTS
    d1 = d1
    d2 = d2
    h1 = h1
    g1 = g1
    g2 = g2
    Space <- MCSpace
    Shown <- MCShown
    Decodable <- MCDecodable
    Accounts = {a1, a2}
    Users = {u1}
    NoAddr = NoAddr
    Implementations = {impl}
    Selectors = {sel}
    Domains <- MCDomains
    Hashes <- MCHashes
    Registries = {dkimRegistry, otherRegistry}
    DkimRegistry = dkimRegistry
    Verifier = verifierProxy
    Groth16Verifiers <- MCGroth16Verifiers
    Proves <- MCProves
    Salts = {"salt"}
    NoSalt = "0"
    TemplateIds = {1}
    Templates <- MCTemplates
    Nullifiers = {"n1"}
    Timestamps = {0, 1}
    Msgs <- MCMsgs
    CommandBytes <- MCCommandBytes
    MaxSignatures = 3
INVARIANT TypeOK
PROPERTIES
    NeverRevived
    OnlySignerDecides
    RevokedNeverAuthorizes
    RenouncedDeploymentIsFixed
CONSTRAINTS
    SignaturesBounded
    CheckStaysOn
SYMMETRY Symmetry
