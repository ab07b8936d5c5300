SPECIFICATION Spec
CONSTANTS
    Space <- MCSpace
    Shown <- MCShown
    Decodable <- MCDecodable
    Accounts = {a1}
    NoAddr = NoAddr
    Implementations = {impl}
    NoSalt = "0x0"
    NoTemplateId = "0"
    Predicted <- MCPredicted
    TemplateIdOf <- MCTemplateIdOf
    Selectors = {sel}
    Domains = {"d"}
    Hashes = {"h1", "h2"}
    Salts = {"s1", "s2"}
    Elsewhere = {"elsewhere"}
    dkimRegistry = registry
    verifier = verifier
    Registries = {registry, stranger}
    Verifiers = {verifier}
    ForeignKeys <- MCForeignKeys
    Accepts <- MCAccepts
    CommandBytes <- MCCommandBytes
    TemplateIds = {"t1", "t2", "t3"}
    Msgs <- MCMsgs
    MaxSignatures = 3
INVARIANTS
    TypeOK
    FactorySignersAreBound
    OneSignerPerProof
    OneHashPerProof
PROPERTY RevokedIsNeverAccepted
CONSTRAINT SignaturesBounded
