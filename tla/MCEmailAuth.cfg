SPECIFICATION Spec
CONSTANTS
    Space <- MCSpace
    Shown <- MCShown
    Decodable <- MCDecodable
    Accounts = {a1, a2}
    NoAddr = NoAddr
    Registries = {r1, r2}
    Verifiers = {v1}
    Salts = {"salt"}
    NoSalt = "0"
    Keys <- OneKey
    TemplateIds = {1}
    Templates <- MCTemplates
    Nullifiers = {"n1", "n2", "n3", "n4"}
    Timestamps = {0, 1, 2, 3}
    Msgs <- MCMsgs
    ProofSets <- MCProofSets
    Implementations = {i1, i2}
    CommandBytes <- MCCommandBytes
INVARIANTS
    TypeOK
    UsedIsAuthed
    LastTimestampIsLatestChecked
PROPERTIES
    RefinesPromise
    RenouncedIsFrozen
SYMMETRY Symmetry
