SPECIFICATION Spec
CONSTANTS
    Space <- MCSpace
    Shown <- MCShown
    Decodable <- MCDecodable
    Encoded <- MCEncoded
    IsValue <- MCIsValue
    Addresses <- MCAddresses
    ParamsOf <- MCParamsOf
    Literals <- MCLiterals
    AskedMatchers <- MCAskedMatchers
    Words <- MCWords
    AskedParams <- MCAskedParams
    EmptyRequests <- MCEmptyRequests
    SoftBreak = "=rn"
    CodeToken = "1c"
    MaxDigits = 5
    MaxDecimal = 5
    MaxEntries = 3
    MaxWords = 1
    MaxMatchers = 2
    MaxParams = 2
CHECK_DEADLOCK FALSE
INVARIANT
    HumanReadable
