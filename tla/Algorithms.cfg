SPECIFICATION Spec
CONSTANTS
    EnableTls = TRUE
    EnableOpaque = TRUE
    UseOpenssl = FALSE
    Hash <- MCHash
INVARIANTS
    ParserExact
    FileTakenOver
    
    CrcIsRemainder
    DamageChangesCrc
    EncodingInverse
    
    HashesMatch
    CodeSeesEveryBit
