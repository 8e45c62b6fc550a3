SPECIFICATION Spec
CONSTANTS
    Tokens <- MCTokens
    TokenLists <- MCTokenLists
    MaxJobArraySize = 6
    INIT_INDEX_NUMBER = 2
    INDEX_INCREMENT = 1
INVARIANTS
    TypeOK
    NoIndexTwice
    ListExact
    WithinBuffers
CHECK_DEADLOCK FALSE
