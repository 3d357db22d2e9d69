SPECIFICATION Spec
CONSTANTS
    Keys <- Plain
    Values <- OneWord
    NoValue = NoValue
    KeyOrder <- Order
    Conns = {5}
    MaxKeys = 2
    NTxns = 2
    TxnKeys = 2
    MaxBegins = 2
    MaxGen = 4
    Faults = {"save", "crash", "removed"}
INVARIANT TypeOK
INVARIANT GenerationsFresh
INVARIANT SlotsOwned
PROPERTY Transactional
