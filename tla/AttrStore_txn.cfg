SPECIFICATION Spec
CONSTANTS
    Keys <- One
    Values <- Words2
    NoValue = NoValue
    KeyOrder <- Order
    Conns = {5}
    MaxKeys = 2
    NTxns = 2
    TxnKeys = 2
    MaxBegins = 4
    MaxGen = 5
    Faults = {}
PROPERTY Transactional
