SPECIFICATION TxSpec
CONSTANTS
    Wallets = {w1, w2}
    Vault = Vault
    Ids = {i1}
    NoId = NoId
    PartySets = {{w1, w2}}
    Txs = {t1, t2}
SYMMETRY Symmetry
INVARIANT TxTypeOK
PROPERTIES
    CredentialMissingOnlyIfStale
    
CHECK_DEADLOCK FALSE
