SPECIFICATION Spec
CONSTANTS
    Users = {u1, u2}
    Wallets = {w1}
    Nonces = {n1, n2}
    Tokens = {t1, t2, t3}
    Providers = {google, microsoft}
    ProviderIds = {i1, i2}
    Emails = {e1}
    Requests = {r1, r2, r3}
    None = None
SYMMETRY Symmetry
INVARIANTS
    TypeOK
    SessionsAreNotForked
    AccessTokensNameOwnWallet
PROPERTY WalletStaysWithAccount
CHECK_DEADLOCK FALSE
