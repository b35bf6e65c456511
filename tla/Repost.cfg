CONSTANTS
    States = {s1, s2}
    Users = {owner, u1}
    owner = owner
    Posts = {p1, p2}
    Mints = {m1, m2}
    Empty = Empty
    DAY = 2
    MAX_REPOST_TIME = 2
    REPOST_REDEEM_COOLDOWN = 2
    BUY_COMMISSION = 1
    TREASURY_COMMISSION = 8
    BSP = 10
    COEFF = 10
    ONE = 100
    DEFAULT_REPORT_PRICE_LAMPORTS = 10
    FREE_REPOST_RECEIVE_AMOUNT = 2
    Start = 14
    MaxTime = 16
    Prices = {0, 35}
    CreatedAt = {14, 16}
    Funds = 70
    VaultLevels = {0, 40}
    PoolTokens = 8
    PoolWsol = 5
    PoolSupply = 2
    MaxReposts = 2
SPECIFICATION Spec
INVARIANTS TypeOK LamportsKept
PROPERTIES RecordPaidOnce CommissionUsed
CHECK_DEADLOCK FALSE
