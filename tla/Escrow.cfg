CONSTANTS
    States = {s1, s2}
    Wallets = {w1, w2}
    People = {author, dest}
    NoOne = NoOne
    Sizes = {123, 138, 140}
    Amounts = {1}
    Supply = 2
SPECIFICATION CancelSpec
INVARIANTS TypeOK RequestsBacked UnfundedNeverLoads
PROPERTIES RequestsEndPaid AuthorNotStuck
CHECK_DEADLOCK FALSE
