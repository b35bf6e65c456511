CONSTANTS
    Addresses = {a1, a2, a3, a4, a5}
    fanout_addr = a5
    ONE = 100
    Shares = {1, 2, 3}
    MaxLen = 4
    BasisPoints = 4
    MaxMembers = 4
    Receipts = {2, 5}
    MaxReceived = 18
SPECIFICATION DistributeSpec
INVARIANTS FairParts
PROPERTIES NothingLeft MembersPaid
CHECK_DEADLOCK FALSE
