CONSTANTS
    Users = {o, u1, u2}
    Owner = o
    Host = o
    Mixers = {o, u1, u2}
    OtherBalances = {2}
    Voters = {}
    ONE = 100
    TokenFunds = 1
    OwnerFunds = 1
    Amounts = {1}
    MaxStake = 2
    Receipts = {}
    MaxReceived = 0
    MaxDrops = 0
    Minimum = 3
    BasisPoints = 10
    HostFee = 1
SPECIFICATION Spec
SYMMETRY Symmetry
INVARIANTS HeldIsStaked
CHECK_DEADLOCK FALSE
