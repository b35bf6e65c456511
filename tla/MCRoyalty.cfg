CONSTANTS
    Users = {o, u1, u2}
    Owner = o
    Host = o
    Mixers = {u1}
    OtherBalances = {2}
    Voters = {o, u2}
    ONE = 100
    TokenFunds = 0
    OwnerFunds = 2
    Amounts = {1}
    MaxStake = 2
    Receipts = {8}
    MaxReceived = 16
    MaxDrops = 2
    Minimum = 3
    BasisPoints = 10
    HostFee = 1
SPECIFICATION DistributeSpec
INVARIANTS TypeOK DropsInStep StakeBacked LamportsConserved RoundingBounded VotesBacked WeightsWithinMax
PROPERTIES ImplementsDrop DistributionEnds
CHECK_DEADLOCK FALSE
