CONSTANTS
    Users = {u1, u2, u3}
    ONE = 1000
    TIMEOUT = 1
    MaxTime = 3
    Times = {0, 1}
    BidFunds = 2
    OfferFunds = 2
    Bids = {1, 2}
    Targets = {0}
    Natives = {TRUE}
SPECIFICATION Spec
INVARIANTS UsersCanRedeem
CHECK_DEADLOCK FALSE
