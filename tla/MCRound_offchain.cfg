CONSTANTS
    Users = {u1, u2}
    ONE = 1000
    TIMEOUT = 1
    MaxTime = 3
    Times = {0, 1}
    BidFunds = 1
    OfferFunds = 1
    Bids = {1}
    Targets = {0}
    Natives = {TRUE}
SPECIFICATION SettleSpec
PROPERTIES EverybodyWithdraws
CHECK_DEADLOCK FALSE
