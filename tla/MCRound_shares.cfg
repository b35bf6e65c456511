CONSTANTS
    Users = {u1, u2, u3}
    ONE = 1000
    TIMEOUT = 1
    MaxTime = 3
    Times = {0, 1}
    BidFunds = 3
    OfferFunds = 5
    Bids = {1, 2, 3}
    Targets = {0, 5}
    Natives = {TRUE}
SPECIFICATION Spec
SYMMETRY Symmetry
INVARIANTS OverclaimBounded
PROPERTIES ImplementsEscrow
CHECK_DEADLOCK FALSE
