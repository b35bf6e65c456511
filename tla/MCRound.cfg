CONSTANTS
    Users = {u1, u2}
    ONE = 1000
    TIMEOUT = 1
    MaxTime = 4
    Times = {0, 1, 2}
    BidFunds = 2
    OfferFunds = 2
    Bids = {0, 1, 2}
    Targets = {0, 3}
    Natives = {TRUE, FALSE}
SPECIFICATION RefundSpec
INVARIANTS TypeOK VouchersCounted NativeSealed BidsBacked
PROPERTIES BidComesBack  ShareFrozen RoundLifeKept ReleasedOnceAsAWhole VoucherPaidInFull
CHECK_DEADLOCK FALSE
