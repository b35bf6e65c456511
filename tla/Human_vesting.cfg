CONSTANTS
    Rounds = {r1, r2}
    Fanouts = {f1}
    Wallets = {w1}
    state_addr = state_addr
    None = None
    Garbage = Garbage
    Junk = Junk
    MAX_COMPLETED = 1
    Supply = 21
    Offers = {9, 20}
    OtherOffers = {20, 250}
    Lots = {9}
    MaxMade = 3
SPECIFICATION ClaimSpec

PROPERTIES RoundsVest
CHECK_DEADLOCK FALSE
