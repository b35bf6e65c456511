CONSTANTS
    ONE = 100
    VESTING_TOTAL_PARTS = 5
    VESTING_PART_LENGTH = 2
    MaxTime = 13
    Supplies = {0, 3, 7, 11, 13}
    Deposits = {1, 5}
    MaxEntered = 16
SPECIFICATION VestSpec
INVARIANTS NeverAhead LittleLeft
PROPERTIES VestingCompletes
CHECK_DEADLOCK FALSE
