SPECIFICATION OnlineFairSpec
CONSTANTS
    amy = amy
    ben = ben
    first = first
    again = again
    other = other
    Chars = {amy, ben}
    Readers = {first, again, other}
    CharOf <- MCCharOf
    AccountOf <- MCAccountOf
    MayTimeOut = TRUE
    StoreFails = FALSE
    MaxGames = 1
INVARIANTS
    OnlineTypeOK
    OnePlayerPerAccount
    SlotHeldOnce
    RatingIsCurrent
    NoLostWakeup
PROPERTIES
    KickedLeaves
    ResultsReachStore
CHECK_DEADLOCK FALSE
