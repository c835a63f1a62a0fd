SPECIFICATION OnlineSpec
CONSTANTS
    amy = amy
    ben = ben
    first = first
    again = again
    other = other
    Chars = {amy, ben}
    Readers = {first, again, other}
    CharOf <- MCCharOf
    AccountOf <- MCAccountOf
    MayTimeOut = FALSE
    StoreFails = FALSE
    MaxGames = 1
INVARIANT ResultsSaved
CHECK_DEADLOCK FALSE
