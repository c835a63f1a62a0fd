SPECIFICATION FairSpec
CONSTANTS
    Clerics = {ada, bea}
    Words = {crane, slate}
    Cost <- MCCost
    MaxPrayers = 1
    MaxCmds = 1
    NoDuel = NoDuel
    NoAnswer = NoAnswer
    MaxCasts = 2
    MaxDuels = 2
    MaxEnergy = 2
INVARIANTS
    TypeOK
    EnergyAccounted
    SlotsHeld
PROPERTIES
    HeardOnceAndInTime
    EveryPrayerSettles
CHECK_DEADLOCK FALSE
