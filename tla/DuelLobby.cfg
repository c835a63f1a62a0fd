SPECIFICATION FairSpec
CONSTANTS
    Players = {p1, p2, p3}
    MaxChallenges = 4
    NoDuel = NoDuel
INVARIANTS
    TypeOK
    ChallengesAcceptable
    OnePendingPerSender
    DuelsMutual
    RankedSettledOnce
PROPERTIES
    LeaverLoses
    EveryChallengeCloses
    ImplementsPairing
