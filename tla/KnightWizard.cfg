SPECIFICATION Spec
CONSTANTS
    Class <- KnightWizard
    Letters <- MCLetters
    Words <- MCWords
    Answers <- TwoAnswers
    Fakes <- MCFakes
    Cost <- MCCost
    MaxGuesses = 2
    GreenEnergy = 1
    YellowEnergy = 1
    MissileEnergy = 1
    IllusionEnergy = 1
    IllusionGuesses = 1
    ReshapeOptions = 1
    ScrambleGuesses = 1
    MaxEnergy = 1
    MaxRows = 2
    MaxEyes = 1
    MaxMissiles = 2
INVARIANTS
    DuelTypeOK
    SomeoneCanFinish
    GuessesFitRows
PROPERTIES
    ShieldStopsOne
CHECK_DEADLOCK FALSE
