SPECIFICATION Spec
CONSTANTS
    Class <- WizardCleric
    Letters <- MCLetters
    Words <- MCWords
    Answers <- TwoAnswers
    Fakes <- MCFakes
    Cost <- MCCost
    MaxGuesses = 2
    GreenEnergy = 1
    YellowEnergy = 0
    MissileEnergy = 1
    IllusionEnergy = 1
    IllusionGuesses = 1
    ReshapeOptions = 1
    ScrambleGuesses = 1
    MaxEnergy = 1
    MaxRows = 2
    MaxEyes = 2
    MaxMissiles = 1
INVARIANTS
    EyesWatchLetters
    BoardMatchesWord
    BoardIsLearned
PROPERTIES
    FoundStaysFound
CHECK_DEADLOCK FALSE
