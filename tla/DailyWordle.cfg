SPECIFICATION Spec
CONSTANTS
    Accounts = {amy}
    a = a
    b = b
    None = None
    Letters = {a, b}
    WordOf <- MCWordOf
    Guessable <- MCGuessable
    GuessesAllowed = 3
    Slots = {0}
    MaxDays = 2
    MaxChars = 2
INVARIANTS
    TypeOK
    ColorsRight
    ResultIsFirst
    GuessesNotReset
    ToldIsKept
    WinsAreListed
PROPERTIES
    NoGuessAfterEnd
