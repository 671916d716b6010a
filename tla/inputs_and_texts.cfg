SPECIFICATION Spec
CONSTANTS
    Star = Star
    Point = Point
    Dollar = Dollar
    Comma = Comma
    Blank = Blank
    Half = Half
    Letter = Letter
    Capital = Capital
    NoInput = NoInput
    Lengths <- MCLengths
    MenuSize = 2
    Numbers <- MCNumbers
    Replays <- MCReplays
    Answers <- MCAnswers
    Limit = 3
    MaxLength = 4
    MaxMessages = 4
INVARIANTS
    AmountsReadAsWritten
    BindsOrRefuses
    ReadsAsSent
CHECK_DEADLOCK FALSE
