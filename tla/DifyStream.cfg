SPECIFICATION Spec
CHECK_DEADLOCK FALSE
CONSTANTS
    Texts = {x, y}
    Ids = {c1, c2}
    Empty = Empty
    MaxEvents = 3
SYMMETRY TextSymmetry
INVARIANTS AnswerIsTheLastVersion LastIdWins ErrorsAreNotAnswers
