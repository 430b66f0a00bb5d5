SPECIFICATION ClarifySpec
CONSTANTS
    Texts = {g, h, a}
    None = none
    MaxSaid = 3
    MaxUpsets = 2
INVARIANTS
    OwnAnswers QuestionShown
PROPERTIES
    AnswersDurable
SYMMETRY Symmetry
CHECK_DEADLOCK FALSE
