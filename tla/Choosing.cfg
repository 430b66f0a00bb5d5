SPECIFICATION Spec
CONSTANTS
    Stopwords = {"add", "search", "for", "the"}
    MaxCandidates = 3
    Short <- SomeShort
    MaxTypeWords = 2
    MaxScroll = 5
    MaxWait = 5
    MaxTokens = 14
    MinElements = 2
    MaxPerName = 2
    ImageTokens = 4
    Scaffolding = 1
    BoxSize = 1
    ViewW = 4
    ViewH = 4
    EntryVerbs = {"search"}
    Fillers = {"for", "the"}
    TooShort = {"the"}
    WithImage = TRUE
    Spellings <- SomeSpellings
    Pages <- SomePages
    Goals <- SomeGoals
    Planners = {"device", "server", "model"}
    Replies <- SomeReplies
    OtherAnswers <- SomeAnswers
    AllowedOrigins = {"shop"}
    ActVerbs = {"add", "search"}
    MaxSteps <- SomeSteps
    MaxMoves = 1
    MaxAnswers = 1
INVARIANTS
    ActsOnTheOneMeant AnswerSettles NeverTwice
CHECK_DEADLOCK FALSE
