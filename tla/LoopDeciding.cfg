SPECIFICATION Spec
CONSTANTS
    Keys = {"k1", "k2"}
    NoKey = "-"
    Refusals = {"not-typeable", "unknown-ref"}
    Correctable = {"not-typeable"}
    VisionFailureLimit = 1
    MaxOps = 0
    StepInputs <- DecidingInputs
    MaxSteps = 3
    MaxStall = 2
    MaxRepeats = 2
    Fingerprints = {"f1", "f2"}
INVARIANTS
    ActsValidated HistoryTruthful CirclesEndRun DoneNotAtOnce
CHECK_DEADLOCK FALSE
