SPECIFICATION Spec
CONSTANTS
    Keys = {"k1"}
    NoKey = "-"
    Refusals = {"not-typeable", "unknown-ref"}
    Correctable = {"not-typeable"}
    VisionFailureLimit = 2
    MaxOps = 2
    StepInputs <- PerceivingInputs
    MaxSteps = 3
    MaxStall = 3
    MaxRepeats = 3
    Fingerprints = {"f1"}
INVARIANTS
    EgressSafe VisionBreaker FramesDropped
PROPERTIES
    TaskRefined RunEnds
CHECK_DEADLOCK FALSE
