SPECIFICATION PipelineSpec
CONSTANTS
    Values = {"card", "odd", "weak"}
    Rules <- PatternRules
    ValueLen = 2
    IouPercent = 50
    InsidePercent = 60
    Boost = 8
    CellSize = 2
    MaxCells = 4
    MinConfidence = 50
    Pad = 1
    Ratio = 2
    FrameW = 8
    FrameH = 8
    OffscreenLeft <- FarLeft
    Pages <- SomePages
    Visions <- SomeBoxes
    LeastScore = 50
    NmsPercent = 45
    Earlier <- SomeEarlier
    MostElements = 3
    MaxRows = 3
    MaxColumns = 2
    MaxTableCells = 6
    MinPointsForTrend = 3
    MinValuesToSummarise = 3
    MaxCorrelationColumns = 2
    DistinctCap = 2
INVARIANTS
    IndexedMerge AppliedIsGone PictureCovered SentClean RefsLeadHome TableTold
CHECK_DEADLOCK FALSE
