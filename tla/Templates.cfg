CONSTANTS
    Failed = Failed
    Sources <- TheSources
    Programs <- ThePrograms
    Meanings <- TheMeanings
    FramesMax = 9
    ContextItem <- TheDocument
    Tree <- TheTree
SPECIFICATION SpecXslt
INVARIANTS RefusedIsIllFormed ResultIsMeaning BasesIdentifyRuns
PROPERTIES Termination
CHECK_DEADLOCK FALSE
