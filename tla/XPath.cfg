CONSTANTS
    Failed = Failed
    Sources <- TheSources
    Programs <- ThePrograms
    FramesMax = 9
    ContextItem <- TheRoot
    Tree <- TheTree
SPECIFICATION SpecXPath
INVARIANTS RefusedIsIllScoped ResultIsMeaning
CHECK_DEADLOCK FALSE
