CONSTANTS
    Failed = Failed
    Sources <- FailingPredicateSource
    Programs <- FailingPredicateProgram
    Meanings <- FailingPredicateMeaning
    FramesMax = 6
    ContextItem <- TheDocument
    Tree <- TheTree
SPECIFICATION SpecXslt
INVARIANTS ResultIsMeaning
CHECK_DEADLOCK FALSE
