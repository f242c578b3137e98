CONSTANTS
    Failed = Failed
    Sources <- SecondValueSource
    Programs <- SecondValueProgram
    Meanings <- SecondValueMeaning
    FramesMax = 6
    ContextItem <- TheDocument
    Tree <- TheTree
SPECIFICATION SpecXslt
INVARIANTS ResultIsMeaning
CHECK_DEADLOCK FALSE
