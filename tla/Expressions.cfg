CONSTANTS
    Failed = Failed
    Sources <- TheSources
    Programs <- ThePrograms
    FramesMax = 3
    ContextItem <- Seven
    Tree <- NoDocument
SPECIFICATION Spec
INVARIANTS TypeOK ResultIsMeaning StacksBalanced
PROPERTIES CallersUntouched
CHECK_DEADLOCK FALSE
