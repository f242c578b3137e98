CONSTANT
    Inputs <- AllInputs
SPECIFICATION Spec
INVARIANTS StrippedAsRequired ExcludedAreGone RefusedIsUngrammatical ReadAsWritten
CHECK_DEADLOCK FALSE
