CONSTANTS
    Trees <- AllTrees
    EditsMax = 2
SPECIFICATION Spec
INVARIANTS RefusedIsUnbound WrittenIsReadBack ScopesFollowTree
PROPERTIES EditsKeepNames
CHECK_DEADLOCK FALSE
