CONSTANTS
  a1 = a1  a2 = a2  a3 = a3  n1 = n1  n2 = n2
  Documents = {d1}  Elements = {e1, e2}  Texts = {t1, t2, t3}
  Others = {}  Attributes = {}  Namespaces = {}
  NoNode = NoNode
  NameOf <- NoNames
  AnyCall = FALSE
  MaySwitch = FALSE
SPECIFICATION Spec
INVARIANTS
  NoAdjacentTexts TextHeldOnce NoPanic
  MoveContract TakeOutContract WrapContract
  ReplaceContract RefusedMovesKeepPlaces
PROPERTIES NoTextLost ImplementsContent
SYMMETRY TextSymmetry
CHECK_DEADLOCK FALSE
