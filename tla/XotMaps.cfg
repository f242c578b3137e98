CONSTANTS
  a1 = a1  a2 = a2  a3 = a3  n1 = n1  n2 = n2
  Documents = {d1}  Elements = {e1, e2}  Texts = {}
  Others = {}  Attributes = {a1, a2, a3}  Namespaces = {n1}
  NoNode = NoNode
  NameOf <- Names
  AnyCall = FALSE
  MaySwitch = TRUE
SPECIFICATION Spec
INVARIANTS ForestOK EntriesInOrder MapContract AppendEntryContract
PROPERTIES RemovedForGood
SYMMETRY MapSymmetry
CHECK_DEADLOCK FALSE
