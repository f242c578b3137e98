CONSTANTS
  a1 = a1  a2 = a2  a3 = a3  n1 = n1  n2 = n2
  Documents = {d1}  Elements = {e1}  Texts = {t1}
  Others = {}  Attributes = {}  Namespaces = {}
  NoNode = NoNode
  NameOf <- NoNames
  AnyCall = TRUE
  MaySwitch = FALSE
SPECIFICATION Spec
INVARIANT AppendedIsLast
CHECK_DEADLOCK FALSE
