CONSTANTS
  Documents = {d1, d2}  Elements = {e1, e2}  Texts = {t1, t2}
  Others = {}  Attributes = {a1}  Namespaces = {}
  NoNode = NoNode
  NameOf <- Names
  AnyCall = FALSE
  MaySwitch = FALSE
  URIs = {"u"}
  DocumentsMax = 2
  ValueMax = 2
  OpenMax = 2
  IdsMax = 2
  NodesMax = 5
SPECIFICATION DocSpec
INVARIANTS
  OrderAgrees CollectionAgrees AppendsValue
PROPERTIES OrdersKept SourcesUntouched
CHECK_DEADLOCK FALSE
