-------------------------------- MODULE Values --------------------------------
(***************************************************************************)
(* The values that expressions have: sequences of items.  An item is an    *)
(* integer, a boolean, a node, an inline function with its captured        *)
(* values, or a static (library) function with the context value it        *)
(* captured.  Nodes are numbered in document order and have no text; the   *)
(* document that they are in comes with its axes.                          *)
(* Strings, the other atomic types, maps and arrays are left out: no       *)
(* instruction modelled here tells them apart.                             *)
(*                                                                         *)
(* Failed stands for every XPath error: which one it is decides nothing.   *)
(***************************************************************************)
EXTENDS Integers, Sequences, SequencesExt, FiniteSetsExt

CONSTANT Failed

Integer(n) == [int |-> n]
Boolean(b) == [bool |-> b]
NodeItem(n) == [node |-> n]

IsInt(x)      == "int" \in DOMAIN x
IsBool(x)     == "bool" \in DOMAIN x
IsNode(x)     == "node" \in DOMAIN x
IsFunction(x) == ~ IsInt(x) /\ ~ IsBool(x) /\ ~ IsNode(x)

\* The only item of a sequence is of this kind.
OneInt(v)      == Len(v) = 1 /\ IsInt(v[1])
OneBool(v)     == Len(v) = 1 /\ IsBool(v[1])
OneNode(v)     == Len(v) = 1 /\ IsNode(v[1])
OneFunction(v) == Len(v) = 1 /\ IsFunction(v[1])

\* A sequence of several items whose first is no node has no boolean value,
\* and neither has a function.
EffectiveBoolean(v) ==
    CASE v = <<>>     -> FALSE
      [] IsNode(v[1]) -> TRUE
      [] OneBool(v) -> v[1].bool
      [] OneInt(v)  -> v[1].int # 0
      [] OTHER      -> Failed

-----------------------------------------------------------------------------
(* The operators.  An empty operand makes the result empty, before the     *)
(* other operand is looked at.  A node is compared as its text.            *)

Rank(x) == CASE IsInt(x)  -> x.int
             [] IsBool(x) -> IF x.bool THEN 1 ELSE 0
             [] IsNode(x) -> 0

Comparable(v, w) ==
    \/ OneInt(v) /\ OneInt(w)
    \/ OneBool(v) /\ OneBool(w)
    \/ OneNode(v) /\ OneNode(w)

Add(v, w) ==
    CASE v = <<>> \/ w = <<>>     -> <<>>
      [] OneInt(v) /\ OneInt(w)   -> <<Integer(v[1].int + w[1].int)>>
      [] OTHER                    -> Failed

Eq(v, w) ==
    CASE v = <<>> \/ w = <<>>     -> <<>>
      [] Comparable(v, w)         -> <<Boolean(Rank(v[1]) = Rank(w[1]))>>
      [] OTHER                    -> Failed

Gt(v, w) ==
    CASE v = <<>> \/ w = <<>>     -> <<>>
      [] Comparable(v, w)         -> <<Boolean(Rank(v[1]) > Rank(w[1]))>>
      [] OTHER                    -> Failed

Comma(v, w) == v \o w

-----------------------------------------------------------------------------
(* Sets of nodes: the operands are nodes, the result is in document order. *)

AllNodes(v) == \A i \in DOMAIN v : IsNode(v[i])
NodesOf(v)  == {v[i].node : i \in DOMAIN v}

\* The i-th node has i - 1 nodes before it.
InOrder(s) ==
    [i \in 1..Cardinality(s) |->
        NodeItem(CHOOSE n \in s : Cardinality({m \in s : m < n}) = i - 1)]

NodeSet(op, v, w) ==
    IF ~ AllNodes(v) \/ ~ AllNodes(w) THEN Failed
    ELSE InOrder(CASE op = "Union"     -> NodesOf(v) \cup NodesOf(w)
                   [] op = "Intersect" -> NodesOf(v) \cap NodesOf(w)
                   [] op = "Except"    -> NodesOf(v) \ NodesOf(w))

\* The result of a step of a path: either nodes or no node at all.
Deduplicate(v) ==
    CASE AllNodes(v)                            -> InOrder(NodesOf(v))
      [] \A i \in DOMAIN v : ~ IsNode(v[i])     -> v
      [] OTHER                                  -> Failed

NodeSetOperators == {"Union", "Intersect", "Except"}
Operators == {"Add", "Eq", "Gt", "Comma"} \cup NodeSetOperators

Apply(op, v, w) ==
    CASE op = "Add"   -> Add(v, w)
      [] op = "Eq"    -> Eq(v, w)
      [] op = "Gt"    -> Gt(v, w)
      [] op = "Comma" -> Comma(v, w)
      [] OTHER        -> NodeSet(op, v, w)

Negated(v) ==
    CASE v = <<>>  -> <<>>
      [] OneInt(v) -> <<Integer(- v[1].int)>>
      [] OTHER     -> Failed

IsNumeric(v) ==
    IF Len(v) > 1 \/ OneFunction(v) THEN Failed ELSE <<Boolean(OneInt(v))>>

SequenceLen(v) == <<Integer(Len(v))>>

\* The index has been pushed before the sequence.
SequenceGet(index, v) ==
    IF OneInt(index) /\ index[1].int \in DOMAIN v
    THEN <<v[index[1].int]>>
    ELSE Failed

-----------------------------------------------------------------------------
(* The document that programs look at, and the axes on which a step goes   *)
(* from one node to others.  Tree is a sequence of nodes in document       *)
(* order: node n has the parent Tree[n].parent, which is 0 for the         *)
(* document node, and the name Tree[n].name.  Attributes and namespaces    *)
(* are left out; in which order the nodes of several documents, and the    *)
(* attributes, come is a matter of module DocumentOrder.                   *)

CONSTANT Tree

Nodes == DOMAIN Tree

\* One document, or none.
ASSUME TreeAssumption ==
    /\ Nodes = 1..Len(Tree) /\ Len(Tree) \in Nat
    /\ \A n \in Nodes : Tree[n].parent \in IF n = 1 THEN {0} ELSE 1..(n - 1)

\* The items that hold no other values.
Atoms == [int : Int] \cup [bool : BOOLEAN] \cup [node : Nodes]

Up(n) == IF Tree[n].parent = 0 THEN {} ELSE {Tree[n].parent}

\* A preorder: n is an ancestor of m if no node from n's successor to m has
\* its parent before n.
IsAncestor(n, m) == n < m /\ \A k \in (n + 1)..m : Tree[k].parent >= n

OnAxis(axis, n) ==
    LET siblings == {m \in Nodes \ {n} : Tree[m].parent = Tree[n].parent}
        above == {m \in Nodes : IsAncestor(m, n)}
        below == {m \in Nodes : IsAncestor(n, m)}
    IN  CASE axis = "self"               -> {n}
          [] axis = "child"              -> {m \in Nodes : Tree[m].parent = n}
          [] axis = "descendant"         -> below
          [] axis = "descendant-or-self" -> below \cup {n}
          [] axis = "parent"             -> Up(n)
          [] axis = "ancestor"           -> above
          [] axis = "ancestor-or-self"   -> above \cup {n}
          [] axis = "following-sibling"  -> {m \in siblings : m > n}
          [] axis = "preceding-sibling"  -> {m \in siblings : m < n}
          [] axis = "following"          -> {m \in Nodes : m > n} \ below
          [] axis = "preceding"          -> {m \in Nodes : m < n} \ above

AllAxes ==
    {"self", "child", "descendant", "descendant-or-self", "parent", "ancestor",
     "ancestor-or-self", "following-sibling", "preceding-sibling", "following", "preceding"}

ReverseAxes ==
    {"parent", "ancestor", "ancestor-or-self", "preceding-sibling", "preceding"}

\* The top of the tree that n is in.
Root(n) == CHOOSE m \in OnAxis("ancestor-or-self", n) : Tree[m].parent = 0

\* "*" and "element()" are any element, a name is that of an element.
NodeTest(test, n) ==
    \/ test = "node()"
    \/ test = "document-node()" /\ Tree[n].parent = 0
    \/ test \in {"*", "element()", Tree[n].name} /\ Tree[n].parent # 0

\* The nodes of the axis that pass the test, in the order of the axis.
ResolveStep(axis, test, n) ==
    LET forward == InOrder({m \in OnAxis(axis, n) : NodeTest(test, m)})
    IN  IF axis \in ReverseAxes THEN Reverse(forward) ELSE forward

\* fn:root of at most one node.
RootOf(v) ==
    CASE v = <<>>   -> <<>>
      [] OneNode(v) -> <<NodeItem(Root(v[1].node))>>
      [] OTHER      -> Failed
===============================================================================
