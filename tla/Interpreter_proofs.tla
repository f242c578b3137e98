-------------------------- MODULE Interpreter_proofs --------------------------
(***************************************************************************)
(* The machine on balanced code.  The depth that Verified finds for every  *)
(* instruction of a function is what the inductive invariant IInv compares *)
(* the stacks with: a frame starts where the depth of its caller says, the *)
(* innermost one has the operands of its instruction above its arguments,  *)
(* and each activation that waits has a frame of its own, above that of    *)
(* the one before.  Functions are called with the arguments that their     *)
(* items announce, so that the items on the stack, and those captured by   *)
(* them, belong to the invariant: they are from a set that is closed under *)
(* capturing.                                                              *)
(***************************************************************************)
EXTENDS Interpreter, FiniteSetTheorems, WellFoundedInduction, TLAPS

-----------------------------------------------------------------------------
(* Numbers and finite sets. *)

\* A set of natural numbers has a least member.
LEMMA NatLeast ==
    ASSUME NEW T \in SUBSET Nat, T # {}
    PROVE  \E x \in T : \A y \in T : x <= y
<1>1. IsWellFoundedOn({ss \in Nat \X Nat : ss[1] < ss[2]}, Nat)
  BY NatLessThanWellFounded DEF OpToRel
<1>2. PICK x \in T : \A y \in T : ~(<<y, x>> \in {ss \in Nat \X Nat : ss[1] < ss[2]})
  BY <1>1, WFMin
<1>3. \A y \in T : ~(y < x)
  BY <1>2
<1> QED
  BY <1>3

\* Max of a set of natural numbers up to n is a member of it.
LEMMA MaxIsMember ==
    ASSUME NEW n \in Nat, NEW T \in SUBSET (1..n), T # {}
    PROVE  Max(T) \in T
<1> DEFINE U == {n - x : x \in T}
<1>1. U \in SUBSET Nat /\ U # {}
  OBVIOUS
<1> HIDE DEF U
<1>2. PICK u \in U : \A y \in U : u <= y
  BY <1>1, NatLeast
<1>3. PICK x \in T : u = n - x
  BY <1>2 DEF U
<1>4. ASSUME NEW y \in T PROVE y <= x
  <2>1. n - y \in U
    BY DEF U
  <2> QED
    BY <1>2, <1>3, <2>1
<1> QED
  BY <1>4 DEF Max

\* The members of a set of numbers can be counted off upwards.
LEMMA Ranked ==
    ASSUME NEW N \in Nat, NEW S \in SUBSET (1..N)
    PROVE  /\ IsFiniteSet(S) /\ Cardinality(S) \in Nat
           /\ \A i \in 1..Cardinality(S) : \E n \in S : Cardinality({m \in S : m < n}) = i - 1
<1> DEFINE Below(S1, n) == {m \in S1 : m < n}
           Good(S1) == \A i \in 1..Cardinality(S1) : \E n \in S1 : Cardinality(Below(S1, n)) = i - 1
           Bad == {n \in Nat : \E S1 \in SUBSET (1..n) : ~ Good(S1)}
<1>1. ASSUME NEW n \in Nat, NEW S1 \in SUBSET (1..n)
      PROVE  IsFiniteSet(S1) /\ Cardinality(S1) \in Nat
  <2>1. IsFiniteSet(1..n)
    BY FS_Interval
  <2> QED
    BY <2>1, FS_Subset, FS_CardinalityType
<1>2. ASSUME Bad # {} PROVE FALSE
  <2>1. PICK n \in Bad : \A k \in Bad : n <= k
    <3>1. Bad \in SUBSET Nat
      OBVIOUS
    <3> QED
      BY <1>2, <3>1, NatLeast
  <2>2. PICK S1 \in SUBSET (1..n) : ~ Good(S1)
    BY <2>1
  <2>3. n \in Nat
    BY <2>1
  <2>4. n # 0
    <3>1. SUFFICES ASSUME n = 0 PROVE FALSE
      OBVIOUS
    <3>2. S1 = {}
      BY <3>1
    <3> QED
      BY <2>2, <3>2, FS_EmptySet
  <2>5. n - 1 \in Nat /\ \A T \in SUBSET (1..(n - 1)) : Good(T)
    <3>1. n - 1 \in Nat
      BY <2>3, <2>4
    <3>2. n - 1 \notin Bad
      <4> HIDE DEF Bad
      <4> QED
        BY <2>1, <2>3
    <3> QED
      BY <3>1, <3>2
  <2>6. n \in S1
    <3>1. SUFFICES ASSUME n \notin S1 PROVE S1 \in SUBSET (1..(n - 1))
      BY <2>2, <2>5
    <3> QED
      BY <2>3, <3>1
  <2> DEFINE T == S1 \ {n}
  <2>7. T \in SUBSET (1..(n - 1))
    BY <2>3
  <2>8. /\ IsFiniteSet(S1) /\ Cardinality(S1) \in Nat
        /\ Cardinality(T) = Cardinality(S1) - 1
    <3>1. IsFiniteSet(S1) /\ Cardinality(S1) \in Nat
      BY <1>1, <2>2, <2>3
    <3> QED
      BY <3>1, <2>6, FS_RemoveElement
  <2>9. ASSUME NEW i \in 1..Cardinality(S1)
        PROVE  \E k \in S1 : Cardinality(Below(S1, k)) = i - 1
    <3>1. CASE i = Cardinality(S1)
      <4>1. \A m \in S1 : m # n => m \in T
        OBVIOUS
      <4>2. \A m \in T : m \in S1 /\ m \in 1..(n - 1)
        BY <2>7
      <4>3. Below(S1, n) = T
        <5> HIDE DEF T
        <5>1. \A m \in S1 : m < n <=> m \in T
          BY <2>3, <2>6, <4>1, <4>2
        <5> QED
          BY <4>2, <5>1
      <4> QED
        BY <2>6, <2>8, <3>1, <4>3
    <3>2. CASE i # Cardinality(S1)
      <4>1. i \in 1..Cardinality(T)
        BY <2>8, <3>2
      <4>2. Good(T)
        BY <2>5, <2>7
      <4>3. PICK k \in T : Cardinality(Below(T, k)) = i - 1
        BY <4>1, <4>2
      <4>4. Below(S1, k) = Below(T, k)
        BY <2>3, <2>7
      <4> QED
        BY <4>3, <4>4
    <3> QED
      BY <3>1, <3>2
  <2> QED
    BY <2>2, <2>9
<1>3. N \notin Bad
  BY <1>2
<1> QED
  BY <1>1, <1>3

LEMMA Fronted ==
    ASSUME NEW S, NEW s \in Seq(S), Len(s) > 0
    PROVE  /\ Front(s) \in Seq(S) /\ Len(Front(s)) = Len(s) - 1
           /\ \A k \in 1..(Len(s) - 1) : Front(s)[k] = s[k]
           /\ Last(s) \in S
<1> DEFINE n == Len(s) - 1
<1>1. n \in 0..Len(s) /\ Len(s) \in 1..Len(s)
  OBVIOUS
<1> HIDE DEF n
<1>2. /\ SubSeq(s, 1, n) \in Seq(S) /\ Len(SubSeq(s, 1, n)) = n
      /\ \A k \in 1..n : SubSeq(s, 1, n)[k] = s[k]
  BY <1>1
<1>3. s[Len(s)] \in S
  BY <1>1
<1> QED
  BY <1>2, <1>3 DEF Front, Last, n

LEMMA Appended ==
    ASSUME NEW S, NEW s \in Seq(S), NEW e \in S
    PROVE  /\ Append(s, e) \in Seq(S) /\ Len(Append(s, e)) = Len(s) + 1
           /\ \A k \in 1..Len(s) : Append(s, e)[k] = s[k]
           /\ Append(s, e)[Len(s) + 1] = e /\ Len(s) \in Nat
OBVIOUS

LEMMA Joined ==
    ASSUME NEW S, NEW s \in Seq(S), NEW t \in Seq(S)
    PROVE  /\ s \o t \in Seq(S) /\ Len(s \o t) = Len(s) + Len(t) /\ Len(s) \in Nat
           /\ \A k \in 1..Len(s) : (s \o t)[k] = s[k]
           /\ \A k \in 1..Len(t) : (s \o t)[Len(s) + k] = t[k]
OBVIOUS

\* The slots below a base are among those of a stack that reaches up to it.
LEMMA SlotsBelow ==
    ASSUME NEW b \in Nat, NEW n \in Nat, b <= n
    PROVE  \A k \in 1..(b - 1) : k \in 1..b /\ k \in 1..n
OBVIOUS

-----------------------------------------------------------------------------
(* Items.  A function item holds values, whose items may be functions      *)
(* again: V is a set of items that has with an item all that it holds.     *)

Functions(p) == Programs[p].functions

InlineItems(p, V) ==
    {x \in [fn : DOMAIN Functions(p), vars : Seq(Seq(V))] :
        Len(x.vars) = Len(Functions(p)[x.fn].closed)}

StaticItems(V) ==
    {x \in [static : DOMAIN StaticArity, vars : Seq(Seq(V))] :
        x.static = "position" => Len(x.vars) = 1}

ClosedItems(p) ==
    {[fn |-> id, vars |-> <<>>] : id \in {k \in DOMAIN Functions(p) : Functions(p)[k].closed = <<>>}}

Items(p, V) ==
    /\ Atoms \subseteq V /\ ClosedItems(p) \subseteq V
    /\ V \subseteq Atoms \cup InlineItems(p, V) \cup StaticItems(V)

\* The fields of an item tell its kind.
LEMMA ItemKinds ==
    ASSUME NEW p, NEW V, Items(p, V), NEW x \in V
    PROVE  /\ IsInt(x) => x \in [int : Int]
           /\ IsBool(x) => x \in [bool : BOOLEAN]
           /\ IsNode(x) => x \in [node : Nodes]
           /\ IsFunction(x) <=> x \in InlineItems(p, V) \cup StaticItems(V)
           /\ "fn" \in DOMAIN x <=> x \in InlineItems(p, V)
           /\ "static" \in DOMAIN x <=> x \in StaticItems(V)
           /\ Shape(x)
<1>1. CASE x \in [int : Int]
  <2>1. DOMAIN x = {"int"}
    BY <1>1
  <2> QED
    BY <1>1, <2>1 DEF IsInt, IsBool, IsNode, IsFunction, Shape, InlineItems, StaticItems
<1>2. CASE x \in [bool : BOOLEAN]
  <2>1. DOMAIN x = {"bool"}
    BY <1>2
  <2> QED
    BY <1>2, <2>1 DEF IsInt, IsBool, IsNode, IsFunction, Shape, InlineItems, StaticItems
<1>3. CASE x \in [node : Nodes]
  <2>1. DOMAIN x = {"node"}
    BY <1>3
  <2> QED
    BY <1>3, <2>1 DEF IsInt, IsBool, IsNode, IsFunction, Shape, InlineItems, StaticItems
<1>4. CASE x \in InlineItems(p, V)
  <2>1. DOMAIN x = {"fn", "vars"}
    BY <1>4 DEF InlineItems
  <2> QED
    BY <1>4, <2>1 DEF IsInt, IsBool, IsNode, IsFunction, Shape, StaticItems
<1>5. CASE x \in StaticItems(V)
  <2>1. DOMAIN x = {"static", "vars"}
    BY <1>5 DEF StaticItems
  <2> QED
    BY <1>5, <2>1 DEF IsInt, IsBool, IsNode, IsFunction, Shape, InlineItems
<1> QED
  BY <1>1, <1>2, <1>3, <1>4, <1>5 DEF Items, Atoms

\* Atoms make values.
LEMMA AtomValues ==
    ASSUME NEW p, NEW V, Items(p, V)
    PROVE  /\ <<>> \in Seq(V)
           /\ \A n \in Int : <<Integer(n)>> \in Seq(V)
           /\ \A b \in BOOLEAN : <<Boolean(b)>> \in Seq(V)
           /\ \A n \in Nodes : NodeItem(n) \in V
<1>1. \A n \in Int : Integer(n) \in V
  BY DEF Items, Atoms, Integer
<1>2. \A b \in BOOLEAN : Boolean(b) \in V
  BY DEF Items, Atoms, Boolean
<1>3. \A n \in Nodes : NodeItem(n) \in V
  BY DEF Items, Atoms, NodeItem
<1> QED
  BY <1>1, <1>2, <1>3

\* A set of nodes in document order is a value.
LEMMA InOrderIsValue ==
    ASSUME NEW p, NEW V, Items(p, V), NEW S \in SUBSET Nodes
    PROVE  InOrder(S) \in Seq(V)
<1>1. Len(Tree) \in Nat /\ S \in SUBSET (1..Len(Tree))
  BY TreeAssumption
<1> DEFINE Place(i) == CHOOSE n \in S : Cardinality({m \in S : m < n}) = i - 1
<1>2. /\ Cardinality(S) \in Nat
      /\ \A i \in 1..Cardinality(S) : \E n \in S : Cardinality({m \in S : m < n}) = i - 1
  BY <1>1, Ranked
<1>3. ASSUME NEW i \in 1..Cardinality(S) PROVE NodeItem(Place(i)) \in V
  <2>1. Place(i) \in S
    BY <1>2
  <2> HIDE DEF Place
  <2> QED
    BY <2>1, AtomValues
<1>4. InOrder(S) = [i \in 1..Cardinality(S) |-> NodeItem(Place(i))]
  BY DEF InOrder
<1> HIDE DEF Place
<1> QED
  BY <1>2, <1>3, <1>4

LEMMA NodesOfValue ==
    ASSUME NEW p, NEW V, Items(p, V), NEW v \in Seq(V), AllNodes(v)
    PROVE  NodesOf(v) \in SUBSET Nodes
<1>1. ASSUME NEW i \in DOMAIN v PROVE v[i].node \in Nodes
  <2>1. v[i] \in V /\ IsNode(v[i])
    BY DEF AllNodes
  <2> QED
    BY <2>1, ItemKinds
<1> QED
  BY <1>1 DEF NodesOf

\* What an operator gives is a value, if it does not fail.
LEMMA ApplyGivesValue ==
    ASSUME NEW p, NEW V, Items(p, V), NEW op \in Operators, NEW v \in Seq(V), NEW w \in Seq(V)
    PROVE  Apply(op, v, w) = Failed \/ Apply(op, v, w) \in Seq(V)
<1>1. Add(v, w) = Failed \/ Add(v, w) \in Seq(V)
  <2>1. CASE OneInt(v) /\ OneInt(w)
    <3>1. v[1].int \in Int /\ w[1].int \in Int
      <4>1. v[1] \in V /\ w[1] \in V
        BY <2>1 DEF OneInt
      <4> QED
        BY <2>1, <4>1, ItemKinds DEF OneInt
    <3>2. <<Integer(v[1].int + w[1].int)>> \in Seq(V)
      <4>1. v[1].int + w[1].int \in Int
        BY <3>1
      <4> QED
        BY <4>1, AtomValues
    <3> QED
      BY <2>1, <3>2, AtomValues DEF Add
  <2>2. CASE ~ (OneInt(v) /\ OneInt(w))
    BY <2>2, AtomValues DEF Add
  <2> QED
    BY <2>1, <2>2
<1>2. Eq(v, w) = Failed \/ Eq(v, w) \in Seq(V)
  <2>1. (Rank(v[1]) = Rank(w[1])) \in BOOLEAN
    OBVIOUS
  <2>2. <<Boolean(Rank(v[1]) = Rank(w[1]))>> \in Seq(V)
    BY <2>1, AtomValues
  <2> QED
    BY <2>2, AtomValues DEF Eq
<1>3. Gt(v, w) = Failed \/ Gt(v, w) \in Seq(V)
  <2> DEFINE b == Rank(v[1]) > Rank(w[1])
  <2>1. b \in BOOLEAN
    OBVIOUS
  <2>2. <<Boolean(b)>> \in Seq(V)
    BY <2>1, AtomValues
  <2> QED
    BY <2>2, AtomValues DEF Gt
<1>4. Comma(v, w) \in Seq(V)
  BY DEF Comma
<1>5. ASSUME op \in NodeSetOperators
      PROVE  NodeSet(op, v, w) = Failed \/ NodeSet(op, v, w) \in Seq(V)
  <2>1. SUFFICES ASSUME AllNodes(v), AllNodes(w) PROVE NodeSet(op, v, w) \in Seq(V)
    BY DEF NodeSet
  <2>2. NodesOf(v) \in SUBSET Nodes /\ NodesOf(w) \in SUBSET Nodes
    BY <2>1, NodesOfValue
  <2>3. /\ InOrder(NodesOf(v) \cup NodesOf(w)) \in Seq(V)
        /\ InOrder(NodesOf(v) \cap NodesOf(w)) \in Seq(V)
        /\ InOrder(NodesOf(v) \ NodesOf(w)) \in Seq(V)
    BY <2>2, InOrderIsValue
  <2> QED
    BY <1>5, <2>1, <2>3 DEF NodeSet, NodeSetOperators
<1> QED
  BY <1>1, <1>2, <1>3, <1>4, <1>5 DEF Apply, Operators, NodeSetOperators

LEMMA DeduplicateGivesValue ==
    ASSUME NEW p, NEW V, Items(p, V), NEW v \in Seq(V)
    PROVE  Deduplicate(v) = Failed \/ Deduplicate(v) \in Seq(V)
<1>1. CASE AllNodes(v)
  <2>1. InOrder(NodesOf(v)) \in Seq(V)
    BY <1>1, NodesOfValue, InOrderIsValue
  <2> QED
    BY <1>1, <2>1 DEF Deduplicate
<1>2. CASE ~ AllNodes(v)
  BY <1>2 DEF Deduplicate
<1> QED
  BY <1>1, <1>2

LEMMA NegatedGivesValue ==
    ASSUME NEW p, NEW V, Items(p, V), NEW v \in Seq(V)
    PROVE  Negated(v) = Failed \/ Negated(v) \in Seq(V)
<1>1. CASE OneInt(v)
  <2>1. v[1] \in V
    BY <1>1 DEF OneInt
  <2>2. - v[1].int \in Int
    BY <1>1, <2>1, ItemKinds DEF OneInt
  <2>3. <<Integer(- v[1].int)>> \in Seq(V)
    BY <2>2, AtomValues
  <2> QED
    BY <1>1, <2>3, AtomValues DEF Negated
<1>2. CASE ~ OneInt(v)
  BY <1>2, AtomValues DEF Negated
<1> QED
  BY <1>1, <1>2

LEMMA TestsGiveValues ==
    ASSUME NEW p, NEW V, Items(p, V), NEW v \in Seq(V), NEW w \in Seq(V)
    PROVE  /\ IsNumeric(v) = Failed \/ IsNumeric(v) \in Seq(V)
           /\ SequenceLen(v) \in Seq(V)
           /\ SequenceGet(w, v) = Failed \/ SequenceGet(w, v) \in Seq(V)
<1>1. OneInt(v) \in BOOLEAN /\ Len(v) \in Int
  BY DEF OneInt
<1>2. <<Boolean(OneInt(v))>> \in Seq(V) /\ <<Integer(Len(v))>> \in Seq(V)
  BY <1>1, AtomValues
<1>3. SequenceGet(w, v) = Failed \/ SequenceGet(w, v) \in Seq(V)
  BY DEF SequenceGet
<1> QED
  BY <1>2, <1>3 DEF IsNumeric, SequenceLen

\* Axes lead from nodes to nodes.
LEMMA AxesLeadToNodes ==
    ASSUME NEW axis \in AllAxes, NEW n \in Nodes
    PROVE  OnAxis(axis, n) \in SUBSET Nodes
<1>1. Up(n) \in SUBSET Nodes
  BY TreeAssumption DEF Up
<1> QED
  BY <1>1 DEF OnAxis, AllAxes

LEMMA StepGivesValue ==
    ASSUME NEW p, NEW V, Items(p, V), NEW axis \in AllAxes, NEW test, NEW n \in Nodes
    PROVE  ResolveStep(axis, test, n) \in Seq(V)
<1> DEFINE forward == InOrder({m \in OnAxis(axis, n) : NodeTest(test, m)})
<1>1. forward \in Seq(V)
  BY AxesLeadToNodes, InOrderIsValue
<1> HIDE DEF forward
<1>2. Reverse(forward) \in Seq(V)
  BY <1>1 DEF Reverse
<1>3. ResolveStep(axis, test, n) = IF axis \in ReverseAxes THEN Reverse(forward) ELSE forward
  BY DEF ResolveStep, forward
<1> QED
  BY <1>1, <1>2, <1>3

\* The first node is the root of the tree.
LEMMA RootGivesValue ==
    ASSUME NEW p, NEW V, Items(p, V), NEW v \in Seq(V)
    PROVE  RootOf(v) = Failed \/ RootOf(v) \in Seq(V)
<1>1. SUFFICES ASSUME OneNode(v) PROVE <<NodeItem(Root(v[1].node))>> \in Seq(V)
  BY AtomValues DEF RootOf
<1> DEFINE n == v[1].node
<1>2. n \in Nodes
  <2>1. v[1] \in V
    BY <1>1 DEF OneNode
  <2> QED
    BY <1>1, <2>1, ItemKinds DEF OneNode
<1> HIDE DEF n
<1>3. 1 \in OnAxis("ancestor-or-self", n) /\ Tree[1].parent = 0
  <2>1. n \in 1..Len(Tree) /\ Len(Tree) \in Nat /\ 1 \in Nodes
    BY <1>2, TreeAssumption
  <2>2. ASSUME n # 1 PROVE IsAncestor(1, n)
    <3>1. \A k \in 2..n : k \in Nodes
      BY <2>1, TreeAssumption
    <3>2. \A k \in 2..n : Tree[k].parent >= 1
      BY <3>1, <2>1, TreeAssumption
    <3> QED
      BY <2>1, <2>2, <3>2 DEF IsAncestor
  <2>3. Tree[1].parent = 0
    BY <2>1, TreeAssumption
  <2> QED
    BY <2>1, <2>2, <2>3 DEF OnAxis
<1>4. Root(n) \in OnAxis("ancestor-or-self", n)
  BY <1>3 DEF Root
<1>5. Root(n) \in Nodes
  BY <1>2, <1>4, AxesLeadToNodes DEF AllAxes
<1> QED
  BY <1>5, AtomValues DEF n

\* A set of items can take up one more function item.
LEMMA MoreItems ==
    ASSUME NEW p, NEW V, Items(p, V), NEW x, x \in InlineItems(p, V) \cup StaticItems(V)
    PROVE  Items(p, V \cup {x})
<1> DEFINE W == V \cup {x}
<1>1. Seq(Seq(V)) \subseteq Seq(Seq(W))
  OBVIOUS
<1> HIDE DEF W
<1>2. InlineItems(p, V) \subseteq InlineItems(p, W)
  BY <1>1 DEF InlineItems
<1>3. StaticItems(V) \subseteq StaticItems(W)
  BY <1>1 DEF StaticItems
<1> QED
  BY <1>2, <1>3 DEF Items, W

-----------------------------------------------------------------------------
(* What verified code guarantees of a frame at one of its instructions. *)

FrameSet(p) == [fn : DOMAIN Functions(p), ip : Nat, base : Nat]

CodeOf(p, f)  == Functions(p)[f.fn].code
ArityIn(p, f) == Functions(p)[f.fn].arity
Height(p, f)  == Depths(Programs[p], Functions(p)[f.fn])[f.ip].values
Opened(p, f)  == Depths(Programs[p], Functions(p)[f.fn])[f.ip].builds

\* The frames of p that are at an instruction of their function.
Placed(p) == {f \in FrameSet(p) : f.ip \in DOMAIN CodeOf(p, f)}

Moved(f, ip) == [f EXCEPT !.ip = ip]

LEMMA ProducesFew ==
    ASSUME NEW i
    PROVE  Produces(i) \in 0..2
BY DEF Produces

LEMMA PlacedFacts ==
    ASSUME NEW p, Verified(Programs[p]), NEW f \in Placed(p)
    PROVE  LET i == CodeOf(p, f)[f.ip]
           IN  /\ f.fn \in DOMAIN Functions(p) /\ f.ip \in Nat /\ f.base \in Nat
               /\ Height(p, f) \in Nat /\ Opened(p, f) \in Nat /\ ArityIn(p, f) \in Nat
               /\ Consumes(Programs[p], i) \in Nat
               /\ ArityIn(p, f) + Consumes(Programs[p], i) <= Height(p, f)
               /\ ValidOperand(Programs[p], Functions(p)[f.fn], i,
                               Depths(Programs[p], Functions(p)[f.fn])[f.ip])
               /\ i.op \in {"BuildPush", "BuildComplete"} => Opened(p, f) > 0
               /\ i.op = "Return" => Height(p, f) = ArityIn(p, f) + 1 /\ Opened(p, f) = 0
<1> DEFINE g == Functions(p)[f.fn]
           ds == Depths(Programs[p], g)
<1>1. f.fn \in DOMAIN Functions(p) /\ f.ip \in Nat /\ f.base \in Nat /\ f.ip \in DOMAIN g.code
  BY DEF Placed, FrameSet, CodeOf
<1>2. Balanced(Programs[p], g)
  BY <1>1 DEF Verified, Functions
<1>3. g.arity \in Nat /\ ValidInstruction(Programs[p], g, ds, f.ip)
  BY <1>1, <1>2 DEF Balanced
<1> HIDE DEF g, ds
<1>4. /\ ds[f.ip].values \in Nat /\ ds[f.ip].builds \in Nat
      /\ ValidOperand(Programs[p], g, g.code[f.ip], ds[f.ip])
      /\ g.arity + Consumes(Programs[p], g.code[f.ip]) <= ds[f.ip].values
      /\ g.code[f.ip].op \in {"BuildPush", "BuildComplete"} => ds[f.ip].builds > 0
      /\ g.code[f.ip].op = "Return" =>
            ds[f.ip].values = g.arity + 1 /\ ds[f.ip].builds = 0
  <2> HIDE DEF ds
  <2> QED
    BY <1>3 DEF ValidInstruction, Depth
<1>5. Consumes(Programs[p], g.code[f.ip]) \in Nat
  <2> DEFINE i == g.code[f.ip]
  <2>1. CASE i.op = "Closure"
    <3>1. i.arg \in DOMAIN Programs[p].functions
      BY <1>4, <2>1 DEF ValidOperand
    <3>2. Len(Programs[p].functions[i.arg].closed) \in Nat
      BY <3>1 DEF Verified, Balanced, IsSequence
    <3> QED
      BY <2>1, <3>2 DEF Consumes, Operators, NodeSetOperators
  <2>2. CASE i.op = "Call"
    <3>1. i.arg \in Nat
      BY <1>4, <2>2 DEF ValidOperand
    <3> QED
      BY <2>2, <3>1 DEF Consumes, Operators, NodeSetOperators
  <2>3. CASE i.op \notin {"Closure", "Call"}
    BY <2>3 DEF Consumes
  <2> QED
    BY <2>1, <2>2, <2>3
<1> QED
  BY <1>1, <1>3, <1>4, <1>5 DEF CodeOf, ArityIn, Height, Opened, g, ds

\* Where the code goes on the depth is that of the next instruction.
LEMMA NextPlaced ==
    ASSUME NEW p, Verified(Programs[p]), NEW f \in Placed(p),
           NEW next \in Successors(CodeOf(p, f), f.ip)
    PROVE  LET i == CodeOf(p, f)[f.ip]
           IN  /\ Moved(f, next) \in Placed(p)
               /\ Moved(f, next).fn = f.fn /\ Moved(f, next).base = f.base
               /\ Height(p, Moved(f, next)) = Height(p, f) - Consumes(Programs[p], i) + Produces(i)
               /\ Opened(p, Moved(f, next)) =
                    CASE i.op = "BuildNew" -> Opened(p, f) + 1
                      [] i.op = "BuildComplete" -> Opened(p, f) - 1
                      [] OTHER -> Opened(p, f)
<1> DEFINE g == Functions(p)[f.fn]
           ds == Depths(Programs[p], g)
<1>1. f.fn \in DOMAIN Functions(p) /\ f.ip \in Nat /\ f.base \in Nat /\ f.ip \in DOMAIN g.code
  BY DEF Placed, FrameSet, CodeOf
<1>2. Balanced(Programs[p], g)
  BY <1>1 DEF Verified, Functions
<1>3. IsSequence(g.code) /\ ValidInstruction(Programs[p], g, ds, f.ip)
  BY <1>1, <1>2 DEF Balanced
<1>4. next \in Successors(g.code, f.ip)
  BY DEF CodeOf
<1>5. next \in DOMAIN g.code /\ ds[next] = After(Programs[p], g.code[f.ip], ds[f.ip])
  <2> HIDE DEF g, ds
  <2> QED
    BY <1>3, <1>4 DEF ValidInstruction
<1>6. next \in Nat
  BY <1>3, <1>5 DEF IsSequence
<1>7. /\ Moved(f, next) \in FrameSet(p) /\ Moved(f, next).fn = f.fn
      /\ Moved(f, next).base = f.base /\ Moved(f, next).ip = next
  BY <1>6 DEF Moved, Placed, FrameSet
<1>8. Moved(f, next) \in Placed(p)
  BY <1>5, <1>7 DEF Placed, CodeOf
<1> HIDE DEF g, ds
<1>9. /\ ds[next].values = ds[f.ip].values - Consumes(Programs[p], g.code[f.ip]) + Produces(g.code[f.ip])
      /\ ds[next].builds = CASE g.code[f.ip].op = "BuildNew" -> ds[f.ip].builds + 1
                             [] g.code[f.ip].op = "BuildComplete" -> ds[f.ip].builds - 1
                             [] OTHER -> ds[f.ip].builds
  BY <1>5 DEF After
<1> QED
  BY <1>7, <1>8, <1>9 DEF CodeOf, Height, Opened, g, ds

\* A function starts with its arguments.
LEMMA StartPlaced ==
    ASSUME NEW p, Verified(Programs[p]), NEW id \in DOMAIN Functions(p), NEW b \in Nat
    PROVE  LET f == [fn |-> id, ip |-> 1, base |-> b]
           IN  /\ f \in Placed(p) /\ f.fn = id /\ f.base = b
               /\ Height(p, f) = ArityIn(p, f) /\ Opened(p, f) = 0
               /\ ArityIn(p, f) = Functions(p)[id].arity /\ ArityIn(p, f) \in Nat
<1> DEFINE f == [fn |-> id, ip |-> 1, base |-> b]
<1>1. Balanced(Programs[p], Functions(p)[id])
  BY DEF Verified, Functions
<1>2. f \in FrameSet(p) /\ f.fn = id /\ f.base = b /\ f.ip = 1
  BY DEF FrameSet
<1>3. /\ Functions(p)[id].arity \in Nat /\ 1 \in DOMAIN Functions(p)[id].code
      /\ Depths(Programs[p], Functions(p)[id])[1] = [values |-> Functions(p)[id].arity, builds |-> 0]
  BY <1>1 DEF Balanced, DepthAtStart
<1> HIDE DEF f
<1>4. f \in Placed(p)
  BY <1>2, <1>3 DEF Placed, CodeOf
<1>5. Height(p, f) = ArityIn(p, f) /\ Opened(p, f) = 0 /\ ArityIn(p, f) = Functions(p)[id].arity
  BY <1>2, <1>3 DEF Height, Opened, ArityIn
<1> QED
  BY <1>2, <1>3, <1>4, <1>5 DEF f

-----------------------------------------------------------------------------
(* The inductive invariant, of a state given by its parts. *)

IsNative(cls) == cls # <<>> /\ Last(cls).waiting = "nothing"

\* A function that for_each waits for has been pushed above the function item
\* of for_each itself.
Extra(cls, b) ==
    IF \E c \in DOMAIN cls :
          cls[c].kind = "forEach" /\ cls[c].waiting # "nothing" /\ cls[c].base = b
    THEN 1 ELSE 0

\* Every frame is at an instruction, the first is that of the main function,
\* and bases tell the frames apart.
Framed(p, frs) ==
    /\ frs \in Seq(Placed(p)) /\ Len(frs) \in 1..FramesMax
    /\ frs[1].base = 0 /\ frs[1].fn = Programs[p].main
    /\ \A i, j \in DOMAIN frs : i < j => frs[i].base < frs[j].base

\* A frame starts where the depth of its caller says, above the item of its
\* function.
Linked(p, stk, frs, cls) ==
    \A j \in 2..Len(frs) :
        /\ frs[j].base = frs[j - 1].base + Height(p, frs[j - 1]) + Extra(cls, frs[j].base)
        /\ ArityIn(p, frs[j - 1]) < Height(p, frs[j - 1])
        /\ Len(stk[frs[j].base]) = 1 /\ "fn" \in DOMAIN stk[frs[j].base][1]
        /\ stk[frs[j].base][1].fn = frs[j].fn

\* The stack is as deep as the code of the innermost frame says; while
\* apply-templates runs its result is missing.
Topped(p, stk, frs, cls) ==
    /\ Len(stk) = Last(frs).base + Height(p, Last(frs))
                    - (IF IsNative(cls) /\ Last(cls).kind = "apply" THEN 1 ELSE 0)
    /\ IsNative(cls) => ArityIn(p, Last(frs)) < Height(p, Last(frs))

ArityOfItem(p, x) ==
    IF "static" \in DOMAIN x THEN StaticArity[x.static] ELSE Functions(p)[x.fn].arity

ActivationOf(p, V, a) ==
    /\ DOMAIN a = {"kind", "items", "i", "done", "action", "mode", "rule", "known", "waiting", "base"}
    /\ a.kind \in {"forEach", "apply"} /\ a.waiting \in {"nothing", "body", "predicate"}
    /\ a.items \in Seq(V) /\ a.done \in Seq(V) /\ a.action \in Seq(V)
    /\ a.i \in Nat \ {0} /\ a.rule \in Nat \ {0}
    /\ a.kind = "apply" => a.mode \in DOMAIN Programs[p].rules
    /\ a.kind = "forEach" =>
          /\ OneFunction(a.action) /\ ArityOfItem(p, a.action[1]) = 1
          /\ a.waiting # "predicate"

\* Only the innermost activation does not wait, and each of the others for a
\* frame of its own.
Waiting(p, V, frs, cls) ==
    /\ \E A : cls \in Seq(A)
    /\ \A c \in DOMAIN cls :
          /\ ActivationOf(p, V, cls[c])
          /\ c < Len(cls) => cls[c].waiting # "nothing"
          /\ cls[c].waiting # "nothing" => \E j \in 2..Len(frs) : frs[j].base = cls[c].base
    /\ \A c, d \in DOMAIN cls : c < d /\ cls[d].waiting # "nothing" => cls[c].base < cls[d].base

\* The sequences under construction are those of the frames.
Building(p, bld, frs) ==
    \E o \in [DOMAIN frs -> Nat] :
        /\ o[1] = 0
        /\ \A j \in 2..Len(frs) : o[j] = o[j - 1] + Opened(p, frs[j - 1])
        /\ Len(bld) = o[Len(frs)] + Opened(p, Last(frs))

Machine(p, V, stk, bld, frs, cls) ==
    /\ Items(p, V) /\ stk \in Seq(Seq(V)) /\ bld \in Seq(Seq(V))
    /\ Framed(p, frs) /\ Linked(p, stk, frs, cls) /\ Topped(p, stk, frs, cls)
    /\ Waiting(p, V, frs, cls) /\ Building(p, bld, frs)

IInv ==
    /\ program \in DOMAIN Programs /\ Verified(Programs[program])
    /\ status \in {"running", "done", "error"}
    /\ status = "running" => \E V : Machine(program, V, stack, build, frames, calls)
    /\ status # "running" => TypeOK /\ CleanEnd

\* A predicate is answered only by the return of its function, not by an error.
PredicatesReturn ==
    \A a \in ToSet(calls') :
        a.waiting = "nothing" /\ a.known # << >> => Len(frames') < Len(frames)

\* No step touches what is below the function that runs.
Untouched == \A i \in 1..(Frame.base - 1) : i \in DOMAIN stack' /\ stack'[i] = stack[i]

-----------------------------------------------------------------------------
(* The invariant is kept when ... *)

\* Basic facts of a machine.
LEMMA TopFacts ==
    ASSUME NEW p, Verified(Programs[p]), NEW V, NEW stk, NEW bld, NEW frs, NEW cls,
           Machine(p, V, stk, bld, frs, cls)
    PROVE  /\ Len(frs) \in Nat \ {0} /\ Len(frs) <= FramesMax /\ DOMAIN frs = 1..Len(frs)
           /\ \A j \in DOMAIN frs : frs[j] \in Placed(p)
           /\ Last(frs) = frs[Len(frs)] /\ Last(frs) \in Placed(p) /\ Last(frs).base \in Nat
           /\ Len(stk) \in Nat /\ DOMAIN stk = 1..Len(stk)
           /\ Last(frs).base <= Len(stk)
           /\ Last(frs).base = 0 \/ Last(frs).base \in DOMAIN stk
<1>1. /\ Len(frs) \in Nat \ {0} /\ Len(frs) <= FramesMax /\ DOMAIN frs = 1..Len(frs)
      /\ \A j \in DOMAIN frs : frs[j] \in Placed(p)
  BY FramesMaxAssumption DEF Machine, Framed
<1>2. Last(frs) = frs[Len(frs)] /\ Last(frs) \in Placed(p)
  BY <1>1 DEF Last
<1>3. /\ Last(frs).base \in Nat /\ Height(p, Last(frs)) \in Nat
      /\ ArityIn(p, Last(frs)) \in Nat
  BY <1>2, PlacedFacts
<1>4. Len(stk) \in Nat /\ DOMAIN stk = 1..Len(stk)
  BY DEF Machine
<1>5. Last(frs).base <= Len(stk)
  BY <1>3, <1>4 DEF Machine, Topped
<1> QED
  BY <1>1, <1>2, <1>3, <1>4, <1>5

WithTop(frs, f) == [frs EXCEPT ![Len(frs)] = f]

\* How many sequences are under construction after an instruction.
OpenedAfter(i, n) ==
    CASE i.op = "BuildNew" -> n + 1 [] i.op = "BuildComplete" -> n - 1 [] OTHER -> n

\* ... the innermost frame moves on.
LEMMA FrameMoves ==
    ASSUME NEW p, Verified(Programs[p]), NEW V, NEW stk, NEW bld, NEW frs, NEW cls,
           Machine(p, V, stk, bld, frs, cls),
           NEW n, n = Len(frs), NEW top, top = Last(frs),
           NEW moved \in Placed(p), moved.base = top.base, moved.fn = top.fn,
           NEW frs2, frs2 = WithTop(frs, moved)
    PROVE  /\ Framed(p, frs2) /\ Len(frs2) = n /\ Last(frs2) = moved
           /\ \A stk2 : (\A k \in 1..top.base : stk2[k] = stk[k]) => Linked(p, stk2, frs2, cls)
           /\ Waiting(p, V, frs2, cls)
           /\ \A bld2 : Len(bld2) = Len(bld) + Opened(p, moved) - Opened(p, top) =>
                            Building(p, bld2, frs2)
<1>1. /\ n \in Nat \ {0} /\ n <= FramesMax /\ DOMAIN frs = 1..n
      /\ \A j \in 1..n : frs[j] \in Placed(p) /\ frs[j].base \in Nat
      /\ top = frs[n] /\ top \in Placed(p)
  BY TopFacts DEF Placed, FrameSet
<1>2. /\ frs \in Seq(Placed(p)) /\ frs[1].base = 0 /\ frs[1].fn = Programs[p].main
      /\ \A i, j \in 1..n : i < j => frs[i].base < frs[j].base
  BY <1>1 DEF Machine, Framed
<1>3. /\ frs2 \in Seq(Placed(p)) /\ Len(frs2) = n /\ DOMAIN frs2 = 1..n
      /\ \A j \in 1..(n - 1) : frs2[j] = frs[j]
      /\ frs2[n] = moved
  BY <1>1, <1>2 DEF WithTop
<1>4. Last(frs2) = moved
  BY <1>3 DEF Last
<1>5. \A j \in 1..n : frs2[j].base = frs[j].base /\ frs2[j].fn = frs[j].fn
  <2>1. ASSUME NEW j \in 1..n PROVE frs2[j].base = frs[j].base /\ frs2[j].fn = frs[j].fn
    <3>1. CASE j = n
      BY <1>1, <1>3, <3>1
    <3>2. CASE j # n
      <4>1. j \in 1..(n - 1)
        BY <1>1, <3>2
      <4> QED
        BY <1>3, <4>1
    <3> QED
      BY <3>1, <3>2
  <2> QED
    BY <2>1
<1>6. Framed(p, frs2)
  <2>1. frs2[1].base = 0 /\ frs2[1].fn = Programs[p].main
    BY <1>1, <1>2, <1>5
  <2>2. \A i, j \in 1..n : i < j => frs2[i].base < frs2[j].base
    BY <1>2, <1>5
  <2>3. Len(frs2) \in 1..FramesMax
    BY <1>1, <1>3, FramesMaxAssumption
  <2> QED
    BY <1>3, <2>1, <2>2, <2>3 DEF Framed
<1>7. \A j \in 2..n :
        /\ frs2[j].base = frs[j].base /\ frs2[j].fn = frs[j].fn /\ frs2[j - 1] = frs[j - 1]
        /\ frs[j].base \in 1..top.base
  <2>1. ASSUME NEW j \in 2..n PROVE frs[j].base \in 1..top.base /\ frs2[j - 1] = frs[j - 1]
    <3>1. j \in 1..n /\ j - 1 \in 1..(n - 1) /\ 1 \in 1..n /\ n \in 1..n
      BY <1>1
    <3>2. frs[1].base < frs[j].base /\ (j = n \/ frs[j].base < frs[n].base)
      BY <1>2, <3>1
    <3> QED
      BY <1>1, <1>2, <1>3, <3>1, <3>2
  <2> QED
    BY <1>1, <1>5, <2>1
<1>8. ASSUME NEW stk2, \A k \in 1..top.base : stk2[k] = stk[k]
      PROVE  Linked(p, stk2, frs2, cls)
  <2>1. \A j \in 2..n : stk2[frs2[j].base] = stk[frs[j].base]
    BY <1>7, <1>8
  <2>2. \A j \in 2..n :
        /\ frs[j].base = frs[j - 1].base + Height(p, frs[j - 1]) + Extra(cls, frs[j].base)
        /\ ArityIn(p, frs[j - 1]) < Height(p, frs[j - 1])
        /\ Len(stk[frs[j].base]) = 1 /\ "fn" \in DOMAIN stk[frs[j].base][1]
        /\ stk[frs[j].base][1].fn = frs[j].fn
    BY DEF Machine, Linked
  <2>3. ASSUME NEW j \in 2..n
        PROVE  /\ frs2[j].base = frs2[j - 1].base + Height(p, frs2[j - 1]) + Extra(cls, frs2[j].base)
               /\ ArityIn(p, frs2[j - 1]) < Height(p, frs2[j - 1])
               /\ Len(stk2[frs2[j].base]) = 1 /\ "fn" \in DOMAIN stk2[frs2[j].base][1]
               /\ stk2[frs2[j].base][1].fn = frs2[j].fn
    BY <1>7, <2>1, <2>2
  <2> QED
    BY <1>3, <2>3 DEF Linked
<1>9. Waiting(p, V, frs2, cls)
  <2>1. \A j \in 2..n : frs2[j].base = frs[j].base
    BY <1>7
  <2>2. Waiting(p, V, frs, cls)
    BY DEF Machine
  <2> QED
    BY <1>3, <2>1, <2>2 DEF Waiting
<1>10. ASSUME NEW bld2, Len(bld2) = Len(bld) + Opened(p, moved) - Opened(p, top)
       PROVE  Building(p, bld2, frs2)
  <2>1. PICK o \in [DOMAIN frs -> Nat] :
        /\ o[1] = 0
        /\ \A j \in 2..n : o[j] = o[j - 1] + Opened(p, frs[j - 1])
        /\ Len(bld) = o[n] + Opened(p, top)
    BY DEF Machine, Building
  <2>2. o[n] \in Nat /\ Opened(p, top) \in Nat /\ Opened(p, moved) \in Nat
    BY <1>1, <2>1, PlacedFacts
  <2>3. Len(bld2) = o[n] + Opened(p, moved)
    BY <1>10, <2>1, <2>2
  <2>4. \A j \in 2..n : o[j] = o[j - 1] + Opened(p, frs2[j - 1])
    BY <1>7, <2>1
  <2> QED
    BY <1>1, <1>3, <1>4, <2>1, <2>3, <2>4 DEF Building
<1> QED
  BY <1>3, <1>4, <1>6, <1>8, <1>9, <1>10

\* ... an instruction moves within its frame.
LEMMA LocalStep ==
    ASSUME NEW p, Verified(Programs[p]), NEW V, NEW stk, NEW bld, NEW frs, NEW cls,
           Machine(p, V, stk, bld, frs, cls), ~ IsNative(cls),
           NEW top, top = Last(frs), NEW i, i = CodeOf(p, top)[top.ip],
           NEW next \in Successors(CodeOf(p, top), top.ip),
           NEW stk2 \in Seq(Seq(V)), NEW bld2 \in Seq(Seq(V)), NEW frs2,
           Len(stk2) = Len(stk) - Consumes(Programs[p], i) + Produces(i),
           Len(bld2) = OpenedAfter(i, Len(bld)),
           \A k \in 1..top.base : stk2[k] = stk[k],
           frs2 = WithTop(frs, Moved(top, next))
    PROVE  Machine(p, V, stk2, bld2, frs2, cls)
<1> DEFINE moved == Moved(top, next)
<1>1. top \in Placed(p) /\ top.base \in Nat
  BY TopFacts
<1>2. /\ moved \in Placed(p) /\ moved.fn = top.fn /\ moved.base = top.base
      /\ Height(p, moved) = Height(p, top) - Consumes(Programs[p], i) + Produces(i)
      /\ Opened(p, moved) = CASE i.op = "BuildNew" -> Opened(p, top) + 1
                              [] i.op = "BuildComplete" -> Opened(p, top) - 1
                              [] OTHER -> Opened(p, top)
  BY <1>1, NextPlaced
<1> HIDE DEF moved
<1> DEFINE n == Len(frs)
<1>3. frs2 = WithTop(frs, moved) /\ n = Len(frs)
  BY DEF moved
<1> HIDE DEF n
<1>3a. moved \in Placed(p) /\ moved.base = top.base /\ moved.fn = top.fn
  BY <1>2
<1>4. /\ Framed(p, frs2) /\ Last(frs2) = moved /\ Waiting(p, V, frs2, cls)
      /\ Linked(p, stk2, frs2, cls)
      /\ Len(bld2) = Len(bld) + Opened(p, moved) - Opened(p, top) => Building(p, bld2, frs2)
  <2>1. /\ Framed(p, frs2) /\ Len(frs2) = n /\ Last(frs2) = moved
        /\ \A s : (\A k \in 1..top.base : s[k] = stk[k]) => Linked(p, s, frs2, cls)
        /\ Waiting(p, V, frs2, cls)
        /\ \A b : Len(b) = Len(bld) + Opened(p, moved) - Opened(p, top) => Building(p, b, frs2)
    BY <1>3, <1>3a, FrameMoves
  <2> QED
    BY <2>1
<1>5. /\ Height(p, top) \in Nat /\ Opened(p, top) \in Nat
      /\ Len(stk) \in Nat /\ Len(bld) \in Nat /\ Len(stk2) \in Nat
  <2>1. Height(p, top) \in Nat /\ Opened(p, top) \in Nat
    BY <1>1, PlacedFacts
  <2> QED
    BY <2>1 DEF Machine
<1>6. Building(p, bld2, frs2)
  BY <1>2, <1>4, <1>5 DEF OpenedAfter
<1>7. Topped(p, stk2, frs2, cls)
  <2>1. Len(stk) = top.base + Height(p, top)
    BY <1>1, <1>5 DEF Machine, Topped
  <2>2. Consumes(Programs[p], i) \in Nat /\ Produces(i) \in Nat
    <3>1. Consumes(Programs[p], CodeOf(p, top)[top.ip]) \in Nat
      BY <1>1, PlacedFacts
    <3>2. Produces(i) \in 0..2
      BY ProducesFew
    <3> QED
      BY <3>1, <3>2
  <2>3. Len(stk2) = top.base + Height(p, moved)
    BY <1>1, <1>2, <1>5, <2>1, <2>2, SMTT(30)
  <2>4. Height(p, moved) \in Nat
    BY <1>2, PlacedFacts
  <2> QED
    BY <1>1, <1>2, <1>4, <2>3, <2>4 DEF Topped
<1> QED
  BY <1>4, <1>6, <1>7 DEF Machine

\* ... the set of items grows.
LEMMA MachineGrows ==
    ASSUME NEW p, NEW V, NEW W, V \subseteq W, Items(p, W),
           NEW stk, NEW bld, NEW frs, NEW cls, Machine(p, V, stk, bld, frs, cls)
    PROVE  Machine(p, W, stk, bld, frs, cls)
<1>1. Seq(V) \subseteq Seq(W) /\ Seq(Seq(V)) \subseteq Seq(Seq(W))
  <2>1. Seq(V) \subseteq Seq(W)
    OBVIOUS
  <2> QED
    BY <2>1
<1>2. \A a : ActivationOf(p, V, a) => ActivationOf(p, W, a)
  BY <1>1 DEF ActivationOf
<1>3. Waiting(p, W, frs, cls)
  BY <1>2 DEF Machine, Waiting
<1> QED
  BY <1>1, <1>3 DEF Machine

-----------------------------------------------------------------------------
(* Types follow from the invariant, and hold in the states of errors too. *)

TypedState(p, stk, bld, frs, cls) ==
    /\ \A i \in DOMAIN stk : \A j \in DOMAIN stk[i] : Shape(stk[i][j])
    /\ \A i \in DOMAIN bld : \A j \in DOMAIN bld[i] : Shape(bld[i][j])
    /\ Len(frs) <= FramesMax
    /\ \A f \in ToSet(frs) :
          /\ f.fn \in DOMAIN Functions(p) /\ f.ip \in DOMAIN CodeOf(p, f)
          /\ f.base + ArityIn(p, f) <= Len(stk)
    /\ \A a \in ToSet(cls) :
          /\ a.kind \in {"forEach", "apply"}
          /\ a.waiting \in {"nothing", "body", "predicate"}
          /\ a.waiting # "nothing" => a.base <= Len(stk)

LEMMA ValuesAreShaped ==
    ASSUME NEW p, NEW V, Items(p, V), NEW stk \in Seq(Seq(V))
    PROVE  \A i \in DOMAIN stk : \A j \in DOMAIN stk[i] : Shape(stk[i][j])
<1>1. \A i \in DOMAIN stk : \A j \in DOMAIN stk[i] : stk[i][j] \in V
  OBVIOUS
<1> QED
  BY <1>1, ItemKinds

\* The arguments of the callers are below the base of the innermost frame.
LEMMA CallersHaveArguments ==
    ASSUME NEW p, Verified(Programs[p]), NEW V, NEW stk, NEW bld, NEW frs, NEW cls,
           Machine(p, V, stk, bld, frs, cls)
    PROVE  /\ \A j \in 1..(Len(frs) - 1) : frs[j].base + ArityIn(p, frs[j]) <= Last(frs).base
           /\ \A j \in 1..Len(frs) : frs[j].base <= Last(frs).base
           /\ Last(frs).base + ArityIn(p, Last(frs)) <= Len(stk)
<1> DEFINE n == Len(frs)
           top == Last(frs)
<1>1. /\ n \in Nat \ {0} /\ DOMAIN frs = 1..n
      /\ \A j \in 1..n : frs[j] \in Placed(p)
      /\ top = frs[n] /\ top \in Placed(p) /\ Len(stk) \in Nat
  BY TopFacts
<1>2. \A i, j \in 1..n : i < j => frs[i].base < frs[j].base
  BY <1>1 DEF Machine, Framed
<1>3. \A j \in 1..n : frs[j].base \in Nat /\ ArityIn(p, frs[j]) \in Nat /\ Height(p, frs[j]) \in Nat
  BY <1>1, PlacedFacts
<1> HIDE DEF n, top
<1>4. ASSUME NEW j \in 1..n PROVE frs[j].base <= top.base
  <2>1. CASE j = n
    BY <1>1, <1>3, <2>1
  <2>2. CASE j # n
    BY <1>1, <1>2, <1>3, <2>2
  <2> QED
    BY <2>1, <2>2
<1>5. ASSUME NEW j \in 1..(n - 1) PROVE frs[j].base + ArityIn(p, frs[j]) <= top.base
  <2>1. j + 1 \in 2..n /\ j + 1 \in 1..n /\ j \in 1..n
    BY <1>1
  <2>2. /\ frs[j + 1].base = frs[j].base + Height(p, frs[j]) + Extra(cls, frs[j + 1].base)
        /\ ArityIn(p, frs[j]) < Height(p, frs[j])
    <3>1. \A k \in 2..n : /\ frs[k].base = frs[k - 1].base + Height(p, frs[k - 1]) + Extra(cls, frs[k].base)
                          /\ ArityIn(p, frs[k - 1]) < Height(p, frs[k - 1])
      BY DEF Machine, Linked, n
    <3>2. (j + 1) - 1 = j
      BY <2>1
    <3> QED
      BY <2>1, <3>1, <3>2
  <2>3. Extra(cls, frs[j + 1].base) \in Nat
    BY DEF Extra
  <2>4. frs[j + 1].base <= top.base
    BY <1>4, <2>1
  <2>5. /\ frs[j].base \in Nat /\ ArityIn(p, frs[j]) \in Nat /\ Height(p, frs[j]) \in Nat
        /\ frs[j + 1].base \in Nat /\ top.base \in Nat
    BY <1>1, <1>3, <2>1
  <2>6. frs[j].base + ArityIn(p, frs[j]) <= frs[j + 1].base
    BY <2>2, <2>3, <2>5
  <2> QED
    BY <2>4, <2>5, <2>6
<1>6. top.base + ArityIn(p, top) <= Len(stk)
  <2>1. /\ top.base \in Nat /\ ArityIn(p, top) \in Nat /\ Height(p, top) \in Nat
        /\ ArityIn(p, top) <= Height(p, top)
    <3>1. ArityIn(p, top) + Consumes(Programs[p], CodeOf(p, top)[top.ip]) <= Height(p, top)
      BY <1>1, PlacedFacts
    <3>2. Consumes(Programs[p], CodeOf(p, top)[top.ip]) \in Nat
      BY <1>1, PlacedFacts
    <3>3. top.base \in Nat /\ ArityIn(p, top) \in Nat /\ Height(p, top) \in Nat
      BY <1>1, PlacedFacts
    <3> QED
      BY <3>1, <3>2, <3>3
  <2>2. CASE IsNative(cls)
    BY <1>1, <2>1, <2>2 DEF Machine, Topped, top
  <2>3. CASE ~ IsNative(cls)
    BY <1>1, <2>1, <2>3 DEF Machine, Topped, top
  <2> QED
    BY <2>2, <2>3
<1> QED
  BY <1>4, <1>5, <1>6 DEF n, top

\* Whatever is on the stack above the arguments.
LEMMA StateIsTyped ==
    ASSUME NEW p, Verified(Programs[p]), NEW V, NEW stk, NEW bld, NEW frs, NEW cls,
           Machine(p, V, stk, bld, frs, cls),
           NEW stk2 \in Seq(Seq(V)), NEW cls2,
           Last(frs).base + ArityIn(p, Last(frs)) <= Len(stk2),
           \A c \in DOMAIN cls2 :
               /\ ActivationOf(p, V, cls2[c])
               /\ cls2[c].waiting # "nothing" => cls2[c].base <= Len(stk2)
    PROVE  TypedState(p, stk2, bld, frs, cls2)
<1>1. /\ \A i \in DOMAIN stk2 : \A j \in DOMAIN stk2[i] : Shape(stk2[i][j])
      /\ \A i \in DOMAIN bld : \A j \in DOMAIN bld[i] : Shape(bld[i][j])
  BY ValuesAreShaped DEF Machine
<1>2. /\ DOMAIN frs = 1..Len(frs) /\ Len(frs) \in Nat \ {0} /\ Len(frs) <= FramesMax
      /\ \A j \in DOMAIN frs : frs[j] \in Placed(p)
      /\ Last(frs) = frs[Len(frs)]
  BY TopFacts
<1>3. ASSUME NEW j \in DOMAIN frs
      PROVE  /\ frs[j].fn \in DOMAIN Functions(p) /\ frs[j].ip \in DOMAIN CodeOf(p, frs[j])
             /\ frs[j].base + ArityIn(p, frs[j]) <= Len(stk2)
  <2>1. frs[j].fn \in DOMAIN Functions(p) /\ frs[j].ip \in DOMAIN CodeOf(p, frs[j])
    BY <1>2 DEF Placed, FrameSet
  <2>2. frs[j].base \in Nat /\ ArityIn(p, frs[j]) \in Nat
    BY <1>2, PlacedFacts
  <2>3. Last(frs).base \in Nat /\ ArityIn(p, Last(frs)) \in Nat
    <3>1. Last(frs) \in Placed(p)
      BY TopFacts
    <3> QED
      BY <3>1, PlacedFacts
  <2>4. CASE j = Len(frs)
    BY <1>2, <2>1, <2>4
  <2>5. CASE j # Len(frs)
    <3>1. frs[j].base + ArityIn(p, frs[j]) <= Last(frs).base
      <4>1. j \in 1..(Len(frs) - 1)
        BY <1>2, <2>5
      <4> QED
        BY <4>1, CallersHaveArguments
    <3> QED
      BY <2>1, <2>2, <2>3, <3>1
  <2> QED
    BY <2>4, <2>5
<1>4. \A f \in ToSet(frs) :
          /\ f.fn \in DOMAIN Functions(p) /\ f.ip \in DOMAIN CodeOf(p, f)
          /\ f.base + ArityIn(p, f) <= Len(stk2)
  BY <1>3 DEF ToSet
<1>5. \A a \in ToSet(cls2) :
          /\ a.kind \in {"forEach", "apply"}
          /\ a.waiting \in {"nothing", "body", "predicate"}
          /\ a.waiting # "nothing" => a.base <= Len(stk2)
  BY DEF ToSet, ActivationOf
<1> QED
  BY <1>1, <1>2, <1>4, <1>5 DEF TypedState

\* The activations of a machine wait for frames on its stack.
LEMMA ActivationsOnStack ==
    ASSUME NEW p, Verified(Programs[p]), NEW V, NEW stk, NEW bld, NEW frs, NEW cls,
           Machine(p, V, stk, bld, frs, cls), NEW c \in DOMAIN cls
    PROVE  /\ ActivationOf(p, V, cls[c])
           /\ cls[c].waiting # "nothing" =>
                 cls[c].base \in Nat \ {0} /\ cls[c].base <= Last(frs).base
<1>1. /\ ActivationOf(p, V, cls[c])
      /\ cls[c].waiting # "nothing" => \E j \in 2..Len(frs) : frs[j].base = cls[c].base
  BY DEF Machine, Waiting
<1>2. ASSUME NEW j \in 2..Len(frs)
      PROVE  frs[j].base \in Nat \ {0} /\ frs[j].base <= Last(frs).base
  <2>1. /\ Len(frs) \in Nat /\ DOMAIN frs = 1..Len(frs)
        /\ j \in DOMAIN frs /\ 1 \in DOMAIN frs /\ 1 < j
    BY TopFacts
  <2>2. frs[1].base = 0 /\ frs[1].base < frs[j].base
    <3>1. frs[1].base = 0 /\ \A h, k \in DOMAIN frs : h < k => frs[h].base < frs[k].base
      BY DEF Machine, Framed
    <3> QED
      BY <2>1, <3>1
  <2>3. frs[j].base \in Nat
    BY <2>1, TopFacts, PlacedFacts
  <2> QED
    BY <2>1, <2>2, <2>3, CallersHaveArguments
<1> QED
  BY <1>1, <1>2

LEMMA MachineIsTyped ==
    ASSUME NEW p, Verified(Programs[p]), NEW V, NEW stk, NEW bld, NEW frs, NEW cls,
           Machine(p, V, stk, bld, frs, cls)
    PROVE  TypedState(p, stk, bld, frs, cls)
<1>1. /\ stk \in Seq(Seq(V)) /\ Last(frs).base + ArityIn(p, Last(frs)) <= Len(stk)
  BY CallersHaveArguments DEF Machine
<1>2. \A c \in DOMAIN cls :
               /\ ActivationOf(p, V, cls[c])
               /\ cls[c].waiting # "nothing" => cls[c].base <= Len(stk)
  <2>1. Last(frs).base \in Nat /\ Len(stk) \in Nat /\ Last(frs).base <= Len(stk)
    BY TopFacts
  <2> QED
    BY <2>1, ActivationsOnStack
<1> QED
  BY <1>1, <1>2, StateIsTyped

-----------------------------------------------------------------------------
(* Steps.  A step is sound if it keeps the invariant and what belongs to   *)
(* the callers.                                                            *)

Running(V) ==
    /\ program \in DOMAIN Programs /\ Verified(Programs[program]) /\ status = "running"
    /\ Machine(program, V, stack, build, frames, calls)

Sound == IInv' /\ Untouched

Used == Consumes(Programs[program], Instruction)

\* How much is on the stack when an instruction is executed.
LEMMA DepthFacts ==
    ASSUME NEW V, Running(V)
    PROVE  /\ Frame \in Placed(program) /\ Frame.base \in Nat /\ Len(stack) \in Nat
           /\ Instruction = CodeOf(program, Frame)[Frame.ip]
           /\ ArityIn(program, Frame) \in Nat /\ Used \in Nat /\ Height(program, Frame) \in Nat
           /\ Frame.base + ArityIn(program, Frame) <= Len(stack)
           /\ ~ Native => /\ Len(stack) = Frame.base + Height(program, Frame)
                          /\ Frame.base + ArityIn(program, Frame) + Used <= Len(stack)
<1>1. Machine(program, V, stack, build, frames, calls) /\ Verified(Programs[program])
  BY DEF Running
<1>2. /\ Frame \in Placed(program) /\ Frame.base \in Nat /\ Len(stack) \in Nat
      /\ Frame.base + ArityIn(program, Frame) <= Len(stack)
  BY <1>1, TopFacts, CallersHaveArguments DEF Frame
<1>3. Instruction = CodeOf(program, Frame)[Frame.ip]
  BY DEF Instruction, Function, CodeOf, Functions
<1>4. /\ ArityIn(program, Frame) \in Nat /\ Height(program, Frame) \in Nat
      /\ Consumes(Programs[program], CodeOf(program, Frame)[Frame.ip]) \in Nat
      /\ ArityIn(program, Frame) + Consumes(Programs[program], CodeOf(program, Frame)[Frame.ip])
            <= Height(program, Frame)
  BY <1>1, <1>2, PlacedFacts
<1>5. ~ Native => Len(stack) = Frame.base + Height(program, Frame)
  <2>1. SUFFICES ASSUME ~ IsNative(calls) PROVE Len(stack) = Frame.base + Height(program, Frame)
    BY DEF Native, IsNative
  <2> QED
    BY <1>1, <1>2, <1>4, <2>1 DEF Machine, Topped, Frame
<1>6. Used \in Nat /\ ArityIn(program, Frame) + Used <= Height(program, Frame)
  BY <1>3, <1>4 DEF Used
<1> QED
  BY <1>2, <1>3, <1>4, <1>5, <1>6

\* What is left when values above the base are popped.
LEMMA PoppedFacts ==
    ASSUME NEW V, Running(V), NEW n \in Nat, Frame.base + n <= Len(stack)
    PROVE  /\ Popped(n) \in Seq(Seq(V)) /\ Len(Popped(n)) = Len(stack) - n
           /\ \A k \in 1..(Len(stack) - n) : Popped(n)[k] = stack[k]
           /\ \A k \in 1..Frame.base : Popped(n)[k] = stack[k]
           /\ \A k \in 1..n : Operand(k) \in Seq(V)
<1>1. Frame.base \in Nat /\ Len(stack) \in Nat /\ stack \in Seq(Seq(V))
  BY DepthFacts DEF Running, Machine
<1>2. Len(stack) - n \in 0..Len(stack)
  BY <1>1
<1>3. /\ Popped(n) \in Seq(Seq(V)) /\ Len(Popped(n)) = Len(stack) - n
      /\ \A k \in 1..(Len(stack) - n) : Popped(n)[k] = stack[k]
  BY <1>1, <1>2 DEF Popped
<1>4. \A k \in 1..Frame.base : k \in 1..(Len(stack) - n)
  BY <1>1
<1>5. ASSUME NEW k \in 1..n PROVE Operand(k) \in Seq(V)
  <2>1. Len(stack) - k + 1 \in 1..Len(stack)
    BY <1>1
  <2> QED
    BY <1>1, <2>1 DEF Operand
<1> QED
  BY <1>3, <1>4, <1>5

\* An instruction that succeeds.
LEMMA Succeeds ==
    ASSUME NEW V, Running(V), NEW W, V \subseteq W, Items(program, W), ~ Native,
           NEW next \in Successors(CodeOf(program, Frame), Frame.ip), Goto(next),
           stack' \in Seq(Seq(W)), build' \in Seq(Seq(W)),
           Len(stack') = Len(stack) - Used + Produces(Instruction),
           Len(build') = OpenedAfter(Instruction, Len(build)),
           \A k \in 1..Frame.base : stack'[k] = stack[k],
           program' = program, calls' = calls, status' = status
    PROVE  Sound
<1>1. /\ Machine(program, V, stack, build, frames, calls) /\ Verified(Programs[program])
      /\ program \in DOMAIN Programs /\ status = "running" /\ ~ IsNative(calls)
  BY DEF Running, Native, IsNative
<1>2. Machine(program, W, stack, build, frames, calls)
  BY <1>1, MachineGrows
<1>3. frames' = WithTop(frames, Moved(Frame, next)) /\ Frame = Last(frames)
  BY DEF Goto, WithTop, Moved, Frame, Last
<1>4. Instruction = CodeOf(program, Frame)[Frame.ip]
  BY DepthFacts
<1>5. Len(stack') = Len(stack) - Consumes(Programs[program], Instruction) + Produces(Instruction)
  BY DEF Used
<1>6. Machine(program, W, stack', build', frames', calls)
  BY <1>1, <1>2, <1>3, <1>4, <1>5, LocalStep
<1>7. IInv'
  BY <1>1, <1>6 DEF IInv
<1>8. Untouched
  <2>1. /\ Frame.base \in Nat /\ Used \in Nat /\ Len(stack) \in Nat /\ ArityIn(program, Frame) \in Nat
        /\ Frame.base + ArityIn(program, Frame) + Used <= Len(stack)
    BY DepthFacts
  <2>2. Produces(Instruction) \in 0..2
    BY ProducesFew
  <2>3. Frame.base <= Len(stack') /\ DOMAIN stack' = 1..Len(stack') /\ Len(stack') \in Nat
    BY <2>1, <2>2
  <2>4. \A k \in 1..(Frame.base - 1) : k \in 1..Frame.base /\ k \in DOMAIN stack'
    BY <2>1, <2>3, SlotsBelow
  <2> QED
    BY <2>4 DEF Untouched
<1> QED
  BY <1>7, <1>8 DEF Sound

\* An error ends the run where no predicate may be answered by an error.
LEMMA ErrorEnds ==
    ASSUME NEW p, NEW V, NEW A, NEW cs \in Seq(A), NEW s,
           \A c \in DOMAIN cs : ActivationOf(p, V, cs[c]),
           RaiseIn(cs, s), PredicatesReturn, ~ (Len(frames') < Len(frames))
    PROVE  /\ status' = "error" /\ calls' = cs /\ stack' = s
           /\ program' = program /\ build' = build
<1> DEFINE matching == {i \in DOMAIN cs : cs[i].waiting = "predicate"}
<1>1. ASSUME matching # {} PROVE FALSE
  <2> DEFINE m == Max(matching)
             a == Answered(cs[m], FALSE)
  <2>1. m \in DOMAIN cs /\ Len(cs) \in Nat /\ DOMAIN cs = 1..Len(cs)
    <3>1. matching \in SUBSET (1..Len(cs)) /\ Len(cs) \in Nat /\ DOMAIN cs = 1..Len(cs)
      OBVIOUS
    <3> HIDE DEF matching
    <3>2. m \in matching
      BY <1>1, <3>1, MaxIsMember
    <3> QED
      BY <3>1, <3>2
  <2>2. calls' = Append(SubSeq(cs, 1, m - 1), a)
    BY <1>1 DEF RaiseIn
  <2> HIDE DEF m
  <2>3. {"known", "waiting"} \subseteq DOMAIN cs[m]
    BY <2>1 DEF ActivationOf
  <2>4. a.waiting = "nothing" /\ Match(cs[m]) \in DOMAIN a.known
    BY <2>3 DEF Answered
  <2> HIDE DEF a
  <2>5. a.known # << >>
    BY <2>4
  <2>6. a \in ToSet(calls')
    <3>1. SubSeq(cs, 1, m - 1) \in Seq(A) /\ Len(SubSeq(cs, 1, m - 1)) = m - 1
      BY <2>1
    <3> DEFINE pre == SubSeq(cs, 1, m - 1)
    <3> HIDE DEF pre
    <3>2. pre \in Seq(A \cup {a}) /\ Len(pre) \in Nat
      BY <2>1, <3>1 DEF pre
    <3>3. Append(pre, a)[Len(pre) + 1] = a /\ Len(pre) + 1 \in DOMAIN Append(pre, a)
      BY <3>2
    <3> QED
      BY <2>2, <3>3 DEF ToSet, pre
  <2> QED
    BY <2>4, <2>5, <2>6 DEF PredicatesReturn
<1> QED
  BY <1>1 DEF RaiseIn

LEMMA TypedMoves ==
    ASSUME NEW p, NEW stk, NEW bld, NEW cls, NEW frs \in Seq(Placed(p)), frs # <<>>,
           TypedState(p, stk, bld, frs, cls),
           NEW moved \in Placed(p), moved.fn = Last(frs).fn, moved.base = Last(frs).base
    PROVE  TypedState(p, stk, bld, WithTop(frs, moved), cls)
<1> DEFINE g == WithTop(frs, moved)
<1>1. DOMAIN frs = 1..Len(frs) /\ Len(frs) \in Nat \ {0}
  OBVIOUS
<1>2. /\ g \in Seq(Placed(p)) /\ Len(g) = Len(frs) /\ DOMAIN g = DOMAIN frs
      /\ \A j \in DOMAIN frs : g[j] = IF j = Len(frs) THEN moved ELSE frs[j]
  BY <1>1 DEF WithTop
<1> HIDE DEF g
<1>3. \A f \in ToSet(frs) :
          /\ f.fn \in DOMAIN Functions(p) /\ f.ip \in DOMAIN CodeOf(p, f)
          /\ f.base + ArityIn(p, f) <= Len(stk)
  BY DEF TypedState
<1>4. Last(frs) \in ToSet(frs)
  BY <1>1 DEF Last, ToSet
<1>5. /\ moved.fn \in DOMAIN Functions(p) /\ moved.ip \in DOMAIN CodeOf(p, moved)
      /\ moved.base + ArityIn(p, moved) <= Len(stk)
  BY <1>3, <1>4 DEF Placed, FrameSet, ArityIn
<1>6. \A f \in ToSet(g) : f = moved \/ f \in ToSet(frs)
  BY <1>2 DEF ToSet
<1>7. Len(g) <= FramesMax
  BY <1>2 DEF TypedState
<1> QED
  BY <1>3, <1>5, <1>6, <1>7 DEF TypedState, g

\* Types of the state that a step leads to.
LEMMA NextTyped ==
    ASSUME program' \in DOMAIN Programs, status' \in {"running", "done", "error"},
           TypedState(program', stack', build', frames', calls')
    PROVE  TypeOK'
<1>1. \A f : Function(f.fn)'.code = CodeOf(program', f) /\ Function(f.fn)'.arity = ArityIn(program', f)
  BY DEF Function, CodeOf, ArityIn, Functions
<1> QED
  BY <1>1 DEF TypeOK, TypedState, Functions

\* An instruction or a call-back that fails.
LEMMA Fails ==
    ASSUME NEW V, Running(V), PredicatesReturn,
           NEW A, NEW cs \in Seq(A), NEW s \in Seq(Seq(V)),
           \A c \in DOMAIN cs :
               /\ ActivationOf(program, V, cs[c])
               /\ cs[c].waiting # "nothing" => cs[c].base <= Len(s),
           Frame.base + ArityIn(program, Frame) <= Len(s),
           \A k \in 1..(Frame.base - 1) : s[k] = stack[k],
           RaiseIn(cs, s),
           NEW moved \in Placed(program), moved.fn = Frame.fn, moved.base = Frame.base,
           frames' = WithTop(frames, moved)
    PROVE  Sound
<1>1. /\ Machine(program, V, stack, build, frames, calls) /\ Verified(Programs[program])
      /\ program \in DOMAIN Programs /\ status = "running"
  BY DEF Running
<1>2. frames \in Seq(Placed(program)) /\ Len(frames) \in Nat \ {0} /\ frames # <<>>
  BY <1>1, TopFacts DEF Machine, Framed
<1>3. Len(frames') = Len(frames)
  BY <1>2 DEF WithTop
<1>4. /\ status' = "error" /\ calls' = cs /\ stack' = s
      /\ program' = program /\ build' = build
  <2>1. ~ (Len(frames') < Len(frames))
    BY <1>2, <1>3
  <2> QED
    BY <2>1, ErrorEnds
<1>5. TypedState(program, s, build, frames, cs)
  BY <1>1, StateIsTyped DEF Frame
<1>6. TypedState(program, s, build, frames', cs)
  BY <1>2, <1>5, TypedMoves DEF Frame
<1>7. TypeOK'
  BY <1>1, <1>4, <1>6, NextTyped
<1>8. IInv'
  BY <1>1, <1>4, <1>7 DEF IInv, CleanEnd
<1>9. Untouched
  <2>1. Frame.base \in Nat /\ ArityIn(program, Frame) \in Nat
    BY DepthFacts
  <2>2. \A k \in 1..(Frame.base - 1) : k \in DOMAIN s
    BY <2>1
  <2> QED
    BY <1>4, <2>2 DEF Untouched
<1> QED
  BY <1>8, <1>9 DEF Sound

\* The instruction that is executed, and what the code says about it.
LEMMA Fetched ==
    ASSUME NEW V, Running(V), NEW op, Executes(op)
    PROVE  /\ ~ Native /\ Instruction.op = op
           /\ ValidOperand(Programs[program], Functions(program)[Frame.fn], Instruction,
                           Depths(Programs[program], Functions(program)[Frame.fn])[Frame.ip])
           /\ op \in {"BuildPush", "BuildComplete"} => Len(build) > 0
           /\ op \notin {"Return", "Jump"} =>
                 Frame.ip + 1 \in Successors(CodeOf(program, Frame), Frame.ip)
<1>1. ~ Native /\ Instruction.op = op
  BY DEF Executes
<1>2. /\ Frame \in Placed(program) /\ Verified(Programs[program])
      /\ Instruction = CodeOf(program, Frame)[Frame.ip]
      /\ Machine(program, V, stack, build, frames, calls)
  BY DepthFacts DEF Running
<1>3. /\ ValidOperand(Programs[program], Functions(program)[Frame.fn], Instruction,
                      Depths(Programs[program], Functions(program)[Frame.fn])[Frame.ip])
      /\ Instruction.op \in {"BuildPush", "BuildComplete"} => Opened(program, Frame) > 0
      /\ Opened(program, Frame) \in Nat
  BY <1>2, PlacedFacts
<1>4. Opened(program, Frame) > 0 => Len(build) > 0
  <2>1. PICK o \in [DOMAIN frames -> Nat] :
            Len(build) = o[Len(frames)] + Opened(program, Frame)
    BY <1>2 DEF Machine, Building, Frame
  <2>2. Len(frames) \in DOMAIN frames
    BY <1>2, TopFacts
  <2>3. o[Len(frames)] \in Nat
    BY <2>1, <2>2
  <2> QED
    BY <1>3, <2>1, <2>3
<1>5. op \notin {"Return", "Jump"} =>
         Frame.ip + 1 \in Successors(CodeOf(program, Frame), Frame.ip)
  BY <1>1, <1>2 DEF Successors
<1> QED
  BY <1>1, <1>3, <1>4, <1>5

\* An instruction that fails.
LEMMA FailsAfter ==
    ASSUME NEW V, Running(V), PredicatesReturn, ~ Native, Advance,
           Frame.ip + 1 \in Successors(CodeOf(program, Frame), Frame.ip),
           NEW s \in Seq(Seq(V)), Frame.base + ArityIn(program, Frame) <= Len(s),
           \A k \in 1..Frame.base : s[k] = stack[k],
           Raise(s)
    PROVE  Sound
<1>1. /\ Machine(program, V, stack, build, frames, calls) /\ Verified(Programs[program])
      /\ Frame \in Placed(program) /\ Frame.base \in Nat /\ ArityIn(program, Frame) \in Nat
  BY DepthFacts DEF Running
<1> DEFINE moved == Moved(Frame, Frame.ip + 1)
<1>2. moved \in Placed(program) /\ moved.fn = Frame.fn /\ moved.base = Frame.base
  BY <1>1, NextPlaced
<1>3. frames' = WithTop(frames, moved)
  BY DEF Advance, Goto, WithTop, Moved, Frame, Last
<1> HIDE DEF moved
<1>4. PICK A : calls \in Seq(A)
  BY <1>1 DEF Machine, Waiting
<1>5. \A c \in DOMAIN calls :
          /\ ActivationOf(program, V, calls[c])
          /\ calls[c].waiting # "nothing" => calls[c].base <= Len(s)
  <2>1. Frame.base <= Len(s) /\ Len(s) \in Nat
    BY <1>1
  <2> QED
    BY <1>1, <2>1, ActivationsOnStack DEF Frame
<1>6. RaiseIn(calls, s)
  BY DEF Raise
<1>7. \A k \in 1..(Frame.base - 1) : s[k] = stack[k]
  BY <1>1
<1> QED
  BY <1>2, <1>3, <1>4, <1>5, <1>6, <1>7, Fails

\* What belongs to every instruction that is not a jump or about building.
Plain ==
    /\ ~ Native /\ Frame.ip + 1 \in Successors(CodeOf(program, Frame), Frame.ip)
    /\ Instruction.op \notin {"BuildNew", "BuildComplete"}

LEMMA PushIsSound ==
    ASSUME NEW V, Running(V), Plain, Produces(Instruction) = Used + 1,
           NEW v \in Seq(V), Push(v)
    PROVE  Sound
<1>1. Frame.base \in Nat /\ Len(stack) \in Nat /\ Frame.base <= Len(stack) /\ Used \in Nat
  BY DepthFacts
<1>2. stack \in Seq(Seq(V)) /\ build \in Seq(Seq(V)) /\ Items(program, V)
  BY DEF Running, Machine
<1>3. /\ stack' = Append(stack, v) /\ build' = build
      /\ program' = program /\ calls' = calls /\ status' = status /\ Goto(Frame.ip + 1)
  BY DEF Push, LeavesStack, Advance
<1>4. /\ stack' \in Seq(Seq(V)) /\ Len(stack') = Len(stack) + 1
      /\ \A k \in 1..Len(stack) : stack'[k] = stack[k]
  BY <1>2, <1>3
<1>5. \A k \in 1..Frame.base : stack'[k] = stack[k]
  BY <1>1, <1>4
<1>6. Len(build') = OpenedAfter(Instruction, Len(build))
  BY <1>3 DEF Plain, OpenedAfter
<1>7. Len(stack') = Len(stack) - Used + Produces(Instruction)
  BY <1>1, <1>4
<1> QED
  BY <1>2, <1>3, <1>4, <1>5, <1>6, <1>7, Succeeds DEF Plain

\* One value takes the place of n operands.
LEMMA GivesIsSound ==
    ASSUME NEW V, Running(V), PredicatesReturn, Plain,
           NEW n \in Nat, n = Used, Produces(Instruction) = 1,
           NEW W, V \subseteq W, Items(program, W),
           NEW v, v = Failed \/ v \in Seq(W), Gives(n, v)
    PROVE  Sound
<1>1. /\ Frame.base \in Nat /\ Len(stack) \in Nat /\ ArityIn(program, Frame) \in Nat
      /\ Frame.base + ArityIn(program, Frame) + n <= Len(stack)
  BY DepthFacts DEF Plain
<1>1a. Frame.base + n <= Len(stack)
  BY <1>1
<1>2. /\ Popped(n) \in Seq(Seq(V)) /\ Len(Popped(n)) = Len(stack) - n
      /\ \A k \in 1..Frame.base : Popped(n)[k] = stack[k]
  BY <1>1, <1>1a, PoppedFacts
<1>3. CASE v = Failed
  <2>1. Raise(Popped(n)) /\ Advance
    BY <1>3 DEF Gives
  <2>2. Frame.base + ArityIn(program, Frame) <= Len(Popped(n))
    BY <1>1, <1>2
  <2> QED
    BY <1>2, <2>1, <2>2, FailsAfter DEF Plain
<1>4. CASE v # Failed
  <2>1. /\ stack' = Append(Popped(n), v) /\ build' = build
        /\ program' = program /\ calls' = calls /\ status' = status /\ Goto(Frame.ip + 1)
    BY <1>4 DEF Gives, LeavesStack, Advance
  <2>2. Seq(Seq(V)) \subseteq Seq(Seq(W)) /\ v \in Seq(W)
    <3>1. Seq(V) \subseteq Seq(W)
      OBVIOUS
    <3> QED
      BY <1>4, <3>1
  <2>3. build \in Seq(Seq(V)) /\ Popped(n) \in Seq(Seq(W))
    BY <1>2, <2>2 DEF Running, Machine
  <2> DEFINE rest == Popped(n)
  <2> HIDE DEF rest
  <2>4. rest \in Seq(Seq(W)) /\ stack' = Append(rest, v) /\ Len(rest) = Len(stack) - n
    BY <1>2, <2>1, <2>3 DEF rest
  <2>5. /\ stack' \in Seq(Seq(W)) /\ Len(stack') = Len(rest) + 1
        /\ \A k \in 1..Len(rest) : stack'[k] = rest[k]
    BY <2>2, <2>4, Appended
  <2>6. \A k \in 1..Frame.base : stack'[k] = stack[k]
    <3>1. \A k \in 1..Frame.base : k \in 1..Len(rest)
      BY <1>1, <2>4
    <3> QED
      BY <1>2, <2>5, <3>1 DEF rest
  <2>7. Len(stack') = Len(stack) - Used + Produces(Instruction)
    BY <1>1, <2>4, <2>5
  <2>8. build' \in Seq(Seq(W)) /\ Len(build') = OpenedAfter(Instruction, Len(build))
    BY <2>1, <2>2, <2>3 DEF Plain, OpenedAfter
  <2> QED
    BY <2>1, <2>5, <2>6, <2>7, <2>8, Succeeds DEF Plain
<1> QED
  BY <1>3, <1>4

-----------------------------------------------------------------------------
(* The instructions, one after the other. *)

\* How many values the instructions use and leave.
LEMMA UsedValues ==
    /\ Instruction.op \in {"Const", "Var", "ClosureVar"} => Used = 0 /\ Produces(Instruction) = 1
    /\ Instruction.op = "Dup" => Used = 1 /\ Produces(Instruction) = 2
    /\ Instruction.op \in Operators \cup {"SequenceGet", "LetDone"} =>
          Used = 2 /\ Produces(Instruction) = 1
    /\ Instruction.op \in {"Minus", "Plus", "Step", "Deduplicate", "SequenceLen", "IsNumeric",
                           "ApplyTemplates", "Return"} =>
          Used = 1 /\ Produces(Instruction) = 1
    /\ Instruction.op \in {"Set", "Pop", "JumpIfTrue", "JumpIfFalse", "BuildPush"} =>
          Used = 1 /\ Produces(Instruction) = 0
    /\ Instruction.op \in {"Jump", "BuildNew"} => Used = 0 /\ Produces(Instruction) = 0
    /\ Instruction.op = "BuildComplete" => Used = 0 /\ Produces(Instruction) = 1
    /\ Instruction.op = "Call" => Used = Instruction.arg + 1 /\ Produces(Instruction) = 1
    /\ Instruction.op = "Closure" =>
          Used = Len(Functions(program)[Instruction.arg].closed) /\ Produces(Instruction) = 1
    /\ Instruction.op = "StaticClosure" =>
          /\ Used = (IF Instruction.arg = "position" THEN 1 ELSE 0)
          /\ Produces(Instruction) = 1
<1> DEFINE i == Instruction
<1> HIDE DEF i
<1>1. /\ i.op \in {"Const", "Var", "ClosureVar"} =>
            Consumes(Programs[program], i) = 0 /\ Produces(i) = 1
      /\ i.op = "Dup" => Consumes(Programs[program], i) = 1 /\ Produces(i) = 2
      /\ i.op \in Operators \cup {"SequenceGet", "LetDone"} =>
            Consumes(Programs[program], i) = 2 /\ Produces(i) = 1
      /\ i.op \in {"Minus", "Plus", "Step", "Deduplicate", "SequenceLen", "IsNumeric",
                   "ApplyTemplates", "Return"} =>
            Consumes(Programs[program], i) = 1 /\ Produces(i) = 1
  BY DEF Consumes, Produces, Operators, NodeSetOperators
<1>2. /\ i.op \in {"Set", "Pop", "JumpIfTrue", "JumpIfFalse", "BuildPush"} =>
            Consumes(Programs[program], i) = 1 /\ Produces(i) = 0
      /\ i.op \in {"Jump", "BuildNew"} => Consumes(Programs[program], i) = 0 /\ Produces(i) = 0
      /\ i.op = "BuildComplete" => Consumes(Programs[program], i) = 0 /\ Produces(i) = 1
  BY DEF Consumes, Produces, Operators, NodeSetOperators
<1>3. /\ i.op = "Call" => Consumes(Programs[program], i) = i.arg + 1 /\ Produces(i) = 1
      /\ i.op = "Closure" =>
            Consumes(Programs[program], i) = Len(Programs[program].functions[i.arg].closed) /\ Produces(i) = 1
      /\ i.op = "StaticClosure" =>
            /\ Consumes(Programs[program], i) = (IF i.arg = "position" THEN 1 ELSE 0)
            /\ Produces(i) = 1
  BY DEF Consumes, Produces, Operators, NodeSetOperators
<1> QED
  BY <1>1, <1>2, <1>3 DEF Used, Functions, i

LEMMA PushConstantIsSound ==
    ASSUME NEW V, Running(V), PushConstant PROVE Sound
<1>1. Executes("Const") /\ Push(Instruction.arg)
  BY DEF PushConstant
<1>2. Plain /\ Used = 0 /\ Produces(Instruction) = 1
  BY <1>1, Fetched, UsedValues DEF Plain
<1>3. Instruction.arg \in Seq(Atoms) /\ Instruction.op = "Const"
  BY <1>1, Fetched DEF ValidOperand
<1>4. Instruction.arg \in Seq(V)
  <2>1. Atoms \subseteq V
    BY DEF Running, Machine, Items
  <2>2. Seq(Atoms) \subseteq Seq(V)
    BY <2>1
  <2> QED
    BY <1>3, <2>2
<1> QED
  BY <1>1, <1>2, <1>4, PushIsSound

LEMMA PushVariableIsSound ==
    ASSUME NEW V, Running(V), PushVariable PROVE Sound
<1>1. Executes("Var") /\ Push(stack[Frame.base + Instruction.arg])
  BY DEF PushVariable
<1>2. Plain /\ Used = 0 /\ Produces(Instruction) = 1
  BY <1>1, Fetched, UsedValues DEF Plain
<1>3. Instruction.arg \in 1..Height(program, Frame)
  BY <1>1, Fetched DEF ValidOperand, Height
<1>4. Frame.base + Instruction.arg \in 1..Len(stack)
  <2>1. /\ Frame.base \in Nat /\ Height(program, Frame) \in Nat
        /\ Len(stack) = Frame.base + Height(program, Frame)
    BY <1>2, DepthFacts DEF Plain
  <2> QED
    BY <1>3, <2>1
<1>5. stack[Frame.base + Instruction.arg] \in Seq(V)
  <2>1. stack \in Seq(Seq(V))
    BY DEF Running, Machine
  <2> QED
    BY <1>4, <2>1
<1> QED
  BY <1>1, <1>2, <1>5, PushIsSound

\* The function that runs is below the base, unless it is the main function.
LEMMA FunctionBelow ==
    ASSUME NEW V, Running(V)
    PROVE  \/ Len(frames) = 1 /\ Frame.fn = Programs[program].main /\ Frame.base = 0
           \/ /\ Len(frames) # 1 /\ Frame.base \in DOMAIN stack /\ Frame.base > 0
              /\ Len(stack[Frame.base]) = 1
              /\ stack[Frame.base][1] \in InlineItems(program, V)
              /\ stack[Frame.base][1].fn = Frame.fn
<1>1. /\ Machine(program, V, stack, build, frames, calls) /\ Verified(Programs[program])
      /\ Len(frames) \in Nat \ {0} /\ Frame = frames[Len(frames)]
      /\ DOMAIN frames = 1..Len(frames)
  BY TopFacts DEF Running, Frame, Last
<1>2. CASE Len(frames) = 1
  BY <1>1, <1>2 DEF Machine, Framed
<1>3. CASE Len(frames) # 1
  <2>1. /\ Len(stack[Frame.base]) = 1 /\ "fn" \in DOMAIN stack[Frame.base][1]
        /\ stack[Frame.base][1].fn = Frame.fn
    <3>1. Len(frames) \in 2..Len(frames)
      BY <1>1, <1>3
    <3> QED
      BY <1>1, <3>1 DEF Machine, Linked
  <2>2. 0 < Frame.base
    <3>1. frames[1].base = 0 /\ \A h, k \in DOMAIN frames : h < k => frames[h].base < frames[k].base
      BY <1>1 DEF Machine, Framed
    <3>2. 1 \in DOMAIN frames /\ Len(frames) \in DOMAIN frames /\ 1 < Len(frames)
      BY <1>1, <1>3
    <3> QED
      BY <1>1, <3>1, <3>2
  <2>3. Frame.base \in DOMAIN stack
    BY <1>1, <2>2, TopFacts DEF Frame
  <2>4. stack[Frame.base] \in Seq(V)
    BY <1>1, <2>3 DEF Machine
  <2>5. stack[Frame.base][1] \in V
    BY <2>1, <2>4
  <2>6. stack[Frame.base][1] \in InlineItems(program, V)
    BY <1>1, <2>1, <2>5, ItemKinds DEF Machine
  <2> QED
    BY <1>1, <1>3, <2>1, <2>2, <2>3, <2>6
<1> QED
  BY <1>2, <1>3

LEMMA PushClosureVariableIsSound ==
    ASSUME NEW V, Running(V), PushClosureVariable PROVE Sound
<1>1. Executes("ClosureVar") /\ Push(stack[Frame.base][1].vars[Instruction.arg])
  BY DEF PushClosureVariable
<1>2. Plain /\ Used = 0 /\ Produces(Instruction) = 1
  BY <1>1, Fetched, UsedValues DEF Plain
<1>3. Instruction.arg \in DOMAIN Functions(program)[Frame.fn].closed
  BY <1>1, Fetched DEF ValidOperand
<1>4. Frame.fn \in DOMAIN Functions(program) /\ Verified(Programs[program])
  BY DepthFacts DEF Placed, FrameSet, Running
<1>5. Len(frames) # 1
  <2>0. Len(frames) = 1 => Frame.fn = Programs[program].main
    BY FunctionBelow
  <2>1. SUFFICES ASSUME Frame.fn = Programs[program].main PROVE FALSE
    BY <2>0, Zenon
  <2>2. Functions(program)[Frame.fn].closed = <<>>
    BY <1>4, <2>1, Zenon DEF Verified, CalledByHost, Functions
  <2> QED
    BY <1>3, <2>2
<1>6. /\ stack[Frame.base][1] \in InlineItems(program, V)
      /\ stack[Frame.base][1].fn = Frame.fn
  <2>1. \/ Len(frames) = 1
        \/ /\ stack[Frame.base][1] \in InlineItems(program, V)
           /\ stack[Frame.base][1].fn = Frame.fn
    BY FunctionBelow
  <2> QED
    BY <1>5, <2>1
<1>7. stack[Frame.base][1].vars[Instruction.arg] \in Seq(V)
  <2>1. IsSequence(Functions(program)[Frame.fn].closed)
    BY <1>4 DEF Verified, Balanced, Functions
  <2> DEFINE held == stack[Frame.base][1].vars
  <2>2. held \in Seq(Seq(V)) /\ Len(held) = Len(Functions(program)[Frame.fn].closed)
    BY <1>6 DEF InlineItems
  <2> HIDE DEF held
  <2>3. held[Instruction.arg] \in Seq(V)
    BY <1>3, <2>1, <2>2 DEF IsSequence
  <2> QED
    BY <2>3 DEF held
<1> QED
  BY <1>1, <1>2, <1>7, PushIsSound

LEMMA SetVariableIsSound ==
    ASSUME NEW V, Running(V), SetVariable PROVE Sound
<1>1. /\ Executes("Set") /\ Goto(Frame.ip + 1)
      /\ stack' = [Popped(1) EXCEPT ![Frame.base + Instruction.arg] = Operand(1)]
      /\ program' = program /\ build' = build /\ calls' = calls /\ status' = status
  BY DEF SetVariable, LeavesStack, Advance
<1>2. Plain /\ Used = 1 /\ Produces(Instruction) = 0
  BY <1>1, Fetched, UsedValues DEF Plain
<1>3. Instruction.arg \in 1..(Height(program, Frame) - 1)
  BY <1>1, Fetched DEF ValidOperand, Height
<1>4. /\ Frame.base \in Nat /\ Len(stack) \in Nat /\ Frame.base + 1 <= Len(stack)
      /\ Len(stack) = Frame.base + Height(program, Frame) /\ Height(program, Frame) \in Nat
  BY <1>2, DepthFacts DEF Plain
<1>5. /\ Popped(1) \in Seq(Seq(V)) /\ Len(Popped(1)) = Len(stack) - 1
      /\ \A k \in 1..Frame.base : Popped(1)[k] = stack[k]
      /\ Operand(1) \in Seq(V)
  BY <1>4, PoppedFacts
<1> DEFINE rest == Popped(1)
           slot == Frame.base + Instruction.arg
<1>6. slot \in 1..Len(rest) /\ slot > Frame.base
  <2>1. Instruction.arg \in Nat /\ 1 <= Instruction.arg /\ Instruction.arg + 1 <= Height(program, Frame)
    BY <1>3, <1>4
  <2>2. Len(rest) = Frame.base + Height(program, Frame) - 1
    BY <1>4, <1>5
  <2> HIDE DEF rest
  <2> QED
    BY <1>4, <2>1, <2>2, SMTT(30)
<1> HIDE DEF rest, slot
<1>7. stack' = [rest EXCEPT ![slot] = Operand(1)] /\ rest \in Seq(Seq(V))
  BY <1>1, <1>5 DEF rest, slot
<1>8. /\ stack' \in Seq(Seq(V)) /\ Len(stack') = Len(rest)
      /\ \A k \in 1..Len(rest) : k # slot => stack'[k] = rest[k]
  BY <1>5, <1>6, <1>7
<1>9. \A k \in 1..Frame.base : stack'[k] = stack[k]
  <2>1. \A k \in 1..Frame.base : k # slot /\ k \in 1..Len(rest)
    BY <1>4, <1>6
  <2> QED
    BY <1>5, <1>8, <2>1 DEF rest
<1>10. Len(stack') = Len(stack) - Used + Produces(Instruction)
  BY <1>2, <1>4, <1>5, <1>8 DEF rest
<1>11. build' \in Seq(Seq(V)) /\ Len(build') = OpenedAfter(Instruction, Len(build)) /\ Items(program, V)
  BY <1>1, <1>2 DEF Plain, OpenedAfter, Running, Machine
<1> QED
  BY <1>1, <1>2, <1>8, <1>9, <1>10, <1>11, Succeeds DEF Plain

\* The operands of an instruction.
LEMMA OperandsAreValues ==
    ASSUME NEW V, Running(V), ~ Native
    PROVE  \A k \in 1..Used : Operand(k) \in Seq(V)
<1>1. Used \in Nat /\ Frame.base + Used <= Len(stack)
  BY DepthFacts
<1> QED
  BY <1>1, PoppedFacts

LEMMA MakeClosureIsSound ==
    ASSUME NEW V, Running(V), PredicatesReturn, MakeClosure PROVE Sound
<1> DEFINE n == Len(Function(Instruction.arg).closed)
           captured == [k \in 1..n |-> Operand(k)]
           x == [fn |-> Instruction.arg, vars |-> captured]
<1>1. Executes("Closure") /\ Gives(n, <<x>>)
  BY DEF MakeClosure
<1>2. Plain /\ Used = n /\ Produces(Instruction) = 1
  BY <1>1, Fetched, UsedValues DEF Plain, Function, Functions
<1>3. Instruction.arg \in DOMAIN Functions(program)
  BY <1>1, Fetched DEF ValidOperand, Functions
<1>4. n \in Nat /\ \A k \in 1..n : Operand(k) \in Seq(V)
  BY <1>2, DepthFacts, OperandsAreValues DEF Plain
<1>5. n = Len(Functions(program)[Instruction.arg].closed)
  BY DEF Function, Functions
<1> HIDE DEF n
<1>6. captured \in Seq(Seq(V)) /\ Len(captured) = n
  BY <1>4
<1> HIDE DEF captured
<1>7. x \in InlineItems(program, V)
  BY <1>3, <1>5, <1>6 DEF InlineItems
<1>8. Items(program, V \cup {x})
  BY <1>7, MoreItems DEF Running, Machine
<1> HIDE DEF x
<1>9. <<x>> \in Seq(V \cup {x}) /\ V \subseteq V \cup {x}
  OBVIOUS
<1> QED
  BY <1>1, <1>2, <1>4, <1>8, <1>9, GivesIsSound

LEMMA MakeStaticClosureIsSound ==
    ASSUME NEW V, Running(V), PredicatesReturn, MakeStaticClosure PROVE Sound
<1> DEFINE n == IF Instruction.arg = "position" THEN 1 ELSE 0
           captured == [k \in 1..n |-> Operand(k)]
           x == [static |-> Instruction.arg, vars |-> captured]
<1>1. Executes("StaticClosure") /\ Gives(n, <<x>>)
  BY DEF MakeStaticClosure
<1>2. Plain /\ Used = n /\ Produces(Instruction) = 1
  BY <1>1, Fetched, UsedValues DEF Plain
<1>3. Instruction.arg \in DOMAIN StaticArity
  BY <1>1, Fetched DEF ValidOperand
<1>4. n \in Nat /\ \A k \in 1..n : Operand(k) \in Seq(V)
  BY <1>2, DepthFacts, OperandsAreValues DEF Plain
<1>5. Instruction.arg = "position" => n = 1
  OBVIOUS
<1> HIDE DEF n
<1>6. captured \in Seq(Seq(V)) /\ Len(captured) = n
  BY <1>4
<1> HIDE DEF captured
<1>7. x \in StaticItems(V)
  BY <1>3, <1>5, <1>6 DEF StaticItems
<1>8. Items(program, V \cup {x})
  BY <1>7, MoreItems DEF Running, Machine
<1> HIDE DEF x
<1>9. <<x>> \in Seq(V \cup {x}) /\ V \subseteq V \cup {x}
  OBVIOUS
<1> QED
  BY <1>1, <1>2, <1>4, <1>8, <1>9, GivesIsSound

\* What is common to the instructions that compute one value of their operands.
LEMMA ComputesIsSound ==
    ASSUME NEW V, Running(V), PredicatesReturn, Plain,
           NEW n \in {1, 2}, Used = n, Produces(Instruction) = 1,
           NEW v, v = Failed \/ v \in Seq(V), Gives(n, v)
    PROVE  Sound
<1>1. n \in Nat /\ Items(program, V) /\ V \subseteq V
  BY DEF Running, Machine
<1> QED
  BY <1>1, GivesIsSound

LEMMA OperateIsSound ==
    ASSUME NEW V, Running(V), PredicatesReturn, Operate PROVE Sound
<1>1. PICK op \in Operators : Executes(op) /\ Gives(2, Apply(op, Operand(2), Operand(1)))
  BY DEF Operate
<1>2. op \notin {"Return", "Jump", "BuildNew", "BuildComplete"}
  BY DEF Operators, NodeSetOperators
<1>3. Plain /\ Used = 2 /\ Produces(Instruction) = 1
  BY <1>1, <1>2, Fetched, UsedValues DEF Plain
<1>4. Operand(1) \in Seq(V) /\ Operand(2) \in Seq(V) /\ Items(program, V)
  BY <1>3, OperandsAreValues DEF Plain, Running, Machine
<1>5. Apply(op, Operand(2), Operand(1)) = Failed \/ Apply(op, Operand(2), Operand(1)) \in Seq(V)
  BY <1>4, ApplyGivesValue
<1> DEFINE v == Apply(op, Operand(2), Operand(1))
<1> HIDE DEF v
<1>6. (v = Failed \/ v \in Seq(V)) /\ Gives(2, v)
  BY <1>1, <1>5 DEF v
<1> QED
  BY <1>3, <1>6, ComputesIsSound

LEMMA OperateUnaryIsSound ==
    ASSUME NEW V, Running(V), PredicatesReturn, OperateUnary PROVE Sound
<1>1. PICK op \in {"Minus", "Plus"} : Executes(op)
  BY DEF OperateUnary
<1>2. Plain /\ Used = 1 /\ Produces(Instruction) = 1
  BY <1>1, Fetched, UsedValues DEF Plain
<1>3. Operand(1) \in Seq(V) /\ Items(program, V)
  BY <1>2, OperandsAreValues DEF Plain, Running, Machine
<1>4. Negated(Operand(1)) = Failed \/ Negated(Operand(1)) \in Seq(V)
  BY <1>3, NegatedGivesValue
<1>5. PICK v : (v = Failed \/ v \in Seq(V)) /\ Gives(1, v)
  BY <1>3, <1>4 DEF OperateUnary
<1> QED
  BY <1>2, <1>5, ComputesIsSound

LEMMA TakeStepIsSound ==
    ASSUME NEW V, Running(V), PredicatesReturn, TakeStep PROVE Sound
<1> DEFINE v == IF OneNode(Operand(1))
                THEN ResolveStep(Instruction.arg.axis, Instruction.arg.test, Operand(1)[1].node)
                ELSE Failed
<1>1. Executes("Step") /\ Gives(1, v)
  BY DEF TakeStep
<1>2. Plain /\ Used = 1 /\ Produces(Instruction) = 1
  BY <1>1, Fetched, UsedValues DEF Plain
<1>3. Operand(1) \in Seq(V) /\ Items(program, V)
  BY <1>2, OperandsAreValues DEF Plain, Running, Machine
<1>4. Instruction.arg.axis \in AllAxes
  BY <1>1, Fetched DEF ValidOperand, Operators, NodeSetOperators
<1>5. v = Failed \/ v \in Seq(V)
  <2>1. CASE OneNode(Operand(1))
    <3>1. Operand(1)[1] \in V
      BY <1>3, <2>1 DEF OneNode
    <3>2. Operand(1)[1].node \in Nodes
      BY <1>3, <2>1, <3>1, ItemKinds DEF OneNode
    <3> QED
      BY <1>3, <1>4, <2>1, <3>2, StepGivesValue
  <2> QED
    BY <2>1
<1> HIDE DEF v
<1> QED
  BY <1>1, <1>2, <1>5, ComputesIsSound

LEMMA SequencesAreSound ==
    ASSUME NEW V, Running(V), PredicatesReturn,
           SortNodes \/ MeasureSequence \/ GetItem \/ TestKind \/ EndLet
    PROVE  Sound
<1>1. CASE SortNodes
  <2>1. Executes("Deduplicate") /\ Gives(1, Deduplicate(Operand(1)))
    BY <1>1 DEF SortNodes
  <2>2. Plain /\ Used = 1 /\ Produces(Instruction) = 1
    BY <2>1, Fetched, UsedValues DEF Plain
  <2>3. Operand(1) \in Seq(V) /\ Items(program, V)
    BY <2>2, OperandsAreValues DEF Plain, Running, Machine
  <2>4. Deduplicate(Operand(1)) = Failed \/ Deduplicate(Operand(1)) \in Seq(V)
    BY <2>3, DeduplicateGivesValue
  <2> QED
    BY <2>1, <2>2, <2>4, ComputesIsSound
<1>2. CASE MeasureSequence
  <2>1. Executes("SequenceLen") /\ Gives(1, SequenceLen(Operand(1)))
    BY <1>2 DEF MeasureSequence
  <2>2. Plain /\ Used = 1 /\ Produces(Instruction) = 1
    BY <2>1, Fetched, UsedValues DEF Plain
  <2>3. Operand(1) \in Seq(V) /\ Items(program, V)
    BY <2>2, OperandsAreValues DEF Plain, Running, Machine
  <2>4. SequenceLen(Operand(1)) \in Seq(V)
    BY <2>3, TestsGiveValues
  <2> QED
    BY <2>1, <2>2, <2>4, ComputesIsSound
<1>3. CASE GetItem
  <2>1. Executes("SequenceGet") /\ Gives(2, SequenceGet(Operand(2), Operand(1)))
    BY <1>3 DEF GetItem
  <2>2. Plain /\ Used = 2 /\ Produces(Instruction) = 1
    BY <2>1, Fetched, UsedValues DEF Plain
  <2>3. Operand(1) \in Seq(V) /\ Operand(2) \in Seq(V) /\ Items(program, V)
    BY <2>2, OperandsAreValues DEF Plain, Running, Machine
  <2>4. SequenceGet(Operand(2), Operand(1)) = Failed \/ SequenceGet(Operand(2), Operand(1)) \in Seq(V)
    BY <2>3, TestsGiveValues
  <2> QED
    BY <2>1, <2>2, <2>4, ComputesIsSound
<1>4. CASE TestKind
  <2>1. Executes("IsNumeric") /\ Gives(1, IsNumeric(Operand(1)))
    BY <1>4 DEF TestKind
  <2>2. Plain /\ Used = 1 /\ Produces(Instruction) = 1
    BY <2>1, Fetched, UsedValues DEF Plain
  <2>3. Operand(1) \in Seq(V) /\ Items(program, V)
    BY <2>2, OperandsAreValues DEF Plain, Running, Machine
  <2>4. IsNumeric(Operand(1)) = Failed \/ IsNumeric(Operand(1)) \in Seq(V)
    BY <2>3, TestsGiveValues
  <2> QED
    BY <2>1, <2>2, <2>4, ComputesIsSound
<1>5. CASE EndLet
  <2>1. Executes("LetDone") /\ Gives(2, Operand(1))
    BY <1>5 DEF EndLet
  <2>2. Plain /\ Used = 2 /\ Produces(Instruction) = 1
    BY <2>1, Fetched, UsedValues DEF Plain
  <2>3. Operand(1) \in Seq(V)
    BY <2>2, OperandsAreValues DEF Plain
  <2> QED
    BY <2>1, <2>2, <2>3, ComputesIsSound
<1> QED
  BY <1>1, <1>2, <1>3, <1>4, <1>5

LEMMA DuplicateIsSound ==
    ASSUME NEW V, Running(V), Duplicate PROVE Sound
<1>1. Executes("Dup") /\ Push(Operand(1))
  BY DEF Duplicate
<1>2. Plain /\ Used = 1 /\ Produces(Instruction) = 2
  BY <1>1, Fetched, UsedValues DEF Plain
<1>3. Operand(1) \in Seq(V)
  BY <1>2, OperandsAreValues DEF Plain
<1> QED
  BY <1>1, <1>2, <1>3, PushIsSound

\* An instruction that takes one value, or none, and goes to the next one.
LEMMA TakesIsSound ==
    ASSUME NEW V, Running(V), ~ Native, Produces(Instruction) = 0, Used \in {0, 1},
           NEW next \in Successors(CodeOf(program, Frame), Frame.ip), Goto(next),
           stack' = IF Used = 1 THEN Popped(1) ELSE stack,
           build' \in Seq(Seq(V)), Len(build') = OpenedAfter(Instruction, Len(build)),
           program' = program, calls' = calls, status' = status
    PROVE  Sound
<1>1. /\ Frame.base \in Nat /\ Len(stack) \in Nat /\ ArityIn(program, Frame) \in Nat
      /\ Frame.base + ArityIn(program, Frame) + Used <= Len(stack)
  BY DepthFacts
<1>2. stack \in Seq(Seq(V)) /\ Items(program, V)
  BY DEF Running, Machine
<1>3. /\ stack' \in Seq(Seq(V)) /\ Len(stack') = Len(stack) - Used
      /\ \A k \in 1..Frame.base : stack'[k] = stack[k]
  <2>1. CASE Used = 1
    <3>1. Frame.base + 1 <= Len(stack) /\ 1 \in Nat
      BY <1>1, <2>1
    <3>2. /\ Popped(1) \in Seq(Seq(V)) /\ Len(Popped(1)) = Len(stack) - 1
          /\ \A k \in 1..Frame.base : Popped(1)[k] = stack[k]
      BY <3>1, PoppedFacts
    <3> QED
      BY <2>1, <3>2
  <2>2. CASE Used = 0
    BY <1>1, <1>2, <2>2
  <2> QED
    BY <2>1, <2>2
<1>4. Len(stack') = Len(stack) - Used + Produces(Instruction)
  BY <1>1, <1>3
<1> QED
  BY <1>2, <1>3, <1>4, Succeeds

LEMMA JumpsAreSound ==
    ASSUME NEW V, Running(V), PredicatesReturn, Discard \/ Jump \/ Branch PROVE Sound
<1>1. build \in Seq(Seq(V)) /\ stack \in Seq(Seq(V))
  BY DEF Running, Machine
<1>2. CASE Discard
  <2>1. Executes("Pop") /\ Goto(Frame.ip + 1) /\ stack' = Popped(1)
        /\ program' = program /\ build' = build /\ calls' = calls /\ status' = status
    BY <1>2 DEF Discard, Advance, LeavesStack
  <2>2. Plain /\ Used = 1 /\ Produces(Instruction) = 0
    BY <2>1, Fetched, UsedValues DEF Plain
  <2>3. Len(build') = OpenedAfter(Instruction, Len(build)) /\ build' \in Seq(Seq(V))
    BY <1>1, <2>1, <2>2 DEF OpenedAfter, Plain
  <2>4. stack' = IF Used = 1 THEN Popped(1) ELSE stack
    BY <2>1, <2>2
  <2> QED
    BY <2>1, <2>2, <2>3, <2>4, TakesIsSound DEF Plain
<1>3. CASE Jump
  <2>1. Executes("Jump") /\ Goto(Frame.ip + 1 + Instruction.arg) /\ stack' = stack
        /\ program' = program /\ build' = build /\ calls' = calls /\ status' = status
    BY <1>3 DEF Jump, LeavesStack
  <2>2. ~ Native /\ Instruction.op = "Jump" /\ Used = 0 /\ Produces(Instruction) = 0
    BY <2>1, Fetched, UsedValues
  <2>3. Frame.ip + 1 + Instruction.arg \in Successors(CodeOf(program, Frame), Frame.ip)
    <3>1. CodeOf(program, Frame)[Frame.ip] = Instruction
      BY DepthFacts
    <3> QED
      BY <2>2, <3>1 DEF Successors
  <2>4. Len(build') = OpenedAfter(Instruction, Len(build)) /\ build' \in Seq(Seq(V))
    BY <1>1, <2>1, <2>2 DEF OpenedAfter
  <2>5. stack' = IF Used = 1 THEN Popped(1) ELSE stack
    BY <2>1, <2>2
  <2> QED
    BY <2>1, <2>2, <2>3, <2>4, <2>5, TakesIsSound
<1>4. CASE Branch
  <2> DEFINE test == EffectiveBoolean(Operand(1))
  <2>1. PICK b \in BOOLEAN :
           /\ Executes(IF b THEN "JumpIfTrue" ELSE "JumpIfFalse")
           /\ IF test = Failed
               THEN Advance /\ Raise(Popped(1))
               ELSE /\ Goto(Frame.ip + 1 + (IF test = b THEN Instruction.arg ELSE 0))
                    /\ LeavesStack(Popped(1))
    BY <1>4 DEF Branch
  <2>2. PICK op \in {"JumpIfTrue", "JumpIfFalse"} : Executes(op)
    BY <2>1
  <2>3. Plain /\ Instruction.op = op /\ Used = 1 /\ Produces(Instruction) = 0
    BY <2>2, Fetched, UsedValues DEF Plain
  <2>4. /\ Frame.base \in Nat /\ Len(stack) \in Nat /\ ArityIn(program, Frame) \in Nat
        /\ Frame.base + ArityIn(program, Frame) + 1 <= Len(stack)
        /\ Instruction = CodeOf(program, Frame)[Frame.ip] /\ Frame \in Placed(program)
    BY <2>3, DepthFacts DEF Plain
  <2>5. CASE test = Failed
    <3>1. Advance /\ Raise(Popped(1))
      BY <2>1, <2>5
    <3>2. /\ Popped(1) \in Seq(Seq(V)) /\ Len(Popped(1)) = Len(stack) - 1
          /\ \A k \in 1..Frame.base : Popped(1)[k] = stack[k]
      BY <2>4, PoppedFacts
    <3>3. Frame.base + ArityIn(program, Frame) <= Len(Popped(1))
      BY <2>4, <3>2
    <3> QED
      BY <2>3, <3>1, <3>2, <3>3, FailsAfter DEF Plain
  <2>6. CASE test # Failed
    <3> DEFINE next == Frame.ip + 1 + (IF test = b THEN Instruction.arg ELSE 0)
    <3>1. Goto(next) /\ LeavesStack(Popped(1))
      BY <2>1, <2>6
    <3>2. next \in Successors(CodeOf(program, Frame), Frame.ip)
      <4>1. Frame.ip \in Nat
        BY <2>4 DEF Placed, FrameSet
      <4>2. Frame.ip + 1 + 0 = Frame.ip + 1
        BY <4>1
      <4>3. next \in {Frame.ip + 1, Frame.ip + 1 + Instruction.arg}
        BY <4>2
      <4> HIDE DEF next
      <4> QED
        BY <2>3, <2>4, <4>3 DEF Successors
    <3> HIDE DEF next
    <3>3. /\ stack' = Popped(1) /\ build' = build
          /\ program' = program /\ calls' = calls /\ status' = status
      BY <3>1 DEF LeavesStack
    <3>4. Len(build') = OpenedAfter(Instruction, Len(build)) /\ build' \in Seq(Seq(V))
      BY <1>1, <2>3, <3>3 DEF OpenedAfter, Plain
    <3>5. stack' = IF Used = 1 THEN Popped(1) ELSE stack
      BY <2>3, <3>3
    <3> QED
      BY <2>3, <3>1, <3>2, <3>3, <3>4, <3>5, TakesIsSound DEF Plain
  <2> QED
    BY <2>5, <2>6
<1> QED
  BY <1>2, <1>3, <1>4

LEMMA BuildsAreSound ==
    ASSUME NEW V, Running(V), BuildNew \/ BuildPush \/ BuildComplete PROVE Sound
<1>1. build \in Seq(Seq(V)) /\ stack \in Seq(Seq(V)) /\ <<>> \in Seq(V) /\ Items(program, V)
  BY DEF Running, Machine
<1>2. CASE BuildNew
  <2>1. /\ Executes("BuildNew") /\ Goto(Frame.ip + 1) /\ stack' = stack /\ build' = Append(build, <<>>)
        /\ program' = program /\ calls' = calls /\ status' = status
    BY <1>2 DEF BuildNew, Builds, Advance
  <2>2. /\ ~ Native /\ Instruction.op = "BuildNew" /\ Used = 0 /\ Produces(Instruction) = 0
        /\ Frame.ip + 1 \in Successors(CodeOf(program, Frame), Frame.ip)
    BY <2>1, Fetched, UsedValues
  <2>3. build' \in Seq(Seq(V)) /\ Len(build') = Len(build) + 1
    BY <1>1, <2>1, Appended
  <2>4. Len(build') = OpenedAfter(Instruction, Len(build))
    BY <2>2, <2>3 DEF OpenedAfter
  <2>5. stack' = IF Used = 1 THEN Popped(1) ELSE stack
    BY <2>1, <2>2
  <2> QED
    BY <2>1, <2>2, <2>3, <2>4, <2>5, TakesIsSound
<1>3. CASE BuildPush
  <2>1. /\ Executes("BuildPush") /\ Goto(Frame.ip + 1) /\ stack' = Popped(1)
        /\ build' = [build EXCEPT ![Len(build)] = @ \o Operand(1)]
        /\ program' = program /\ calls' = calls /\ status' = status
    BY <1>3 DEF BuildPush, Builds, Advance
  <2>2. Plain /\ Instruction.op = "BuildPush" /\ Used = 1 /\ Produces(Instruction) = 0 /\ Len(build) > 0
    BY <2>1, Fetched, UsedValues DEF Plain
  <2>3. Operand(1) \in Seq(V)
    BY <2>2, OperandsAreValues DEF Plain
  <2>4. build[Len(build)] \in Seq(V) /\ Len(build) \in DOMAIN build
    BY <1>1, <2>2
  <2>5. build[Len(build)] \o Operand(1) \in Seq(V)
    BY <2>3, <2>4
  <2>6. build' \in Seq(Seq(V)) /\ Len(build') = Len(build)
    BY <1>1, <2>1, <2>4, <2>5
  <2>7. Len(build') = OpenedAfter(Instruction, Len(build))
    BY <2>2, <2>6 DEF OpenedAfter
  <2>8. stack' = IF Used = 1 THEN Popped(1) ELSE stack
    BY <2>1, <2>2
  <2> QED
    BY <2>1, <2>2, <2>6, <2>7, <2>8, TakesIsSound DEF Plain
<1>4. CASE BuildComplete
  <2>1. /\ Executes("BuildComplete") /\ Goto(Frame.ip + 1) /\ stack' = Append(stack, Last(build))
        /\ build' = Front(build)
        /\ program' = program /\ calls' = calls /\ status' = status
    BY <1>4 DEF BuildComplete, Builds, Advance
  <2>2. /\ ~ Native /\ Instruction.op = "BuildComplete" /\ Used = 0 /\ Produces(Instruction) = 1
        /\ Frame.ip + 1 \in Successors(CodeOf(program, Frame), Frame.ip) /\ Len(build) > 0
    BY <2>1, Fetched, UsedValues
  <2>3. Last(build) \in Seq(V)
    BY <1>1, <2>2 DEF Last
  <2>4. build' \in Seq(Seq(V)) /\ Len(build') = Len(build) - 1
    BY <1>1, <2>1, <2>2, Fronted
  <2>5. Len(build') = OpenedAfter(Instruction, Len(build))
    BY <2>2, <2>4 DEF OpenedAfter
  <2>6. /\ stack' \in Seq(Seq(V)) /\ Len(stack') = Len(stack) + 1
        /\ \A k \in 1..Len(stack) : stack'[k] = stack[k]
    BY <1>1, <2>1, <2>3, Appended
  <2>7. Frame.base \in Nat /\ Len(stack) \in Nat /\ Frame.base <= Len(stack)
    BY DepthFacts
  <2>8. /\ \A k \in 1..Frame.base : stack'[k] = stack[k]
        /\ Len(stack') = Len(stack) - Used + Produces(Instruction)
    BY <2>2, <2>6, <2>7
  <2> QED
    BY <1>1, <2>1, <2>2, <2>4, <2>5, <2>6, <2>8, Succeeds
<1> QED
  BY <1>2, <1>3, <1>4

LEMMA ComputeIsSound ==
    ASSUME NEW V, Running(V), PredicatesReturn, Compute PROVE Sound
BY PushConstantIsSound, PushVariableIsSound, PushClosureVariableIsSound, SetVariableIsSound,
   MakeClosureIsSound, MakeStaticClosureIsSound, OperateIsSound, OperateUnaryIsSound,
   TakeStepIsSound, SequencesAreSound, DuplicateIsSound, JumpsAreSound, BuildsAreSound
   DEF Compute

-----------------------------------------------------------------------------
(* Frames and activations that come and go. *)

LEMMA LinkedKept ==
    ASSUME NEW p, NEW stk, NEW stk2, NEW frs, NEW cls, NEW cls2, Linked(p, stk, frs, cls),
           \A j \in 2..Len(frs) :
               /\ Extra(cls2, frs[j].base) = Extra(cls, frs[j].base)
               /\ stk2[frs[j].base] = stk[frs[j].base]
    PROVE  Linked(p, stk2, frs, cls2)
BY DEF Linked

\* A frame that is entered, and the item of its function below it.
Entry(id, b)         == [fn |-> id, ip |-> 1, base |-> b]
Entered(frs, f)      == Append(frs, f)
IsItemOf(stk, b, id) == Len(stk[b]) = 1 /\ "fn" \in DOMAIN stk[b][1] /\ stk[b][1].fn = id

\* A function is entered.
LEMMA FrameEnters ==
    ASSUME NEW p, Verified(Programs[p]), NEW stk, NEW bld, NEW frs, NEW cls,
           Framed(p, frs), Linked(p, stk, frs, cls), Building(p, bld, frs),
           NEW top, top = Last(frs), Len(frs) < FramesMax,
           NEW id \in DOMAIN Functions(p), NEW b \in Nat, NEW f, f = Entry(id, b),
           b = top.base + Height(p, top) + Extra(cls, b), ArityIn(p, top) < Height(p, top),
           IsItemOf(stk, b, id),
           NEW frs2, frs2 = Entered(frs, f)
    PROVE  /\ Framed(p, frs2) /\ Linked(p, stk, frs2, cls) /\ Building(p, bld, frs2)
           /\ Last(frs2) = f /\ f.base = b /\ Height(p, f) = Functions(p)[id].arity
           /\ Len(frs2) = Len(frs) + 1
           /\ \A j \in 1..Len(frs) : frs2[j] = frs[j]
<1>0. /\ f = [fn |-> id, ip |-> 1, base |-> b] /\ frs2 = Append(frs, f)
      /\ Len(stk[b]) = 1 /\ "fn" \in DOMAIN stk[b][1] /\ stk[b][1].fn = id
  BY DEF Entry, Entered, IsItemOf
<1> DEFINE n == Len(frs)
<1>1. /\ frs \in Seq(Placed(p)) /\ n \in Nat \ {0} /\ DOMAIN frs = 1..n
      /\ \A j \in 1..n : frs[j] \in Placed(p)
      /\ top = frs[n] /\ top \in Placed(p)
  BY FramesMaxAssumption DEF Framed, Last
<1>2. \A j \in 1..n : frs[j].base \in Nat
  BY <1>1 DEF Placed, FrameSet
<1>3. top.base \in Nat /\ Height(p, top) \in Nat /\ ArityIn(p, top) \in Nat /\ Opened(p, top) \in Nat
  BY <1>1, PlacedFacts
<1>4. /\ f \in Placed(p) /\ f.fn = id /\ f.base = b
      /\ Height(p, f) = ArityIn(p, f) /\ Opened(p, f) = 0
      /\ ArityIn(p, f) = Functions(p)[id].arity
  BY <1>0, StartPlaced
<1> HIDE DEF n
<1>5. /\ frs2 \in Seq(Placed(p)) /\ Len(frs2) = n + 1 /\ DOMAIN frs2 = 1..(n + 1)
      /\ \A j \in 1..n : frs2[j] = frs[j]
      /\ frs2[n + 1] = f
  <2>1. frs2 = Append(frs, f) /\ f \in Placed(p) /\ n = Len(frs)
    BY <1>0, <1>4 DEF n
  <2>2. /\ frs2 \in Seq(Placed(p)) /\ Len(frs2) = n + 1
        /\ \A j \in 1..n : frs2[j] = frs[j]
        /\ frs2[n + 1] = f
    BY <1>1, <2>1, Appended
  <2> QED
    BY <1>1, <2>2
<1>6. Last(frs2) = f
  BY <1>5 DEF Last
<1>7. top.base < b
  <2>1. Extra(cls, b) \in Nat
    BY Zenon DEF Extra
  <2> QED
    BY <1>3, <2>1, SMTT(30)
<1>8. Framed(p, frs2)
  <2>1. /\ frs[1].base = 0 /\ frs[1].fn = Programs[p].main
        /\ \A i, j \in 1..n : i < j => frs[i].base < frs[j].base
    BY <1>1 DEF Framed
  <2>2. ASSUME NEW i \in 1..(n + 1), NEW j \in 1..(n + 1), i < j
        PROVE  frs2[i].base < frs2[j].base
    <3>1. i \in 1..n
      BY <1>1, <2>2
    <3>2. CASE j = n + 1
      <4>1. frs[i].base <= top.base
        BY <1>1, <1>2, <2>1, <3>1
      <4> QED
        BY <1>2, <1>3, <1>4, <1>5, <1>7, <3>1, <3>2, <4>1
    <3>3. CASE j # n + 1
      <4>1. j \in 1..n
        BY <1>1, <3>3
      <4> QED
        BY <1>5, <2>1, <2>2, <3>1, <4>1
    <3> QED
      BY <3>2, <3>3
  <2>3. Len(frs2) \in 1..FramesMax
    BY <1>1, <1>5, FramesMaxAssumption DEF n
  <2>4. frs2[1].base = 0 /\ frs2[1].fn = Programs[p].main
    BY <1>1, <1>5, <2>1
  <2> QED
    BY <1>5, <2>2, <2>3, <2>4 DEF Framed
<1>9. Linked(p, stk, frs2, cls)
  <2>1. ASSUME NEW j \in 2..(n + 1)
        PROVE  /\ frs2[j].base = frs2[j - 1].base + Height(p, frs2[j - 1]) + Extra(cls, frs2[j].base)
               /\ ArityIn(p, frs2[j - 1]) < Height(p, frs2[j - 1])
               /\ Len(stk[frs2[j].base]) = 1 /\ "fn" \in DOMAIN stk[frs2[j].base][1]
               /\ stk[frs2[j].base][1].fn = frs2[j].fn
    <3>1. CASE j = n + 1
      <4>1. frs2[j] = f /\ frs2[j - 1] = top
        BY <1>1, <1>5, <3>1
      <4> QED
        BY <1>0, <1>4, <4>1
    <3>2. CASE j # n + 1
      <4>1. j \in 2..n /\ j \in 1..n /\ j - 1 \in 1..n
        BY <1>1, <3>2
      <4>2. frs2[j] = frs[j] /\ frs2[j - 1] = frs[j - 1]
        BY <1>5, <4>1
      <4> QED
        BY <4>1, <4>2 DEF Linked, n
    <3> QED
      BY <3>1, <3>2
  <2> QED
    BY <1>5, <2>1 DEF Linked
<1>10. Building(p, bld, frs2)
  <2>1. PICK o \in [1..n -> Nat] :
        /\ o[1] = 0
        /\ \A j \in 2..n : o[j] = o[j - 1] + Opened(p, frs[j - 1])
        /\ Len(bld) = o[n] + Opened(p, top)
    BY <1>1 DEF Building, n
  <2> DEFINE o2 == [j \in 1..(n + 1) |-> IF j = n + 1 THEN o[n] + Opened(p, top) ELSE o[j]]
  <2>2. o[n] \in Nat /\ o[n] + Opened(p, top) \in Nat
    BY <1>1, <1>3, <2>1
  <2>3. o2 \in [1..(n + 1) -> Nat]
    <3>1. \A j \in 1..(n + 1) : j = n + 1 \/ j \in 1..n
      BY <1>1
    <3> QED
      BY <2>1, <2>2, <3>1
  <2>4. o2[1] = 0 /\ o2[n + 1] = Len(bld)
    BY <1>1, <2>1
  <2>5. ASSUME NEW j \in 2..(n + 1) PROVE o2[j] = o2[j - 1] + Opened(p, frs2[j - 1])
    <3>1. j - 1 \in 1..n /\ j - 1 \in 1..(n + 1) /\ j - 1 # n + 1 /\ j \in 1..(n + 1)
      BY <1>1
    <3>2. o2[j - 1] = o[j - 1] /\ frs2[j - 1] = frs[j - 1]
      BY <1>5, <3>1
    <3>3. CASE j = n + 1
      BY <1>1, <3>1, <3>2, <3>3
    <3>4. CASE j # n + 1
      <4>1. j \in 2..n
        BY <1>1, <3>4
      <4> QED
        BY <2>1, <3>1, <3>2, <3>4, <4>1
    <3> QED
      BY <3>3, <3>4
  <2> HIDE DEF o2
  <2>6. Len(bld) = o2[n + 1] + Opened(p, f)
    BY <1>4, <2>1, <2>2, <2>4
  <2> QED
    BY <1>5, <1>6, <2>3, <2>4, <2>5, <2>6 DEF Building
<1> QED
  BY <1>4, <1>5, <1>6, <1>8, <1>9, <1>10 DEF n

\* The frames below the innermost one.
LEMMA FramesBelow ==
    ASSUME NEW p, NEW frs, Framed(p, frs), Len(frs) # 1, NEW frs2, frs2 = Front(frs)
    PROVE  /\ Last(frs2) = frs[Len(frs) - 1] /\ Len(frs2) = Len(frs) - 1
           /\ Len(frs) - 1 \in Nat \ {0}
           /\ \A j \in 1..(Len(frs) - 1) : frs2[j] = frs[j]
<1>1. frs \in Seq(Placed(p)) /\ Len(frs) \in Nat /\ Len(frs) > 0 /\ Len(frs) - 1 \in Nat \ {0}
  BY FramesMaxAssumption DEF Framed
<1>2. /\ Front(frs) \in Seq(Placed(p)) /\ Len(Front(frs)) = Len(frs) - 1
      /\ \A k \in 1..(Len(frs) - 1) : Front(frs)[k] = frs[k]
  BY <1>1, Fronted
<1>3. Len(frs) - 1 \in 1..(Len(frs) - 1)
  <2>1. \A k \in Nat \ {0} : k \in 1..k
    OBVIOUS
  <2> QED
    BY <1>1, <2>1
<1>4. Last(frs2) = frs[Len(frs) - 1]
  BY <1>2, <1>3 DEF Last
<1> QED
  BY <1>1, <1>2, <1>4

\* A function is left that has nothing under construction.
LEMMA FrameLeaves ==
    ASSUME NEW p, Verified(Programs[p]), NEW stk, NEW bld, NEW frs, NEW cls,
           Framed(p, frs), Linked(p, stk, frs, cls), Building(p, bld, frs),
           Len(frs) # 1, Opened(p, Last(frs)) = 0, NEW frs2, frs2 = Front(frs)
    PROVE  Framed(p, frs2) /\ Linked(p, stk, frs2, cls) /\ Building(p, bld, frs2)
<1> DEFINE n == Len(frs)
<1>0. n = Len(frs) /\ n # 1
  OBVIOUS
<1>1. /\ frs \in Seq(Placed(p)) /\ n \in Nat \ {0} /\ DOMAIN frs = 1..n /\ n - 1 \in Nat \ {0}
      /\ n <= FramesMax
      /\ \A j \in 1..n : frs[j] \in Placed(p)
  BY <1>0, FramesMaxAssumption DEF Framed
<1> HIDE DEF n
<1>2. /\ frs2 \in Seq(Placed(p)) /\ Len(frs2) = n - 1 /\ DOMAIN frs2 = 1..(n - 1)
      /\ \A j \in 1..(n - 1) : frs2[j] = frs[j]
  <2>1. Len(frs) > 0
    BY <1>0, <1>1
  <2>2. /\ Front(frs) \in Seq(Placed(p)) /\ Len(Front(frs)) = Len(frs) - 1
        /\ \A k \in 1..(Len(frs) - 1) : Front(frs)[k] = frs[k]
    BY <1>1, <2>1, Fronted
  <2> QED
    BY <1>0, <1>1, <2>2
<1>3. Last(frs2) = frs[n - 1]
  BY <1>1, <1>2 DEF Last
<1>4. \A j \in 1..(n - 1) : j \in 1..n
  BY <1>1
<1>5. Framed(p, frs2)
  <2>1. /\ frs[1].base = 0 /\ frs[1].fn = Programs[p].main
        /\ \A i, j \in 1..n : i < j => frs[i].base < frs[j].base
    BY <1>1 DEF Framed
  <2>2. Len(frs2) \in 1..FramesMax /\ 1 \in 1..(n - 1)
    BY <1>1, <1>2, FramesMaxAssumption
  <2>3. frs2[1].base = 0 /\ frs2[1].fn = Programs[p].main
    BY <1>2, <2>1, <2>2
  <2>4. ASSUME NEW i \in 1..(n - 1), NEW j \in 1..(n - 1), i < j
        PROVE  frs2[i].base < frs2[j].base
    BY <1>2, <1>4, <2>1, <2>4
  <2> QED
    BY <1>2, <2>2, <2>3, <2>4 DEF Framed
<1>6. Linked(p, stk, frs2, cls)
  <2>1. \A j \in 2..(n - 1) : j \in 2..n /\ j \in 1..(n - 1) /\ j - 1 \in 1..(n - 1)
    BY <1>1
  <2>2. \A j \in 2..(n - 1) : frs2[j] = frs[j] /\ frs2[j - 1] = frs[j - 1]
    BY <1>2, <2>1
  <2>3. \A j \in 2..n :
        /\ frs[j].base = frs[j - 1].base + Height(p, frs[j - 1]) + Extra(cls, frs[j].base)
        /\ ArityIn(p, frs[j - 1]) < Height(p, frs[j - 1])
        /\ Len(stk[frs[j].base]) = 1 /\ "fn" \in DOMAIN stk[frs[j].base][1]
        /\ stk[frs[j].base][1].fn = frs[j].fn
    BY DEF Linked, n
  <2>4. ASSUME NEW j \in 2..(n - 1)
        PROVE  /\ frs2[j].base = frs2[j - 1].base + Height(p, frs2[j - 1]) + Extra(cls, frs2[j].base)
               /\ ArityIn(p, frs2[j - 1]) < Height(p, frs2[j - 1])
               /\ Len(stk[frs2[j].base]) = 1 /\ "fn" \in DOMAIN stk[frs2[j].base][1]
               /\ stk[frs2[j].base][1].fn = frs2[j].fn
    <3>1. frs2[j] = frs[j] /\ frs2[j - 1] = frs[j - 1] /\ j \in 2..n
      BY <2>1, <2>2
    <3>2. /\ frs[j].base = frs[j - 1].base + Height(p, frs[j - 1]) + Extra(cls, frs[j].base)
          /\ ArityIn(p, frs[j - 1]) < Height(p, frs[j - 1])
          /\ Len(stk[frs[j].base]) = 1 /\ "fn" \in DOMAIN stk[frs[j].base][1]
          /\ stk[frs[j].base][1].fn = frs[j].fn
      BY <2>3, <3>1
    <3> QED
      BY <3>1, <3>2
  <2> QED
    BY <1>2, <2>4 DEF Linked
<1>7. Building(p, bld, frs2)
  <2>1. PICK o \in [1..n -> Nat] :
        /\ o[1] = 0
        /\ \A j \in 2..n : o[j] = o[j - 1] + Opened(p, frs[j - 1])
        /\ Len(bld) = o[n] + Opened(p, Last(frs))
    BY <1>0, <1>1 DEF Building
  <2> DEFINE o2 == [j \in 1..(n - 1) |-> o[j]]
  <2>2. o2 \in [1..(n - 1) -> Nat] /\ \A j \in 1..(n - 1) : o2[j] = o[j]
    BY <1>4, <2>1
  <2> HIDE DEF o2
  <2>3. o2[1] = 0 /\ n - 1 \in 1..(n - 1)
    BY <1>1, <2>1, <2>2
  <2>4. ASSUME NEW j \in 2..(n - 1) PROVE o2[j] = o2[j - 1] + Opened(p, frs2[j - 1])
    <3>1. j - 1 \in 1..(n - 1) /\ j \in 1..(n - 1) /\ j \in 2..n
      BY <1>1
    <3> QED
      BY <1>2, <2>1, <2>2, <3>1
  <2>5. Len(bld) = o2[n - 1] + Opened(p, frs[n - 1])
    <3>1. n \in 2..n /\ o[n] \in Nat
      BY <1>1, <2>1
    <3>2. Len(bld) = o[n]
      BY <2>1, <3>1
    <3> QED
      BY <1>1, <2>1, <2>2, <2>3, <3>1, <3>2
  <2> QED
    BY <1>2, <1>3, <2>2, <2>3, <2>4, <2>5 DEF Building
<1> QED
  BY <1>5, <1>6, <1>7

LEMMA WaitFacts ==
    ASSUME NEW p, Verified(Programs[p]), NEW V, NEW stk, NEW bld, NEW frs, NEW cls,
           Machine(p, V, stk, bld, frs, cls)
    PROVE  /\ Len(cls) \in Nat /\ DOMAIN cls = 1..Len(cls) /\ \E A : cls \in Seq(A)
           /\ \A c \in 1..Len(cls) :
                 /\ ActivationOf(p, V, cls[c])
                 /\ c < Len(cls) => cls[c].waiting # "nothing"
                 /\ cls[c].waiting # "nothing" =>
                       /\ \E j \in 2..Len(frs) : frs[j].base = cls[c].base
                       /\ cls[c].base \in Nat \ {0} /\ cls[c].base <= Last(frs).base
           /\ \A c \in 1..Len(cls) : \A d \in 1..Len(cls) :
                 c < d /\ cls[d].waiting # "nothing" => cls[c].base < cls[d].base
<1>1. PICK A : cls \in Seq(A)
  BY DEF Machine, Waiting
<1>2. Len(cls) \in Nat /\ DOMAIN cls = 1..Len(cls)
  BY <1>1
<1>3. Waiting(p, V, frs, cls)
  BY DEF Machine
<1>4. \A c \in 1..Len(cls) : cls[c].waiting # "nothing" =>
                       /\ cls[c].base \in Nat \ {0} /\ cls[c].base <= Last(frs).base
  BY <1>2, ActivationsOnStack
<1> QED
  BY <1>1, <1>2, <1>3, <1>4 DEF Waiting

\* The innermost activation is new or another one.
LEMMA WaitsIfLast ==
    ASSUME NEW p, NEW V, NEW frs, NEW A, NEW cls \in Seq(A), NEW m, m = Len(cls), m > 0,
           \A c \in 1..(m - 1) :
               /\ ActivationOf(p, V, cls[c]) /\ cls[c].waiting # "nothing"
               /\ \E j \in 2..Len(frs) : frs[j].base = cls[c].base,
           \A c \in 1..(m - 1) : \A d \in 1..(m - 1) : c < d => cls[c].base < cls[d].base,
           ActivationOf(p, V, cls[m]),
           cls[m].waiting # "nothing" =>
               /\ \E j \in 2..Len(frs) : frs[j].base = cls[m].base
               /\ \A c \in 1..(m - 1) : cls[c].base < cls[m].base
    PROVE  Waiting(p, V, frs, cls)
<1>1. m \in Nat /\ DOMAIN cls = 1..m /\ \A c \in 1..m : c = m \/ c \in 1..(m - 1)
  OBVIOUS
<1>2. ASSUME NEW c \in DOMAIN cls
      PROVE  /\ ActivationOf(p, V, cls[c])
             /\ c < Len(cls) => cls[c].waiting # "nothing"
             /\ cls[c].waiting # "nothing" => \E j \in 2..Len(frs) : frs[j].base = cls[c].base
  <2>1. CASE c = m
    BY <2>1
  <2>2. CASE c # m
    BY <1>1, <2>2
  <2> QED
    BY <2>1, <2>2
<1>3. ASSUME NEW c \in DOMAIN cls, NEW d \in DOMAIN cls, c < d, cls[d].waiting # "nothing"
      PROVE  cls[c].base < cls[d].base
  <2>1. c \in 1..(m - 1)
    BY <1>1, <1>3
  <2>2. CASE d = m
    BY <1>3, <2>1, <2>2
  <2>3. CASE d # m
    <3>1. d \in 1..(m - 1)
      BY <1>1, <2>3
    <3> QED
      BY <1>3, <2>1, <3>1
  <2> QED
    BY <2>2, <2>3
<1> QED
  BY <1>2, <1>3 DEF Waiting

\* An instruction that starts native code.
LEMMA NativeStarts ==
    ASSUME NEW V, Running(V), Plain, Produces(Instruction) = 1,
           Advance, NEW k \in {1, 2}, stack' = Popped(k),
           NEW a, calls' = Append(calls, a), ActivationOf(program, V, a), a.waiting = "nothing",
           k = Used - (IF a.kind = "apply" THEN 0 ELSE 1),
           program' = program, build' = build, status' = status
    PROVE  Sound
<1>1. /\ Machine(program, V, stack, build, frames, calls) /\ Verified(Programs[program])
      /\ program \in DOMAIN Programs /\ status = "running"
  BY DEF Running
<1>2. /\ Frame \in Placed(program) /\ Frame.base \in Nat /\ Len(stack) \in Nat
      /\ Instruction = CodeOf(program, Frame)[Frame.ip]
      /\ ArityIn(program, Frame) \in Nat /\ Used \in Nat /\ Height(program, Frame) \in Nat
      /\ Len(stack) = Frame.base + Height(program, Frame)
      /\ Frame.base + ArityIn(program, Frame) + Used <= Len(stack)
      /\ Frame.ip + 1 \in Successors(CodeOf(program, Frame), Frame.ip)
      /\ Instruction.op \notin {"BuildNew", "BuildComplete"}
  BY DepthFacts DEF Plain
<1> DEFINE moved == Moved(Frame, Frame.ip + 1)
<1>3. /\ moved \in Placed(program) /\ moved.fn = Frame.fn /\ moved.base = Frame.base
      /\ Height(program, moved) = Height(program, Frame) - Used + Produces(Instruction)
      /\ Opened(program, moved) = Opened(program, Frame)
  BY <1>1, <1>2, NextPlaced DEF Used
<1>4. frames' = WithTop(frames, moved)
  BY DEF Advance, Goto, WithTop, Moved, Frame, Last
<1> HIDE DEF moved
<1>5. ArityIn(program, moved) = ArityIn(program, Frame) /\ Opened(program, Frame) \in Nat
  BY <1>1, <1>2, <1>3, PlacedFacts DEF ArityIn
<1>6. /\ Popped(k) \in Seq(Seq(V)) /\ Len(Popped(k)) = Len(stack) - k
      /\ \A j \in 1..Frame.base : Popped(k)[j] = stack[j]
  <2>1. k \in Nat /\ Frame.base + k <= Len(stack)
    BY <1>2
  <2> QED
    BY <2>1, PoppedFacts
<1> DEFINE n == Len(frames)
<1>7. n = Len(frames) /\ Frame = Last(frames)
  BY DEF Frame
<1> HIDE DEF n
<1>8. /\ Framed(program, frames') /\ Len(frames') = n /\ Last(frames') = moved
      /\ Linked(program, stack', frames', calls)
      /\ Waiting(program, V, frames', calls)
      /\ Building(program, build', frames')
  <2>1. /\ Framed(program, frames') /\ Len(frames') = n /\ Last(frames') = moved
        /\ \A s : (\A j \in 1..Frame.base : s[j] = stack[j]) => Linked(program, s, frames', calls)
        /\ Waiting(program, V, frames', calls)
        /\ \A b : Len(b) = Len(build) + Opened(program, moved) - Opened(program, Frame) =>
                      Building(program, b, frames')
    BY <1>1, <1>3, <1>4, <1>7, FrameMoves
  <2>2. Len(build') = Len(build) + Opened(program, moved) - Opened(program, Frame)
    <3>1. Len(build) \in Nat
      BY <1>1 DEF Machine
    <3> QED
      BY <1>3, <1>5, <3>1
  <2> QED
    BY <1>6, <2>1, <2>2
<1> DEFINE m == Len(calls)
<1>9. /\ m \in Nat /\ DOMAIN calls = 1..m
      /\ \A c \in 1..m : ActivationOf(program, V, calls[c])
  BY <1>1, WaitFacts
<1>10. PICK A : calls \in Seq(A)
  BY <1>1, WaitFacts
<1> HIDE DEF m
<1>11. /\ calls' \in Seq(A \cup {a}) /\ Len(calls') = m + 1 /\ DOMAIN calls' = 1..(m + 1)
       /\ \A c \in 1..m : calls'[c] = calls[c]
       /\ calls'[m + 1] = a
  <2>1. calls \in Seq(A \cup {a}) /\ a \in A \cup {a} /\ m = Len(calls)
    BY <1>10 DEF m
  <2> QED
    BY <1>9, <2>1, Appended
<1>12. \A c \in 1..m : calls[c].waiting # "nothing"
  <2>1. \A c \in 1..m : c < m => calls[c].waiting # "nothing"
    BY <1>1, WaitFacts DEF m
  <2>2. m > 0 => calls[m].waiting # "nothing"
    BY <1>9, <1>10 DEF Plain, Native, Last, m
  <2> QED
    BY <1>9, <2>1, <2>2
<1>13. Waiting(program, V, frames', calls')
  <2>1. \A c \in 1..m : /\ ActivationOf(program, V, calls[c])
                        /\ \E j \in 2..Len(frames') : frames'[j].base = calls[c].base
    BY <1>8, <1>9, <1>12 DEF Waiting
  <2>2. \A c \in 1..m : \A d \in 1..m : c < d => calls[c].base < calls[d].base
    BY <1>8, <1>9, <1>12 DEF Waiting
  <2>3. (m + 1) - 1 = m /\ m + 1 > 0
    BY <1>9
  <2>4. \A c \in 1..((m + 1) - 1) :
               /\ ActivationOf(program, V, calls'[c]) /\ calls'[c].waiting # "nothing"
               /\ \E j \in 2..Len(frames') : frames'[j].base = calls'[c].base
    BY <1>11, <1>12, <2>1, <2>3
  <2>5. \A c \in 1..((m + 1) - 1) : \A d \in 1..((m + 1) - 1) :
            c < d => calls'[c].base < calls'[d].base
    BY <1>11, <2>2, <2>3
  <2> QED
    BY <1>11, <2>3, <2>4, <2>5, WaitsIfLast
<1>14. Linked(program, stack', frames', calls')
  <2>1. \A b : Extra(calls', b) = Extra(calls, b)
    <3>1. \A c \in 1..(m + 1) : c = m + 1 \/ c \in 1..m
      BY <1>9
    <3>2. \A c \in 1..m : c \in 1..(m + 1)
      BY <1>9
    <3> QED
      BY <1>9, <1>11, <3>1, <3>2 DEF Extra
  <2> QED
    BY <1>8, <2>1, LinkedKept
<1>15. Topped(program, stack', frames', calls')
  <2>1. IsNative(calls') /\ Last(calls') = a
    <3>1. Last(calls') = a
      BY <1>11 DEF Last
    <3>2. calls' # <<>>
      BY <1>9, <1>11
    <3> QED
      BY <3>1, <3>2 DEF IsNative
  <2>2. Len(stack') = Len(stack) - k
    BY <1>6
  <2>3. Height(program, moved) = Height(program, Frame) - Used + 1
    BY <1>3
  <2>4. Len(stack') = Frame.base + Height(program, moved) - (IF a.kind = "apply" THEN 1 ELSE 0)
    <3> DEFINE h == Height(program, Frame)
               h2 == Height(program, moved)
               b == Frame.base
               l == Len(stack)
               l2 == Len(stack')
               u == Used
    <3>1. h \in Nat /\ b \in Nat /\ l \in Nat /\ u \in Nat /\ l = b + h /\ h2 = h - u + 1 /\ l2 = l - k
      BY <1>2, <2>2, <2>3
    <3>2. k = u - (IF a.kind = "apply" THEN 0 ELSE 1)
      OBVIOUS
    <3> HIDE DEF h, h2, b, l, l2, u
    <3>3. CASE a.kind = "apply"
      <4>1. k = u /\ l2 = b + h2 - 1
        <5>1. k = u
          BY <3>1, <3>2, <3>3
        <5> QED
          BY <3>1, <5>1
      <4> QED
        BY <3>3, <4>1 DEF h2, b, l2
    <3>4. CASE a.kind # "apply"
      <4>1. k = u - 1 /\ l2 = b + h2
        <5>1. k = u - 1
          BY <3>1, <3>2, <3>4
        <5> QED
          BY <3>1, <5>1
      <4>2. b + h2 - 0 = b + h2
        BY <3>1
      <4> QED
        BY <3>4, <4>1, <4>2 DEF h2, b, l2
    <3> QED
      BY <3>3, <3>4
  <2>5. ArityIn(program, Frame) < Height(program, moved)
    BY <1>2, <2>3
  <2> QED
    BY <1>3, <1>5, <1>8, <2>1, <2>4, <2>5 DEF Topped
<1>16. Machine(program, V, stack', build', frames', calls')
  BY <1>1, <1>6, <1>8, <1>13, <1>14, <1>15 DEF Machine
<1>17. IInv'
  BY <1>1, <1>16 DEF IInv
<1>18. Untouched
  <2>1. Frame.base <= Len(stack') /\ DOMAIN stack' = 1..Len(stack') /\ Len(stack') \in Nat
    <3>1. k \in Nat /\ k <= Used
      BY <1>2
    <3> QED
      BY <1>2, <1>6, <3>1
  <2>2. \A j \in 1..(Frame.base - 1) : j \in 1..Frame.base /\ j \in DOMAIN stack'
    BY <1>2, <2>1
  <2> QED
    BY <1>6, <2>2 DEF Untouched
<1> QED
  BY <1>17, <1>18 DEF Sound

-----------------------------------------------------------------------------
(* Calls. *)

LEMMA CallFacts ==
    ASSUME NEW V, Running(V), Executes("Call")
    PROVE  /\ Plain /\ Instruction.arg \in Nat
           /\ Used = Instruction.arg + 1 /\ Produces(Instruction) = 1
           /\ \A k \in 1..Used : Operand(k) \in Seq(V)
           /\ stack \in Seq(Seq(V)) /\ Items(program, V)
<1>1. Plain /\ Used = Instruction.arg + 1 /\ Produces(Instruction) = 1
  BY Fetched, UsedValues DEF Plain
<1>2. Instruction.arg \in Nat
  BY Fetched DEF ValidOperand
<1>3. \A k \in 1..Used : Operand(k) \in Seq(V)
  BY <1>1, OperandsAreValues DEF Plain
<1> QED
  BY <1>1, <1>2, <1>3 DEF Running, Machine

LEMMA CallFails ==
    ASSUME NEW V, Running(V), PredicatesReturn, Executes("Call"), Advance, Raise(stack)
    PROVE  Sound
<1>1. ~ Native /\ Frame.ip + 1 \in Successors(CodeOf(program, Frame), Frame.ip)
  BY CallFacts DEF Plain
<1>2. stack \in Seq(Seq(V)) /\ Frame.base + ArityIn(program, Frame) <= Len(stack)
  BY CallFacts, DepthFacts
<1>3. \A k \in 1..Frame.base : stack[k] = stack[k]
  OBVIOUS
<1> QED
  BY <1>1, <1>2, <1>3, FailsAfter

\* What is called is a function of the program or of the library.
LEMMA CalleeFacts ==
    ASSUME NEW V, Running(V), NEW kind, CallsFunction(kind)
    PROVE  /\ Executes("Call") /\ Callee \in V /\ Instruction.arg + 1 \in 1..Used
           /\ Len(Operand(Instruction.arg + 1)) = 1
           /\ ArityOf(Callee) = Instruction.arg
           /\ kind = "fn" => Callee \in InlineItems(program, V) /\ "fn" \in DOMAIN Callee
           /\ kind = "static" => Callee \in StaticItems(V) /\ "static" \in DOMAIN Callee
<1>1. /\ Executes("Call") /\ OneFunction(Operand(Instruction.arg + 1))
      /\ kind \in DOMAIN Callee /\ ArityOf(Callee) = Instruction.arg
  BY DEF CallsFunction, Callee
<1>2. Instruction.arg + 1 \in 1..Used
  BY <1>1, CallFacts
<1>3. Operand(Instruction.arg + 1) \in Seq(V) /\ Len(Operand(Instruction.arg + 1)) = 1
  BY <1>1, <1>2, CallFacts DEF OneFunction
<1>4. Callee \in V
  BY <1>3 DEF Callee
<1> QED
  BY <1>1, <1>2, <1>3, <1>4, CallFacts, ItemKinds

LEMMA RefuseCallIsSound ==
    ASSUME NEW V, Running(V), PredicatesReturn, RefuseCall PROVE Sound
BY CallFails DEF RefuseCall

LEMMA CallErrorIsSound ==
    ASSUME NEW V, Running(V), PredicatesReturn, CallError PROVE Sound
BY CallFails, CalleeFacts DEF CallError

LEMMA CallPositionIsSound ==
    ASSUME NEW V, Running(V), PredicatesReturn, CallPosition PROVE Sound
<1>1. CallsFunction("static") /\ Callee.static = "position" /\ Gives(1, Callee.vars[1])
  BY DEF CallPosition
<1>2. Executes("Call") /\ Callee \in StaticItems(V) /\ "static" \in DOMAIN Callee
      /\ ArityOf(Callee) = Instruction.arg
  BY <1>1, CalleeFacts
<1>3. Plain /\ Used = 1 /\ Produces(Instruction) = 1
  <2>1. ArityOf(Callee) = 0
    BY <1>1, <1>2 DEF ArityOf, StaticArity
  <2> QED
    BY <1>2, <2>1, CallFacts
<1>4. Callee.vars[1] \in Seq(V)
  BY <1>1, <1>2 DEF StaticItems
<1> QED
  BY <1>1, <1>3, <1>4, ComputesIsSound

LEMMA CallRootIsSound ==
    ASSUME NEW V, Running(V), PredicatesReturn, CallRoot PROVE Sound
<1>1. CallsFunction("static") /\ Callee.static = "root"
  BY DEF CallRoot
<1>2. Executes("Call") /\ "static" \in DOMAIN Callee /\ ArityOf(Callee) = Instruction.arg
  BY <1>1, CalleeFacts
<1>3. Plain /\ Used = 2 /\ Produces(Instruction) = 1
  <2>1. ArityOf(Callee) = 1
    BY <1>1, <1>2 DEF ArityOf, StaticArity
  <2> QED
    BY <1>2, <2>1, CallFacts
<1>4. Operand(1) \in Seq(V) /\ Items(program, V)
  BY <1>2, <1>3, CallFacts
<1>5. CASE RootOf(Operand(1)) = Failed
  BY <1>2, <1>5, CallFails DEF CallRoot
<1>6. CASE RootOf(Operand(1)) # Failed
  <2>1. RootOf(Operand(1)) \in Seq(V)
    BY <1>4, <1>6, RootGivesValue
  <2>2. Gives(2, RootOf(Operand(1)))
    BY <1>6 DEF CallRoot
  <2> QED
    BY <1>3, <2>1, <2>2, ComputesIsSound
<1> QED
  BY <1>5, <1>6

\* An activation that has just begun.
Begun(kind, items, action, mode) ==
    [kind |-> kind, items |-> items, i |-> 1, done |-> <<>>,
     action |-> action, mode |-> mode, rule |-> 1, known |-> << >>,
     waiting |-> "nothing", base |-> 0]

LEMMA CallForEachIsSound ==
    ASSUME NEW V, Running(V), PredicatesReturn, CallForEach PROVE Sound
<1>1. CallsFunction("static") /\ Callee.static = "forEach" /\ Advance
  BY DEF CallForEach
<1>2. Executes("Call") /\ "static" \in DOMAIN Callee /\ ArityOf(Callee) = Instruction.arg
  BY <1>1, CalleeFacts
<1>3. Plain /\ Used = 3 /\ Produces(Instruction) = 1
  <2>1. ArityOf(Callee) = 2
    BY <1>1, <1>2 DEF ArityOf, StaticArity
  <2> QED
    BY <1>2, <2>1, CallFacts
<1>4. Operand(1) \in Seq(V) /\ Operand(2) \in Seq(V)
  BY <1>2, <1>3, CallFacts
<1> DEFINE one == OneFunction(Operand(1)) /\ ArityOf(Operand(1)[1]) = 1
           a == Begun("forEach", Operand(2), Operand(1), "")
<1>5. CASE ~ one
  <2>1. Raise(stack)
    BY <1>5 DEF CallForEach
  <2> QED
    BY <1>1, <1>2, <2>1, CallFails
<1>6. CASE one
  <2>1. /\ stack' = Popped(2) /\ calls' = Append(calls, a)
        /\ program' = program /\ build' = build /\ status' = status
    BY <1>6 DEF CallForEach, Begun
  <2>2. ArityOfItem(program, Operand(1)[1]) = 1
    BY <1>6 DEF ArityOf, ArityOfItem, Function, Functions
  <2>3. ActivationOf(program, V, a) /\ a.waiting = "nothing" /\ a.kind = "forEach"
    BY <1>4, <1>6, <2>2 DEF ActivationOf, Begun
  <2> HIDE DEF a
  <2>4. 2 \in {1, 2} /\ 2 = Used - (IF a.kind = "apply" THEN 0 ELSE 1)
    BY <1>3, <2>3
  <2> QED
    BY <1>1, <1>3, <2>1, <2>3, <2>4, NativeStarts
<1> QED
  BY <1>5, <1>6

LEMMA ApplyTemplatesIsSound ==
    ASSUME NEW V, Running(V), ApplyTemplates PROVE Sound
<1> DEFINE a == Begun("apply", Operand(1), <<>>, Instruction.arg)
<1>1. Executes("ApplyTemplates") /\ Advance
  BY DEF ApplyTemplates
<1>2. Plain /\ Used = 1 /\ Produces(Instruction) = 1
  BY <1>1, Fetched, UsedValues DEF Plain
<1>3. Instruction.arg \in DOMAIN Programs[program].rules
  BY <1>1, Fetched DEF ValidOperand
<1>4. Operand(1) \in Seq(V)
  BY <1>2, OperandsAreValues DEF Plain
<1>5. /\ stack' = Popped(1) /\ calls' = Append(calls, a)
      /\ program' = program /\ build' = build /\ status' = status
  BY DEF ApplyTemplates, Begun
<1>6. ActivationOf(program, V, a) /\ a.waiting = "nothing" /\ a.kind = "apply"
  BY <1>3, <1>4 DEF ActivationOf, Begun
<1> HIDE DEF a
<1>7. 1 \in {1, 2} /\ 1 = Used - (IF a.kind = "apply" THEN 0 ELSE 1)
  BY <1>2, <1>6
<1> QED
  BY <1>1, <1>2, <1>5, <1>6, <1>7, NativeStarts

\* Activations still wait when a frame is added.
LEMMA WaitingKept ==
    ASSUME NEW p, NEW V, NEW frs, NEW cls, Waiting(p, V, frs, cls),
           NEW frs2, Len(frs) \in Nat, Len(frs2) = Len(frs) + 1,
           \A j \in 1..Len(frs) : frs2[j] = frs[j]
    PROVE  Waiting(p, V, frs2, cls)
<1>1. \A j \in 2..Len(frs) : j \in 2..Len(frs2) /\ frs2[j].base = frs[j].base
  OBVIOUS
<1>2. \A b : (\E j \in 2..Len(frs) : frs[j].base = b) => \E j \in 2..Len(frs2) : frs2[j].base = b
  BY <1>1
<1> QED
  BY <1>2 DEF Waiting

\* No activation waits for a frame above the innermost one.
LEMMA NothingExtra ==
    ASSUME NEW p, Verified(Programs[p]), NEW V, NEW stk, NEW bld, NEW frs, NEW cls,
           Machine(p, V, stk, bld, frs, cls), NEW b \in Nat, Last(frs).base < b
    PROVE  Extra(cls, b) = 0
<1>1. Last(frs).base \in Nat
  BY TopFacts
<1>2. \A c \in DOMAIN cls : cls[c].waiting # "nothing" => cls[c].base # b
  BY <1>1, ActivationsOnStack
<1> QED
  BY <1>2 DEF Extra

LEMMA CallInlineIsSound ==
    ASSUME NEW V, Running(V), PredicatesReturn, CallInline PROVE Sound
<1>1. CallsFunction("fn")
  BY DEF CallInline
<1> DEFINE n == Instruction.arg
           moved == Moved(Frame, Frame.ip + 1)
           frs == WithTop(frames, moved)
           b == Len(stack) - n
           f == Entry(Callee.fn, b)
<1>2. /\ Executes("Call") /\ Callee \in InlineItems(program, V)
      /\ n + 1 \in 1..Used /\ Len(Operand(n + 1)) = 1
  BY <1>1, CalleeFacts
<1>3. /\ ~ Native /\ n \in Nat /\ Used = n + 1 /\ Produces(Instruction) = 1
      /\ Frame.ip + 1 \in Successors(CodeOf(program, Frame), Frame.ip)
      /\ Instruction.op \notin {"BuildNew", "BuildComplete"}
  BY <1>2, CallFacts DEF Plain
<1>4. /\ Callee.fn \in DOMAIN Functions(program)
      /\ Function(Callee.fn).arity = n
  <2>1. DOMAIN Callee = {"fn", "vars"} /\ Callee.fn \in DOMAIN Functions(program)
    BY <1>2 DEF InlineItems
  <2>2. "static" \notin DOMAIN Callee
    BY <2>1
  <2> QED
    BY <1>1, <2>1, <2>2, CalleeFacts DEF ArityOf
<1>5. CASE ~ (Len(frames) < FramesMax)
  BY <1>2, <1>5, CallFails DEF CallInline
<1> HIDE DEF n
<1>6. CASE Len(frames) < FramesMax
  <2>1. /\ frames' = Entered(frs, f) /\ stack' = stack /\ build' = build
        /\ calls' = calls /\ status' = status /\ program' = program
    <3>1. NewFrame(Callee.fn, stack) = f
      BY <1>4 DEF NewFrame, Entry
    <3>2. [frames EXCEPT ![Len(frames)].ip = @ + 1] = frs
      BY DEF WithTop, Moved, Frame, Last
    <3> QED
      BY <1>6, <3>1, <3>2 DEF CallInline, Entered
  <2> HIDE DEF frs
  <2>2. /\ Machine(program, V, stack, build, frames, calls) /\ Verified(Programs[program])
        /\ program \in DOMAIN Programs /\ status = "running"
    BY DEF Running
  <2>3. /\ Frame \in Placed(program) /\ Frame.base \in Nat /\ Len(stack) \in Nat
        /\ Instruction = CodeOf(program, Frame)[Frame.ip]
        /\ ArityIn(program, Frame) \in Nat /\ Height(program, Frame) \in Nat
        /\ Len(stack) = Frame.base + Height(program, Frame)
        /\ Frame.base + ArityIn(program, Frame) + (n + 1) <= Len(stack)
    BY <1>3, DepthFacts
  <2>4. /\ moved \in Placed(program) /\ moved.fn = Frame.fn /\ moved.base = Frame.base
        /\ Height(program, moved) = Height(program, Frame) - Used + Produces(Instruction)
        /\ Opened(program, moved) = Opened(program, Frame)
    BY <1>3, <2>2, <2>3, NextPlaced DEF Used
  <2> HIDE DEF moved
  <2>5. /\ ArityIn(program, moved) = ArityIn(program, Frame) /\ Opened(program, Frame) \in Nat
        /\ Height(program, moved) = Height(program, Frame) - n
    <3>1. Opened(program, Frame) \in Nat
      BY <2>2, <2>3, PlacedFacts
    <3>2. ArityIn(program, moved) = ArityIn(program, Frame)
      BY <2>4 DEF ArityIn
    <3> QED
      BY <1>3, <2>3, <2>4, <3>1, <3>2
  <2>6. /\ Framed(program, frs) /\ Len(frs) = Len(frames) /\ Last(frs) = moved
        /\ Linked(program, stack, frs, calls)
        /\ Waiting(program, V, frs, calls)
        /\ Building(program, build, frs)
    <3> DEFINE m == Len(frames)
    <3>1. m = Len(frames) /\ Frame = Last(frames) /\ frs = WithTop(frames, moved)
      BY DEF Frame, frs
    <3>2. Len(build) \in Nat
      BY <2>2 DEF Machine
    <3>3. Len(build) = Len(build) + Opened(program, moved) - Opened(program, Frame)
      BY <2>4, <2>5, <3>2
    <3> HIDE DEF m
    <3>4. /\ Framed(program, frs) /\ Len(frs) = m /\ Last(frs) = moved
          /\ \A s : (\A j \in 1..Frame.base : s[j] = stack[j]) => Linked(program, s, frs, calls)
          /\ Waiting(program, V, frs, calls)
          /\ \A bld : Len(bld) = Len(build) + Opened(program, moved) - Opened(program, Frame) =>
                      Building(program, bld, frs)
      BY <2>2, <2>4, <3>1, FrameMoves
    <3> QED
      BY <3>1, <3>3, <3>4
  <2>7. /\ b \in Nat /\ Frame.base < b /\ b = Frame.base + Height(program, moved)
        /\ ArityIn(program, moved) < Height(program, moved)
    BY <1>3, <2>3, <2>5
  <2>8. Extra(calls, b) = 0
    BY <2>2, <2>7, NothingExtra DEF Frame
  <2>9. b = moved.base + Height(program, moved) + Extra(calls, b)
    BY <2>3, <2>4, <2>7, <2>8
  <2>10. IsItemOf(stack, b, Callee.fn)
    <3>1. Len(stack) - (n + 1) + 1 = b
      BY <1>3, <2>3, SMTT(30)
    <3>2. stack[b] = Operand(n + 1) /\ stack[b][1] = Callee
      BY <3>1 DEF Operand, Callee, n
    <3> QED
      BY <1>1, <1>2, <3>2, CalleeFacts DEF IsItemOf
  <2>11. Functions(program)[Callee.fn].arity = n
    BY <1>4 DEF Function, Functions
  <2> DEFINE frs2 == Entered(frs, f)
             id == Callee.fn
             m == Len(frs)
  <2>12. frs2 = Entered(frs, f) /\ f = Entry(id, b) /\ id \in DOMAIN Functions(program)
         /\ m = Len(frs)
    BY <1>4
  <2> HIDE DEF b, f, frs2, id, m
  <2>13. /\ Framed(program, frs2) /\ Linked(program, stack, frs2, calls)
         /\ Building(program, build, frs2)
         /\ Last(frs2) = f /\ f.base = b /\ Height(program, f) = n /\ Len(frs2) = Len(frs) + 1
         /\ \A j \in 1..Len(frs) : frs2[j] = frs[j]
    <3>1. IsItemOf(stack, b, id)
      BY <2>10 DEF id
    <3>2. Len(frs) < FramesMax /\ moved = Last(frs)
      BY <1>6, <2>6
    <3>3. Functions(program)[id].arity = n
      BY <2>11 DEF id
    <3>4. b \in Nat /\ ArityIn(program, moved) < Height(program, moved)
      BY <2>7
    <3>5. /\ Framed(program, frs2) /\ Linked(program, stack, frs2, calls)
          /\ Building(program, build, frs2)
          /\ Last(frs2) = f /\ f.base = b /\ Height(program, f) = Functions(program)[id].arity
          /\ Len(frs2) = Len(frs) + 1
          /\ \A j \in 1..Len(frs) : frs2[j] = frs[j]
      BY <2>2, <2>6, <2>9, <2>12, <3>1, <3>2, <3>4, FrameEnters
    <3> QED
      BY <3>3, <3>5
  <2>14. Len(frs) \in Nat
    BY <2>6 DEF Framed
  <2>15. Waiting(program, V, frs2, calls)
    BY <2>6, <2>13, <2>14, WaitingKept
  <2>16. Topped(program, stack, frs2, calls)
    <3>1. ~ IsNative(calls)
      BY <1>3 DEF IsNative, Native
    <3>2. Len(stack) = b + n
      BY <1>3, <2>3 DEF b
    <3>3. b + n - 0 = b + n
      BY <1>3, <2>7
    <3> QED
      BY <2>11, <2>13, <3>1, <3>2, <3>3 DEF Topped
  <2>17. Machine(program, V, stack, build, frs2, calls)
    BY <2>2, <2>13, <2>15, <2>16 DEF Machine
  <2>18. IInv'
    BY <2>1, <2>2, <2>12, <2>17 DEF IInv
  <2>19. Untouched
    <3>1. DOMAIN stack = 1..Len(stack)
      BY <2>2 DEF Machine
    <3>2. \A j \in 1..(Frame.base - 1) : j \in DOMAIN stack
      BY <2>3, <3>1
    <3> QED
      BY <2>1, <3>2 DEF Untouched
  <2> QED
    BY <2>18, <2>19 DEF Sound
<1> QED
  BY <1>5, <1>6

-----------------------------------------------------------------------------
(* Native code. *)

LEMMA NativeFacts ==
    ASSUME NEW V, Running(V), Native
    PROVE  /\ Len(calls) \in Nat \ {0} /\ Activation = calls[Len(calls)]
           /\ ActivationOf(program, V, Activation) /\ Activation.waiting = "nothing"
           /\ Len(stack) = Frame.base + Height(program, Frame)
                               - (IF Activation.kind = "apply" THEN 1 ELSE 0)
           /\ ArityIn(program, Frame) < Height(program, Frame)
           /\ IsNative(calls)
<1>1. Machine(program, V, stack, build, frames, calls) /\ Verified(Programs[program])
  BY DEF Running
<1>2. /\ Len(calls) \in Nat /\ \E A : calls \in Seq(A)
      /\ \A c \in 1..Len(calls) : ActivationOf(program, V, calls[c])
  BY <1>1, WaitFacts
<1>3. calls # <<>> /\ Activation.waiting = "nothing" /\ IsNative(calls)
  BY DEF Native, Activation, IsNative
<1>4. Len(calls) \in Nat \ {0}
  BY <1>2, <1>3
<1>5. Activation = calls[Len(calls)] /\ Len(calls) \in 1..Len(calls)
  BY <1>4 DEF Activation, Last
<1>6. Topped(program, stack, frames, calls)
  BY <1>1 DEF Machine
<1> QED
  BY <1>2, <1>3, <1>4, <1>5, <1>6 DEF Topped, Frame, Activation

LEMMA CallsLast ==
    ASSUME NEW V, Running(V), calls # <<>>
    PROVE  Len(calls) \in Nat \ {0} /\ Activation = calls[Len(calls)] /\ DOMAIN calls = 1..Len(calls)
<1>1. Machine(program, V, stack, build, frames, calls) /\ Verified(Programs[program])
  BY DEF Running
<1>2. Len(calls) \in Nat /\ DOMAIN calls = 1..Len(calls) /\ \E A : calls \in Seq(A)
  BY <1>1, WaitFacts
<1>3. Len(calls) # 0
  BY <1>2
<1> QED
  BY <1>2, <1>3 DEF Activation, Last

\* Another activation in place of the innermost one.
LEMMA Replaced ==
    ASSUME NEW V, Running(V), calls # <<>>, NEW a, NEW cs, cs = WithActivation(a)
    PROVE  /\ \E A : cs \in Seq(A)
           /\ Len(cs) = Len(calls) /\ DOMAIN cs = 1..Len(calls) /\ Last(cs) = a /\ cs # <<>>
           /\ \A c \in 1..(Len(calls) - 1) : cs[c] = calls[c]
           /\ cs[Len(calls)] = a
<1> DEFINE m == Len(calls)
<1>0. m = Len(calls)
  OBVIOUS
<1> HIDE DEF m
<1>1. Machine(program, V, stack, build, frames, calls) /\ Verified(Programs[program])
  BY DEF Running
<1>2. m \in Nat \ {0}
  BY <1>0, CallsLast
<1>3. PICK A : calls \in Seq(A)
  BY <1>1, WaitFacts
<1> DEFINE B == A \cup {a}
           front == Front(calls)
<1>4. calls \in Seq(B) /\ a \in B
  BY <1>3
<1> HIDE DEF B
<1>5. front \in Seq(B) /\ Len(front) = m - 1 /\ \A c \in 1..(m - 1) : front[c] = calls[c]
  BY <1>0, <1>2, <1>4, Fronted
<1>6. cs = Append(front, a)
  BY DEF WithActivation
<1> HIDE DEF front
<1>7. /\ cs \in Seq(B) /\ Len(cs) = Len(front) + 1
      /\ \A c \in 1..Len(front) : cs[c] = front[c]
      /\ cs[Len(front) + 1] = a
  BY <1>4, <1>5, <1>6, Appended
<1>8. Len(front) + 1 = m
  BY <1>2, <1>5
<1>9. Len(cs) = m /\ DOMAIN cs = 1..m /\ cs[m] = a
  BY <1>7, <1>8
<1>10. \A c \in 1..(m - 1) : cs[c] = calls[c]
  BY <1>5, <1>7
<1>11. cs # <<>>
  BY <1>2, <1>9
<1> QED
  BY <1>0, <1>2, <1>7, <1>9, <1>10, <1>11 DEF Last

\* The activations below the innermost one wait for frames up to the innermost.
LEMMA OthersWait ==
    ASSUME NEW V, Running(V), calls # <<>>, NEW m, m = Len(calls)
    PROVE  /\ \A c \in 1..(m - 1) :
                 /\ ActivationOf(program, V, calls[c]) /\ calls[c].waiting # "nothing"
                 /\ \E j \in 2..Len(frames) : frames[j].base = calls[c].base
                 /\ calls[c].base \in Nat /\ calls[c].base <= Frame.base
           /\ \A c \in 1..(m - 1) : \A d \in 1..(m - 1) : c < d => calls[c].base < calls[d].base
<1>1. Machine(program, V, stack, build, frames, calls) /\ Verified(Programs[program])
  BY DEF Running
<1>2. m \in Nat \ {0}
  BY CallsLast
<1>3. \A c \in 1..(m - 1) : c \in 1..m /\ c < m
  BY <1>2
<1>4. /\ \A c \in 1..Len(calls) :
            /\ ActivationOf(program, V, calls[c])
            /\ c < Len(calls) => calls[c].waiting # "nothing"
            /\ calls[c].waiting # "nothing" =>
                  /\ \E j \in 2..Len(frames) : frames[j].base = calls[c].base
                  /\ calls[c].base \in Nat \ {0} /\ calls[c].base <= Last(frames).base
      /\ \A c \in 1..Len(calls) : \A d \in 1..Len(calls) :
            c < d /\ calls[d].waiting # "nothing" => calls[c].base < calls[d].base
  BY <1>1, WaitFacts
<1>5. ASSUME NEW c \in 1..(m - 1)
      PROVE  /\ ActivationOf(program, V, calls[c]) /\ calls[c].waiting # "nothing"
             /\ \E j \in 2..Len(frames) : frames[j].base = calls[c].base
             /\ calls[c].base \in Nat /\ calls[c].base <= Frame.base
  BY <1>3, <1>4 DEF Frame
<1>6. ASSUME NEW c \in 1..(m - 1), NEW d \in 1..(m - 1), c < d
      PROVE  calls[c].base < calls[d].base
  BY <1>3, <1>4, <1>5, <1>6
<1> QED
  BY <1>5, <1>6

\* The native code goes on without a call.
LEMMA NativeStays ==
    ASSUME NEW V, Running(V), Native,
           NEW a, ActivationOf(program, V, a), a.waiting = "nothing", a.kind = Activation.kind,
           calls' = WithActivation(a),
           program' = program, stack' = stack, build' = build, frames' = frames, status' = status
    PROVE  Sound
<1> DEFINE m == Len(calls)
<1>1. /\ Machine(program, V, stack, build, frames, calls) /\ Verified(Programs[program])
      /\ program \in DOMAIN Programs /\ status = "running"
  BY DEF Running
<1>2. m = Len(calls)
  OBVIOUS
<1> HIDE DEF m
<1>3. /\ m \in Nat \ {0} /\ \E A : calls' \in Seq(A)
      /\ Len(calls') = m /\ DOMAIN calls' = 1..m /\ Last(calls') = a /\ calls' # <<>>
      /\ \A c \in 1..(m - 1) : calls'[c] = calls[c]
      /\ calls'[m] = a
  BY <1>2, Replaced DEF Native
<1>4. /\ \A c \in 1..(m - 1) :
                 /\ ActivationOf(program, V, calls[c]) /\ calls[c].waiting # "nothing"
                 /\ \E j \in 2..Len(frames) : frames[j].base = calls[c].base
      /\ \A c \in 1..(m - 1) : \A d \in 1..(m - 1) : c < d => calls[c].base < calls[d].base
  BY <1>2, OthersWait DEF Native
<1>5. Waiting(program, V, frames, calls')
  <2>1. \A c \in 1..(m - 1) :
                 /\ ActivationOf(program, V, calls'[c]) /\ calls'[c].waiting # "nothing"
                 /\ \E j \in 2..Len(frames) : frames[j].base = calls'[c].base
    BY <1>3, <1>4
  <2>2. \A c \in 1..(m - 1) : \A d \in 1..(m - 1) : c < d => calls'[c].base < calls'[d].base
    BY <1>3, <1>4
  <2>3. PICK A : calls' \in Seq(A)
    BY <1>3
  <2>4. m = Len(calls') /\ m > 0 /\ ActivationOf(program, V, calls'[m]) /\ ~(calls'[m].waiting # "nothing")
    BY <1>3
  <2> QED
    BY <2>1, <2>2, <2>3, <2>4, WaitsIfLast
<1>6. \A b : Extra(calls', b) = Extra(calls, b)
  <2>1. Activation = calls[m] /\ calls[m].waiting = "nothing" /\ DOMAIN calls = 1..m
    BY <1>1, <1>2, NativeFacts, WaitFacts
  <2>2. \A c \in 1..m : c = m \/ (c \in 1..(m - 1) /\ calls'[c] = calls[c])
    BY <1>3
  <2> QED
    BY <1>3, <2>1, <2>2 DEF Extra
<1>7. Linked(program, stack, frames, calls')
  BY <1>1, <1>6, LinkedKept DEF Machine
<1>8. Topped(program, stack, frames, calls')
  <2>1. IsNative(calls') /\ Last(calls').kind = Activation.kind
    BY <1>3 DEF IsNative
  <2> QED
    BY <2>1, NativeFacts DEF Topped, Frame
<1>9. Machine(program, V, stack, build, frames, calls')
  BY <1>1, <1>5, <1>7, <1>8 DEF Machine
<1>10. IInv'
  BY <1>1, <1>9 DEF IInv
<1>11. Untouched
  <2>1. Frame.base \in Nat /\ Len(stack) \in Nat /\ Frame.base <= Len(stack) /\ DOMAIN stack = 1..Len(stack)
    BY <1>1, TopFacts DEF Frame
  <2>2. \A j \in 1..(Frame.base - 1) : j \in DOMAIN stack
    BY <2>1
  <2> QED
    BY <2>2 DEF Untouched
<1> QED
  BY <1>10, <1>11 DEF Sound

\* The activation a of for_each waits for the frame with the base b.
EachAt(a, b) == a.kind = "forEach" /\ a.waiting # "nothing" /\ a.base = b

\* The frames find their functions as long as no base is disturbed.
LEMMA LinkedBelow ==
    ASSUME NEW V, Running(V), NEW s, NEW cs,
           \A k \in 1..Frame.base : s[k] = stack[k],
           \A b \in 1..Frame.base : Extra(cs, b) = Extra(calls, b)
    PROVE  Linked(program, s, frames, cs)
<1>1. /\ Machine(program, V, stack, build, frames, calls) /\ Verified(Programs[program])
  BY DEF Running
<1>2. /\ DOMAIN frames = 1..Len(frames) /\ Len(frames) \in Nat \ {0}
      /\ \A j \in 1..Len(frames) : frames[j].base \in Nat
  BY <1>1, TopFacts DEF Placed, FrameSet
<1>3. \A j \in 1..Len(frames) : frames[j].base <= Frame.base
  BY <1>1, CallersHaveArguments DEF Frame
<1>4. \A j \in 2..Len(frames) : frames[j].base \in 1..Frame.base
  <2>1. \A j \in 2..Len(frames) : j \in 1..Len(frames) /\ 1 \in 1..Len(frames) /\ 1 < j
    BY <1>2
  <2>2. frames[1].base = 0 /\ \A j \in 2..Len(frames) : frames[1].base < frames[j].base
    BY <1>1, <1>2, <2>1 DEF Machine, Framed
  <2>3. Frame.base \in Nat
    BY <1>1, TopFacts DEF Frame
  <2> QED
    BY <1>2, <1>3, <2>1, <2>2, <2>3
<1>5. \A j \in 2..Len(frames) :
         /\ Extra(cs, frames[j].base) = Extra(calls, frames[j].base)
         /\ s[frames[j].base] = stack[frames[j].base]
  BY <1>4
<1> QED
  BY <1>1, <1>5, LinkedKept DEF Machine

\* The native code ends, with a value in the place of the operands.
LEMMA NativeLeaves ==
    ASSUME NEW V, Running(V), Native,
           stack' \in Seq(Seq(V)), Len(stack') = Frame.base + Height(program, Frame),
           \A k \in 1..Frame.base : stack'[k] = stack[k],
           calls' = Front(calls),
           program' = program, build' = build, frames' = frames, status' = status
    PROVE  Sound
<1> DEFINE m == Len(calls)
<1>1. /\ Machine(program, V, stack, build, frames, calls) /\ Verified(Programs[program])
      /\ program \in DOMAIN Programs /\ status = "running"
  BY DEF Running
<1>2. m = Len(calls) /\ m \in Nat \ {0} /\ Activation = calls[m] /\ Activation.waiting = "nothing"
  BY NativeFacts
<1>3. /\ \A c \in 1..(m - 1) :
                 /\ ActivationOf(program, V, calls[c]) /\ calls[c].waiting # "nothing"
                 /\ \E j \in 2..Len(frames) : frames[j].base = calls[c].base
      /\ \A c \in 1..(m - 1) : \A d \in 1..(m - 1) : c < d => calls[c].base < calls[d].base
  BY <1>2, OthersWait DEF Native
<1>4. PICK A : calls \in Seq(A)
  BY <1>1, WaitFacts
<1> HIDE DEF m
<1>5. /\ calls' \in Seq(A) /\ Len(calls') = m - 1
      /\ \A c \in 1..(m - 1) : calls'[c] = calls[c]
  <2>1. /\ Front(calls) \in Seq(A) /\ Len(Front(calls)) = Len(calls) - 1
        /\ \A c \in 1..(Len(calls) - 1) : Front(calls)[c] = calls[c]
    <3>1. Len(calls) > 0
      BY <1>2
    <3> QED
      BY <1>4, <3>1, Fronted
  <2> QED
    BY <1>2, <2>1
<1>6. DOMAIN calls' = 1..(m - 1) /\ m - 1 \in Nat
  BY <1>2, <1>5
<1>7. ~ IsNative(calls')
  <2>1. CASE m - 1 = 0
    BY <1>5, <2>1 DEF IsNative
  <2>2. CASE m - 1 # 0
    <3>1. m - 1 \in 1..(m - 1)
      BY <1>2, <2>2
    <3>2. Last(calls') = calls[m - 1]
      BY <1>5, <3>1 DEF Last
    <3> QED
      BY <1>3, <3>1, <3>2 DEF IsNative
  <2> QED
    BY <2>1, <2>2
<1>8. Waiting(program, V, frames, calls')
  <2>1. ASSUME NEW c \in 1..(m - 1)
        PROVE  /\ ActivationOf(program, V, calls'[c])
               /\ calls'[c].waiting # "nothing"
               /\ \E j \in 2..Len(frames) : frames[j].base = calls'[c].base
    <3>1. calls'[c] = calls[c]
      BY <1>5
    <3> QED
      BY <1>3, <3>1
  <2>2. ASSUME NEW c \in 1..(m - 1), NEW d \in 1..(m - 1), c < d
        PROVE  calls'[c].base < calls'[d].base
    <3>1. calls'[c] = calls[c] /\ calls'[d] = calls[d]
      BY <1>5
    <3> QED
      BY <1>3, <2>2, <3>1
  <2> QED
    BY <1>5, <1>6, <2>1, <2>2 DEF Waiting
<1>9. \A b : Extra(calls', b) = Extra(calls, b)
  <2>1. DOMAIN calls = 1..m
    BY <1>1, <1>2, WaitFacts
  <2>2. \A c \in 1..m : c = m \/ c \in 1..(m - 1)
    BY <1>2
  <2>3. \A c \in 1..(m - 1) : c \in 1..m
    BY <1>2
  <2> QED
    BY <1>2, <1>5, <1>6, <2>1, <2>2, <2>3, ZenonT(30) DEF Extra
<1>10. Linked(program, stack', frames, calls')
  BY <1>9, LinkedBelow
<1>11. Topped(program, stack', frames, calls')
  <2>1. Frame.base \in Nat /\ Height(program, Frame) \in Nat
    BY DepthFacts
  <2>2. Len(stack') = Frame.base + Height(program, Frame) - 0
    BY <2>1
  <2> QED
    BY <1>7, <2>2 DEF Topped, Frame
<1>12. Machine(program, V, stack', build, frames, calls')
  BY <1>1, <1>8, <1>10, <1>11 DEF Machine
<1>13. IInv'
  BY <1>1, <1>12 DEF IInv
<1>14. Untouched
  <2>1. Frame.base \in Nat /\ Height(program, Frame) \in Nat /\ Len(stack') \in Nat
        /\ DOMAIN stack' = 1..Len(stack')
    BY DepthFacts
  <2>2. \A j \in 1..(Frame.base - 1) : j \in 1..Frame.base /\ j \in DOMAIN stack'
    BY <2>1
  <2> QED
    BY <2>2 DEF Untouched
<1> QED
  BY <1>13, <1>14 DEF Sound

\* The values that are pushed for a call-back.
WithCall(stk, function, args) == stk \o <<function>> \o args

LEMMA CallBackPushes ==
    ASSUME NEW V, Running(V), NEW function \in Seq(V), NEW args \in Seq(Seq(V))
    PROVE  LET s == WithCall(stack, function, args)
           IN  /\ s \in Seq(Seq(V)) /\ Len(s) = Len(stack) + 1 + Len(args)
               /\ \A k \in 1..Len(stack) : s[k] = stack[k]
               /\ s[Len(stack) + 1] = function
<1> DEFINE s == WithCall(stack, function, args)
<1> DEFINE S == Seq(V)
           t == stack \o <<function>>
<1>1. stack \in Seq(S) /\ args \in Seq(S) /\ function \in S
  BY DEF Running, Machine
<1>2. s = t \o args
  BY DEF WithCall
<1> HIDE DEF S
<1>3. <<function>> \in Seq(S) /\ Len(<<function>>) = 1 /\ 1 \in 1..1 /\ <<function>>[1] = function
  BY <1>1
<1>4. /\ t \in Seq(S) /\ Len(t) = Len(stack) + 1 /\ Len(stack) \in Nat
      /\ \A k \in 1..Len(stack) : t[k] = stack[k]
      /\ t[Len(stack) + 1] = function
  <2>1. /\ t \in Seq(S) /\ Len(t) = Len(stack) + Len(<<function>>) /\ Len(stack) \in Nat
        /\ \A k \in 1..Len(stack) : t[k] = stack[k]
        /\ \A k \in 1..Len(<<function>>) : t[Len(stack) + k] = <<function>>[k]
    BY <1>1, <1>3, Joined
  <2> QED
    BY <1>3, <2>1
<1> HIDE DEF t
<1>5. /\ s \in Seq(S) /\ Len(s) = Len(t) + Len(args)
      /\ \A k \in 1..Len(t) : s[k] = t[k]
  <2>1. /\ t \o args \in Seq(S) /\ Len(t \o args) = Len(t) + Len(args)
        /\ \A k \in 1..Len(t) : (t \o args)[k] = t[k]
    BY <1>1, <1>4, Joined, ZenonT(30)
  <2> QED
    BY <1>2, <2>1
<1>6. \A k \in 1..Len(stack) : k \in 1..Len(t)
  BY <1>4
<1>7. Len(stack) + 1 \in 1..Len(t)
  BY <1>4
<1> QED
  BY <1>4, <1>5, <1>6, <1>7 DEF S

\* The host calls a function, or finds no room for its frame.
LEMMA CallBackIsSound ==
    ASSUME NEW V, Running(V), PredicatesReturn, Native,
           NEW what \in {"body", "predicate"}, Activation.kind = "forEach" => what = "body",
           NEW function \in Seq(V), Len(function) = 1, NEW id, id = function[1].fn,
           "fn" \in DOMAIN function[1], id \in DOMAIN Functions(program),
           NEW args \in Seq(Seq(V)), Len(args) = Functions(program)[id].arity,
           CallBack(what, function, args)
    PROVE  Sound
<1> DEFINE s == stack \o <<function>> \o args
           b == Len(stack) + 1
           f == Entry(id, b)
           a == [Activation EXCEPT !.waiting = what, !.base = b]
           cs == WithActivation(a)
           m == Len(calls)
           each == Activation.kind = "forEach"
<1>1. /\ Machine(program, V, stack, build, frames, calls) /\ Verified(Programs[program])
      /\ program \in DOMAIN Programs /\ status = "running"
  BY DEF Running
<1>2. /\ Frame \in Placed(program) /\ Frame.base \in Nat /\ Len(stack) \in Nat
      /\ ArityIn(program, Frame) \in Nat /\ Height(program, Frame) \in Nat
      /\ Frame.base + ArityIn(program, Frame) <= Len(stack)
  BY DepthFacts
<1>3. /\ m \in Nat \ {0} /\ m = Len(calls) /\ Activation = calls[m]
      /\ ActivationOf(program, V, Activation) /\ Activation.waiting = "nothing"
      /\ Len(stack) = Frame.base + Height(program, Frame)
                         - (IF Activation.kind = "apply" THEN 1 ELSE 0)
      /\ ArityIn(program, Frame) < Height(program, Frame)
  BY NativeFacts
<1>4. /\ s \in Seq(Seq(V)) /\ Len(s) = Len(stack) + 1 + Len(args)
      /\ \A k \in 1..Len(stack) : s[k] = stack[k]
      /\ s[b] = function
  <2>1. s = WithCall(stack, function, args)
    BY DEF WithCall
  <2> HIDE DEF s
  <2>2. LET t == WithCall(stack, function, args)
        IN  /\ t \in Seq(Seq(V)) /\ Len(t) = Len(stack) + 1 + Len(args)
            /\ \A k \in 1..Len(stack) : t[k] = stack[k]
            /\ t[Len(stack) + 1] = function
    BY CallBackPushes
  <2> QED
    BY <2>1, <2>2
<1> HIDE DEF s
<1>5. Functions(program)[id].arity \in Nat
  BY <1>1, <1>2, StartPlaced
<1>6. /\ Len(s) = b + Functions(program)[id].arity /\ b \in Nat /\ Frame.base < b
      /\ Len(s) \in Nat
      /\ \A k \in 1..Frame.base : s[k] = stack[k]
  <2>1. \A k \in 1..Frame.base : k \in 1..Len(stack)
    BY <1>2
  <2> QED
    BY <1>2, <1>4, <1>5, <2>1, SMTT(30)
<1>7. NewFrame(id, s) = f /\ f.base = b
  <2>1. Len(s) - Function(id).arity = b
    BY <1>5, <1>6 DEF Function, Functions
  <2> QED
    BY <2>1 DEF NewFrame, Entry
<1>8. IF Len(frames) < FramesMax
      THEN /\ stack' = s /\ frames' = Append(frames, f) /\ calls' = cs
           /\ program' = program /\ build' = build /\ status' = status
      ELSE RaiseIn(cs, s) /\ frames' = frames
  BY <1>7 DEF CallBack, s
<1>9. /\ ActivationOf(program, V, a) /\ a.waiting = what /\ a.base = b
      /\ a.kind = Activation.kind
  <2>1. /\ DOMAIN Activation = {"kind", "items", "i", "done", "action", "mode", "rule", "known",
                                "waiting", "base"}
    BY <1>3 DEF ActivationOf
  <2>2. /\ DOMAIN a = DOMAIN Activation /\ a.waiting = what /\ a.base = b
        /\ a.kind = Activation.kind /\ a.items = Activation.items /\ a.done = Activation.done
        /\ a.action = Activation.action /\ a.i = Activation.i /\ a.rule = Activation.rule
        /\ a.mode = Activation.mode
    BY <2>1
  <2> HIDE DEF a
  <2> QED
    BY <1>3, <2>1, <2>2 DEF ActivationOf
<1> HIDE DEF a
<1>10. /\ \E A : cs \in Seq(A)
       /\ Len(cs) = m /\ DOMAIN cs = 1..m /\ Last(cs) = a /\ cs # <<>>
       /\ \A c \in 1..(m - 1) : cs[c] = calls[c]
       /\ cs[m] = a
  <2>1. cs = WithActivation(a) /\ m = Len(calls) /\ calls # <<>>
    BY DEF Native
  <2> HIDE DEF cs, m
  <2>2. /\ \E A : cs \in Seq(A)
        /\ Len(cs) = Len(calls) /\ DOMAIN cs = 1..Len(calls) /\ Last(cs) = a /\ cs # <<>>
        /\ \A c \in 1..(Len(calls) - 1) : cs[c] = calls[c]
        /\ cs[Len(calls)] = a
    BY <2>1, Replaced
  <2> QED
    BY <2>1, <2>2
<1>11. /\ \A c \in 1..(m - 1) :
                 /\ ActivationOf(program, V, calls[c]) /\ calls[c].waiting # "nothing"
                 /\ \E j \in 2..Len(frames) : frames[j].base = calls[c].base
                 /\ calls[c].base \in Nat /\ calls[c].base <= Frame.base
       /\ \A c \in 1..(m - 1) : \A d \in 1..(m - 1) : c < d => calls[c].base < calls[d].base
  BY <1>3, OthersWait, Zenon DEF Native
<1>12. DOMAIN calls = 1..m /\ \A c \in 1..m : c = m \/ c \in 1..(m - 1)
  <2>1. DOMAIN calls = 1..m
    BY <1>1, <1>3, WaitFacts
  <2>2. \A c \in 1..m : c = m \/ c \in 1..(m - 1)
    <3>1. m \in Nat \ {0}
      BY <1>3
    <3> HIDE DEF m
    <3> QED
      BY <3>1
  <2> QED
    BY <2>1, <2>2, Zenon
<1> HIDE DEF b, f, cs, m, each
<1>13. what # "nothing"
  OBVIOUS
<1>14. Extra(cs, b) = IF each THEN 1 ELSE 0
  <2>1. ASSUME NEW c \in 1..(m - 1) PROVE cs[c].base # b
    <3>1. cs[c] = calls[c] /\ calls[c].base \in Nat /\ calls[c].base <= Frame.base
      BY <1>10, <1>11
    <3> QED
      BY <1>2, <1>6, <3>1
  <2>2. m \in 1..m
    BY <1>3
  <2> QED
    BY <1>9, <1>10, <1>12, <1>13, <2>1, <2>2 DEF Extra, each
<1>15. \A x \in 1..Frame.base : Extra(cs, x) = Extra(calls, x)
  <2>1. ASSUME NEW x \in 1..Frame.base, NEW c \in 1..m PROVE EachAt(cs[c], x) <=> EachAt(calls[c], x)
    <3>1. x # b
      BY <1>2, <1>6
    <3>2. CASE c = m
      BY <1>3, <1>9, <1>10, <3>1, <3>2 DEF EachAt
    <3>3. CASE c \in 1..(m - 1)
      BY <1>10, <3>3
    <3> QED
      BY <1>12, <3>2, <3>3
  <2>2. ASSUME NEW x \in 1..Frame.base
        PROVE  (\E c \in DOMAIN cs : EachAt(cs[c], x)) <=> (\E c \in DOMAIN calls : EachAt(calls[c], x))
    BY <1>10, <1>12, <2>1
  <2> QED
    BY <2>2 DEF Extra, EachAt
<1>16. Linked(program, s, frames, cs)
  BY <1>6, <1>15, LinkedBelow, SMTT(30)
<1>17. CASE ~ (Len(frames) < FramesMax)
  <2>1. RaiseIn(cs, s) /\ frames' = frames
    BY <1>8, <1>17
  <2>2. \A c \in DOMAIN cs :
            /\ ActivationOf(program, V, cs[c])
            /\ cs[c].waiting # "nothing" => cs[c].base <= Len(s)
    <3>1. b <= Len(s) /\ \A x \in Nat : x <= Frame.base => x <= Len(s)
      BY <1>2, <1>5, <1>6
    <3> QED
      BY <1>9, <1>10, <1>11, <1>12, <3>1
  <2>3. Frame.base + ArityIn(program, Frame) <= Len(s)
    BY <1>2, <1>5, <1>6 DEF b
  <2>4. \A k \in 1..(Frame.base - 1) : s[k] = stack[k]
    BY <1>2, <1>6
  <2>5. frames = WithTop(frames, Frame)
    <3>1. frames \in Seq(Placed(program)) /\ Len(frames) \in Nat \ {0} /\ Frame = frames[Len(frames)]
      BY <1>1, TopFacts DEF Machine, Framed, Frame
    <3> QED
      BY <3>1 DEF WithTop
  <2>6. PICK A : cs \in Seq(A)
    BY <1>10
  <2>7. Frame.fn = Frame.fn /\ Frame.base = Frame.base /\ frames' = WithTop(frames, Frame)
    BY <2>1, <2>5
  <2> QED
    BY <1>2, <1>4, <2>1, <2>2, <2>3, <2>4, <2>6, <2>7, Fails
<1>18. CASE Len(frames) < FramesMax
  <2> DEFINE frs2 == Entered(frames, f)
  <2>1. /\ stack' = s /\ frames' = frs2 /\ calls' = cs
        /\ program' = program /\ build' = build /\ status' = status
    BY <1>8, <1>18 DEF Entered
  <2>2. frs2 = Entered(frames, f) /\ f = Entry(id, b) /\ Frame = Last(frames)
    BY DEF f, Frame
  <2> HIDE DEF frs2
  <2>3. b = Frame.base + Height(program, Frame) + Extra(cs, b)
    <3>1. CASE each
      <4>1. Activation.kind # "apply"
        BY <3>1 DEF each
      <4> QED
        BY <1>2, <1>3, <1>14, <3>1, <4>1 DEF b
    <3>2. CASE ~ each
      <4>1. Activation.kind = "apply"
        BY <1>3, <3>2 DEF each, ActivationOf
      <4> QED
        BY <1>2, <1>3, <1>14, <3>2, <4>1 DEF b
    <3> QED
      BY <3>1, <3>2
  <2>4. IsItemOf(s, b, id)
    BY <1>4 DEF IsItemOf
  <2>5. /\ Framed(program, frames) /\ Building(program, build, frames)
        /\ b \in Nat /\ ArityIn(program, Frame) < Height(program, Frame)
    BY <1>1, <1>3, <1>6 DEF Machine
  <2>6. /\ Framed(program, frs2) /\ Linked(program, s, frs2, cs) /\ Building(program, build, frs2)
        /\ Last(frs2) = f /\ f.base = b /\ Height(program, f) = Functions(program)[id].arity
        /\ Len(frs2) = Len(frames) + 1
        /\ \A j \in 1..Len(frames) : frs2[j] = frames[j]
    BY <1>1, <1>16, <1>18, <2>2, <2>3, <2>4, <2>5, FrameEnters
  <2>7. ~ IsNative(cs)
    BY <1>9, <1>10, <1>13 DEF IsNative
  <2>8. Topped(program, s, frs2, cs)
    <3>1. Len(s) = b + Functions(program)[id].arity - 0
      BY <1>5, <1>6
    <3> QED
      BY <2>6, <2>7, <3>1 DEF Topped
  <2>9. Len(frames) \in Nat \ {0} /\ frs2[Len(frs2)] = f
    <3>1. Len(frames) \in Nat \ {0}
      BY <1>1, TopFacts
    <3> QED
      BY <2>6, <3>1 DEF Last
  <2>10. Waiting(program, V, frs2, cs)
    <3>1. \A j \in 2..Len(frames) : j \in 2..Len(frs2) /\ frs2[j].base = frames[j].base
      BY <2>6, <2>9
    <3>2. ASSUME NEW c \in 1..(m - 1)
          PROVE  /\ ActivationOf(program, V, cs[c]) /\ cs[c].waiting # "nothing"
                 /\ \E j \in 2..Len(frs2) : frs2[j].base = cs[c].base
                 /\ cs[c].base < b
      <4>1. cs[c] = calls[c]
        BY <1>10
      <4>2. PICK j \in 2..Len(frames) : frames[j].base = calls[c].base
        BY <1>11
      <4>3. j \in 2..Len(frs2) /\ frs2[j].base = cs[c].base
        BY <3>1, <4>1, <4>2
      <4>4. cs[c].base < b
        BY <1>2, <1>6, <1>11, <4>1, SMTT(30)
      <4> QED
        BY <1>11, <4>1, <4>3, <4>4
    <3>3. ASSUME NEW c \in 1..(m - 1), NEW d \in 1..(m - 1), c < d PROVE cs[c].base < cs[d].base
      <4>1. cs[c] = calls[c] /\ cs[d] = calls[d]
        BY <1>10
      <4> QED
        BY <1>11, <3>3, <4>1
    <3>4. \E j \in 2..Len(frs2) : frs2[j].base = cs[m].base
      <4>1. Len(frs2) \in 2..Len(frs2)
        BY <2>6, <2>9
      <4>2. frs2[Len(frs2)].base = cs[m].base
        BY <1>9, <1>10, <2>6, <2>9
      <4> QED
        BY <4>1, <4>2
    <3>5. cs[m].base = b /\ ActivationOf(program, V, cs[m])
      BY <1>9, <1>10
    <3>6. PICK A : cs \in Seq(A)
      BY <1>10
    <3>7. m = Len(cs) /\ m > 0
      BY <1>3, <1>10
    <3> QED
      BY <3>2, <3>3, <3>4, <3>5, <3>6, <3>7, WaitsIfLast
  <2>11. Machine(program, V, s, build, frs2, cs)
    BY <1>1, <1>4, <2>6, <2>8, <2>10 DEF Machine
  <2>12. IInv'
    BY <1>1, <2>1, <2>11 DEF IInv
  <2>13. Untouched
    <3>1. DOMAIN s = 1..Len(s)
      BY <1>4
    <3>2. \A k \in 1..(Frame.base - 1) : k \in 1..Frame.base /\ k \in DOMAIN s
      BY <1>2, <1>5, <1>6, <3>1, SMTT(30)
    <3> QED
      BY <1>6, <2>1, <3>2 DEF Untouched
  <2> QED
    BY <2>12, <2>13 DEF Sound
<1> QED
  BY <1>17, <1>18

-----------------------------------------------------------------------------
(* The actions of the host. *)

\* The position and the number of the siblings of an item are numbers.
LEMMA SiblingsAreCounted ==
    ASSUME NEW p, NEW V, Items(p, V), NEW x \in V
    PROVE  ChildIndex(x) \in Int /\ Cardinality(Siblings(x)) \in Int
<1>1. CASE ~ IsNode(x)
  <2>1. Siblings(x) = {x} /\ ChildIndex(x) = 1
    BY <1>1 DEF Siblings, ChildIndex
  <2>2. Cardinality({x}) = 1
    BY FS_Singleton
  <2> QED
    BY <2>1, <2>2
<1>2. CASE IsNode(x)
  <2>1. x.node \in Nodes /\ Nodes = 1..Len(Tree) /\ Len(Tree) \in Nat
    BY <1>2, ItemKinds, TreeAssumption
  <2> DEFINE S == Siblings(x)
             T == {m \in S : m <= x.node}
  <2>2. S \in SUBSET Nodes
    <3>1. CASE Up(x.node) = {}
      BY <1>2, <2>1, <3>1 DEF Siblings
    <3>2. CASE Up(x.node) # {}
      <4>1. Tree[x.node].parent # 0
        BY <3>2 DEF Up
      <4>2. Tree[x.node].parent \in Nodes
        BY <2>1, <4>1, TreeAssumption
      <4>3. OnAxis("child", Tree[x.node].parent) \in SUBSET Nodes
        BY <4>2, AxesLeadToNodes DEF AllAxes
      <4> QED
        BY <1>2, <3>2, <4>3 DEF Siblings
    <3> QED
      BY <3>1, <3>2
  <2>3. ChildIndex(x) = Cardinality(T)
    BY <1>2 DEF ChildIndex
  <2> HIDE DEF S
  <2>4. T \in SUBSET Nodes
    BY <2>2
  <2> HIDE DEF T
  <2>5. Cardinality(S) \in Nat /\ Cardinality(T) \in Nat
    BY <2>1, <2>2, <2>4, Ranked
  <2> QED
    BY <2>3, <2>5 DEF S
<1> QED
  BY <1>1, <1>2

\* The item that the native code is at.
LEMMA ItemFacts ==
    ASSUME NEW V, Running(V), Native, More
    PROVE  /\ Item \in Seq(V) /\ Len(Item) = 1 /\ Item[1] \in V /\ ToSet(Item) \subseteq V
           /\ Activation.i \in Int /\ Len(Activation.items) \in Int
<1>1. /\ Activation.items \in Seq(V) /\ Activation.i \in Nat \ {0}
      /\ Activation.i <= Len(Activation.items)
  BY NativeFacts DEF ActivationOf, More
<1>2. Activation.items[Activation.i] \in V /\ Len(Activation.items) \in Nat
  BY <1>1
<1>3. Item = <<Activation.items[Activation.i]>>
  BY DEF Item
<1> QED
  BY <1>1, <1>2, <1>3 DEF ToSet

LEMMA ForEachItemIsSound ==
    ASSUME NEW V, Running(V), PredicatesReturn, ForEachItem PROVE Sound
<1> DEFINE action == Activation.action
           id == action[1].fn
           args == <<Item>>
<1>1. /\ Native /\ More /\ Activation.kind = "forEach" /\ "fn" \in DOMAIN action[1]
      /\ CallBack("body", action, args)
  BY DEF ForEachItem, Runs, Activation
<1>2. action \in Seq(V) /\ Len(action) = 1 /\ ArityOfItem(program, action[1]) = 1
  BY <1>1, NativeFacts DEF ActivationOf, OneFunction
<1> HIDE DEF action
<1>3. action[1] \in InlineItems(program, V)
  <2>1. Items(program, V)
    BY DEF Running, Machine
  <2>2. action[1] \in V
    BY <1>2
  <2> QED
    BY <1>1, <2>1, <2>2, ItemKinds
<1>4. id \in DOMAIN Functions(program) /\ Functions(program)[id].arity = 1
  <2>1. DOMAIN action[1] = {"fn", "vars"} /\ id \in DOMAIN Functions(program)
    BY <1>3 DEF InlineItems
  <2> QED
    BY <1>2, <2>1 DEF ArityOfItem
<1>5. args \in Seq(Seq(V)) /\ Len(args) = 1
  BY <1>1, ItemFacts
<1> HIDE DEF args, id
<1>6. id = action[1].fn /\ "body" \in {"body", "predicate"}
      /\ Len(args) = Functions(program)[id].arity
  BY <1>4, <1>5 DEF id
<1> QED
  BY <1>1, <1>2, <1>4, <1>5, <1>6, CallBackIsSound

\* The native code is done with an item.
LEMMA NextItemIsSound ==
    ASSUME NEW V, Running(V), Native, NEW v \in Seq(V),
           calls' = WithActivation(NextItem(Activation, v)),
           program' = program, stack' = stack, build' = build, frames' = frames, status' = status
    PROVE  Sound
<1> DEFINE a == NextItem(Activation, v)
<1>1. ActivationOf(program, V, Activation)
  BY NativeFacts
<1>2. /\ DOMAIN a = DOMAIN Activation /\ a.waiting = "nothing" /\ a.kind = Activation.kind
      /\ a.items = Activation.items /\ a.done = Activation.done \o v
      /\ a.action = Activation.action /\ a.mode = Activation.mode
      /\ a.i = Activation.i + 1 /\ a.rule = 1
  BY <1>1 DEF NextItem, ActivationOf
<1>3. a.done \in Seq(V)
  BY <1>1, <1>2, Joined DEF ActivationOf
<1> HIDE DEF a
<1>4. ActivationOf(program, V, a)
  BY <1>1, <1>2, <1>3 DEF ActivationOf
<1>5. calls' = WithActivation(a)
  BY DEF a
<1> QED
  BY <1>2, <1>4, <1>5, NativeStays

LEMMA ForEachRootIsSound ==
    ASSUME NEW V, Running(V), PredicatesReturn, ForEachRoot PROVE Sound
<1>1. Native /\ More /\ frames' = frames /\ Activation.kind = "forEach"
  BY DEF ForEachRoot, Runs, Activation
<1>2. /\ Machine(program, V, stack, build, frames, calls) /\ Verified(Programs[program])
      /\ Items(program, V)
  BY DEF Running, Machine
<1>3. Item \in Seq(V)
  BY <1>1, ItemFacts
<1>4. CASE RootOf(Item) = Failed
  <2> DEFINE s == stack \o <<Activation.action, Item>>
             S == Seq(V)
  <2>1. /\ Frame \in Placed(program) /\ Frame.base \in Nat /\ Len(stack) \in Nat
        /\ ArityIn(program, Frame) \in Nat
        /\ Frame.base + ArityIn(program, Frame) <= Len(stack)
    BY DepthFacts
  <2>2. RaiseIn(calls, s)
    BY <1>4 DEF ForEachRoot, Raise
  <2>3. stack \in Seq(S) /\ Activation.action \in S /\ Item \in S
    BY <1>1, <1>2, <1>3, NativeFacts DEF Machine, ActivationOf
  <2> HIDE DEF S
  <2>4. <<Activation.action, Item>> \in Seq(S) /\ Len(<<Activation.action, Item>>) = 2
    BY <2>3
  <2>5. /\ s \in Seq(S) /\ Len(s) = Len(stack) + Len(<<Activation.action, Item>>)
        /\ \A k \in 1..Len(stack) : s[k] = stack[k]
    BY <2>3, <2>4, Joined
  <2> HIDE DEF s
  <2>6. Frame.base <= Len(s) /\ Frame.base + ArityIn(program, Frame) <= Len(s) /\ Len(s) \in Nat
    BY <2>1, <2>4, <2>5
  <2>7. \A k \in 1..(Frame.base - 1) : s[k] = stack[k]
    <3>1. \A k \in 1..(Frame.base - 1) : k \in 1..Len(stack)
      BY <2>1
    <3> QED
      BY <2>5, <3>1
  <2>8. \A c \in DOMAIN calls :
            /\ ActivationOf(program, V, calls[c])
            /\ calls[c].waiting # "nothing" => calls[c].base <= Len(s)
    BY <1>2, <2>1, <2>6, ActivationsOnStack DEF Frame
  <2>9. PICK A : calls \in Seq(A)
    BY <1>2, WaitFacts
  <2>10. frames' = WithTop(frames, Frame) /\ Frame.fn = Frame.fn /\ Frame.base = Frame.base
    <3>1. frames \in Seq(Placed(program)) /\ Len(frames) \in Nat \ {0} /\ Frame = frames[Len(frames)]
      BY <1>2, TopFacts DEF Machine, Framed, Frame
    <3> QED
      BY <1>1, <3>1 DEF WithTop
  <2>11. s \in Seq(Seq(V))
    BY <2>5 DEF S
  <2> QED
    BY <2>1, <2>2, <2>6, <2>7, <2>8, <2>9, <2>10, <2>11, Fails
<1>5. CASE RootOf(Item) # Failed
  <2>1. RootOf(Item) \in Seq(V)
    BY <1>2, <1>3, <1>5, RootGivesValue
  <2>2. /\ calls' = WithActivation(NextItem(Activation, RootOf(Item)))
        /\ program' = program /\ stack' = stack /\ build' = build /\ status' = status
    BY <1>5 DEF ForEachRoot
  <2> QED
    BY <1>1, <2>1, <2>2, NextItemIsSound
<1> QED
  BY <1>4, <1>5

LEMMA DoneIsSound ==
    ASSUME NEW V, Running(V), ForEachDone \/ ApplyDone PROVE Sound
<1>1. /\ Native /\ calls' = Front(calls)
      /\ program' = program /\ build' = build /\ frames' = frames /\ status' = status
  BY DEF ForEachDone, ApplyDone, Runs
<1>2. Activation.done \in Seq(V)
  BY <1>1, NativeFacts DEF ActivationOf
<1>3. /\ Len(stack) = Frame.base + Height(program, Frame)
                         - (IF Activation.kind = "apply" THEN 1 ELSE 0)
      /\ ArityIn(program, Frame) < Height(program, Frame)
  BY <1>1, NativeFacts
<1>4. /\ Frame.base \in Nat /\ Len(stack) \in Nat
      /\ ArityIn(program, Frame) \in Nat /\ Height(program, Frame) \in Nat
      /\ Frame.base + ArityIn(program, Frame) <= Len(stack)
  BY DepthFacts
<1> DEFINE S == Seq(V)
<1>5. PICK s \in Seq(S) :
         /\ stack' = Append(s, Activation.done)
         /\ Len(s) + 1 = Frame.base + Height(program, Frame)
         /\ Frame.base <= Len(s)
         /\ \A k \in 1..Frame.base : s[k] = stack[k]
  <2>1. CASE ForEachDone
    <3>1. stack' = Append(Popped(1), Activation.done) /\ Activation.kind = "forEach"
      BY <2>1 DEF ForEachDone, Runs, Activation
    <3>2. Len(stack) = Frame.base + Height(program, Frame)
      BY <1>3, <1>4, <3>1
    <3>3. 1 \in Nat /\ Frame.base + 1 <= Len(stack)
      BY <1>3, <1>4, <3>2
    <3>4. /\ Popped(1) \in Seq(Seq(V)) /\ Len(Popped(1)) = Len(stack) - 1
          /\ \A k \in 1..Frame.base : Popped(1)[k] = stack[k]
      BY <3>3, PoppedFacts
    <3>5. Len(Popped(1)) + 1 = Frame.base + Height(program, Frame) /\ Frame.base <= Len(Popped(1))
      BY <1>4, <3>2, <3>3, <3>4
    <3> QED
      BY <3>1, <3>4, <3>5
  <2>2. CASE ApplyDone
    <3>1. stack' = Append(stack, Activation.done) /\ Activation.kind = "apply"
      BY <2>2 DEF ApplyDone, Runs, Activation
    <3>2. Len(stack) + 1 = Frame.base + Height(program, Frame) /\ Frame.base <= Len(stack)
      BY <1>3, <1>4, <3>1
    <3>3. stack \in Seq(Seq(V))
      BY DEF Running, Machine
    <3> QED
      BY <3>1, <3>2, <3>3
  <2> QED
    BY <2>1, <2>2
<1> HIDE DEF S
<1>6. /\ stack' \in Seq(S) /\ Len(stack') = Len(s) + 1
      /\ \A k \in 1..Len(s) : stack'[k] = s[k]
  <2>1. Activation.done \in S
    BY <1>2 DEF S
  <2> QED
    BY <1>5, <2>1, Appended
<1>7. \A k \in 1..Frame.base : stack'[k] = stack[k]
  <2>1. \A k \in 1..Frame.base : k \in 1..Len(s)
    BY <1>4, <1>5
  <2> QED
    BY <1>5, <1>6, <2>1
<1>8. stack' \in Seq(Seq(V)) /\ Len(stack') = Frame.base + Height(program, Frame)
  BY <1>5, <1>6 DEF S
<1> QED
  BY <1>1, <1>7, <1>8, NativeLeaves

\* The rule that the native code of apply-templates is at.
LEMMA RuleFacts ==
    ASSUME NEW V, Running(V), SomeRule
    PROVE  /\ Native /\ More /\ Activation.kind = "apply"
           /\ CalledByHost(Programs[program], Rule.body)
           /\ \A pred \in DOMAIN Rule.preds : CalledByHost(Programs[program], Rule.preds[pred])
<1>1. /\ Native /\ More /\ Activation.kind = "apply"
      /\ Activation.rule <= Len(Rules(Activation.mode))
  BY DEF SomeRule, Runs, Activation
<1>2. Activation.mode \in DOMAIN Programs[program].rules /\ Activation.rule \in Nat \ {0}
  BY <1>1, NativeFacts DEF ActivationOf
<1>3. Verified(Programs[program]) /\ Rules(Activation.mode) = Programs[program].rules[Activation.mode]
  BY DEF Running, Rules
<1>4. IsSequence(Rules(Activation.mode))
  BY <1>2, <1>3 DEF Verified
<1>5. Activation.rule \in DOMAIN Rules(Activation.mode)
  BY <1>1, <1>2, <1>4 DEF IsSequence
<1> QED
  BY <1>1, <1>2, <1>3, <1>5 DEF Verified, Rule

\* The host calls a predicate or a template with three values.
LEMMA CallWithThree ==
    ASSUME NEW V, Running(V), PredicatesReturn, Native, Activation.kind = "apply",
           NEW what \in {"body", "predicate"}, NEW id, CalledByHost(Programs[program], id),
           NEW u \in Seq(V), NEW v \in Seq(V), NEW w \in Seq(V),
           CallBack(what, Closed(id), <<u, v, w>>)
    PROVE  Sound
<1>1. /\ id \in DOMAIN Functions(program) /\ Functions(program)[id].arity = 3
      /\ Functions(program)[id].closed = <<>>
  BY DEF CalledByHost, Functions
<1> DEFINE function == Closed(id)
           args == <<u, v, w>>
<1>2. [fn |-> id, vars |-> <<>>] \in V
  <2>1. ClosedItems(program) \subseteq V
    BY DEF Running, Machine, Items
  <2> QED
    BY <1>1, <2>1 DEF ClosedItems
<1>3. /\ function \in Seq(V) /\ Len(function) = 1 /\ function[1].fn = id
      /\ "fn" \in DOMAIN function[1]
  BY <1>2 DEF Closed
<1>4. args \in Seq(Seq(V)) /\ Len(args) = 3
  OBVIOUS
<1>5. CallBack(what, function, args) /\ (Activation.kind = "forEach" => what = "body")
  OBVIOUS
<1> HIDE DEF function, args
<1>6. id = function[1].fn /\ Len(args) = Functions(program)[id].arity
  BY <1>1, <1>3, <1>4
<1> QED
  BY <1>1, <1>3, <1>4, <1>5, <1>6, CallBackIsSound

LEMMA RulesAreSound ==
    ASSUME NEW V, Running(V), PredicatesReturn, TryPredicate \/ RunRule PROVE Sound
<1>1. SomeRule
  BY DEF TryPredicate, RunRule
<1>2. Native /\ More /\ Activation.kind = "apply" /\ Items(program, V)
  BY <1>1, RuleFacts DEF Running, Machine
<1>3. \A n \in Int : <<Integer(n)>> \in Seq(V)
  BY <1>2, AtomValues
<1>4. CASE RunRule
  <2>1. CallBack("body", Closed(Rule.body),
                 <<Item, <<Integer(Activation.i)>>, <<Integer(Len(Activation.items))>> >>)
    BY <1>4 DEF RunRule
  <2>2. Item \in Seq(V) /\ Activation.i \in Int /\ Len(Activation.items) \in Int
    BY <1>2, ItemFacts
  <2>3. CalledByHost(Programs[program], Rule.body)
    BY <1>1, RuleFacts
  <2>4. <<Integer(Activation.i)>> \in Seq(V) /\ <<Integer(Len(Activation.items))>> \in Seq(V)
    BY <1>3, <2>2
  <2> QED
    BY <1>2, <2>1, <2>2, <2>3, <2>4, CallWithThree
<1>5. CASE TryPredicate
  <2>1. PICK pred \in DOMAIN Rule.preds,
             item \in ToSet(Item) \cup {NodeItem(n) : n \in Nodes} :
           CallBack("predicate", Closed(Rule.preds[pred]),
                    << <<item>>, <<Integer(ChildIndex(item))>>,
                       <<Integer(Cardinality(Siblings(item)))>> >>)
    BY <1>5 DEF TryPredicate
  <2>2. item \in V
    BY <1>2, <2>1, ItemFacts, AtomValues
  <2>3. ChildIndex(item) \in Int /\ Cardinality(Siblings(item)) \in Int
    BY <1>2, <2>2, SiblingsAreCounted
  <2>4. /\ <<Integer(ChildIndex(item))>> \in Seq(V)
        /\ <<Integer(Cardinality(Siblings(item)))>> \in Seq(V)
    BY <1>3, <2>3
  <2>5. <<item>> \in Seq(V)
    BY <2>2
  <2>6. CalledByHost(Programs[program], Rule.preds[pred])
    BY <1>1, RuleFacts
  <2> QED
    BY <1>2, <2>1, <2>4, <2>5, <2>6, CallWithThree
<1> QED
  BY <1>4, <1>5

LEMMA NoMatchIsSound ==
    ASSUME NEW V, Running(V), SkipRule \/ NoRule PROVE Sound
<1>1. /\ Native
      /\ program' = program /\ stack' = stack /\ build' = build /\ frames' = frames /\ status' = status
  BY DEF SkipRule, NoRule, SomeRule, Runs
<1>2. CASE NoRule
  <2>1. calls' = WithActivation(NextItem(Activation, <<>>)) /\ <<>> \in Seq(V)
    BY <1>2 DEF NoRule
  <2> QED
    BY <1>1, <2>1, NextItemIsSound
<1>3. CASE SkipRule
  <2> DEFINE a == [Activation EXCEPT !.rule = @ + 1, !.known = << >>]
  <2>1. ActivationOf(program, V, Activation) /\ Activation.waiting = "nothing"
    BY <1>1, NativeFacts
  <2>2. /\ DOMAIN a = DOMAIN Activation /\ a.waiting = Activation.waiting /\ a.kind = Activation.kind
        /\ a.items = Activation.items /\ a.done = Activation.done
        /\ a.action = Activation.action /\ a.mode = Activation.mode
        /\ a.i = Activation.i /\ a.rule = Activation.rule + 1
    BY <2>1 DEF ActivationOf
  <2>3. calls' = WithActivation(a)
    BY <1>3 DEF SkipRule
  <2> HIDE DEF a
  <2>4. ActivationOf(program, V, a)
    BY <2>1, <2>2 DEF ActivationOf
  <2> QED
    BY <1>1, <2>1, <2>2, <2>3, <2>4, NativeStays
<1> QED
  BY <1>2, <1>3

LEMMA HostIsSound ==
    ASSUME NEW V, Running(V), PredicatesReturn, Host PROVE Sound
BY ForEachItemIsSound, ForEachRootIsSound, DoneIsSound, RulesAreSound, NoMatchIsSound DEF Host

-----------------------------------------------------------------------------
(* Return. *)

\* The frames find their functions in any stack that agrees up to the
\* innermost base.
LEMMA LinkedAgain ==
    ASSUME NEW p, NEW stk, NEW frs, NEW cls, Framed(p, frs), Linked(p, stk, frs, cls),
           NEW s, NEW cs,
           \A k \in 1..Last(frs).base : s[k] = stk[k],
           \A b \in 1..Last(frs).base : Extra(cs, b) = Extra(cls, b)
    PROVE  Linked(p, s, frs, cs)
<1> DEFINE n == Len(frs)
<1>1. /\ frs \in Seq(Placed(p)) /\ n \in Nat \ {0} /\ DOMAIN frs = 1..n
      /\ Last(frs) = frs[n] /\ frs[1].base = 0
      /\ \A i, j \in 1..n : i < j => frs[i].base < frs[j].base
  BY FramesMaxAssumption DEF Framed, Last
<1> HIDE DEF n
<1>2. \A j \in 1..n : frs[j].base \in Nat
  BY <1>1 DEF Placed, FrameSet
<1>3. \A j \in 2..n : frs[j].base \in 1..Last(frs).base
  <2>1. ASSUME NEW j \in 2..n PROVE frs[j].base \in 1..Last(frs).base
    <3>1. j \in 1..n /\ 1 \in 1..n /\ n \in 1..n /\ 1 < j /\ (j = n \/ j < n)
      BY <1>1
    <3>2. frs[1].base < frs[j].base
      BY <1>1, <3>1
    <3>3. frs[j].base <= frs[n].base
      BY <1>1, <1>2, <3>1
    <3> QED
      BY <1>1, <1>2, <3>1, <3>2, <3>3
  <2> QED
    BY <2>1
<1>4. \A j \in 2..Len(frs) :
         /\ Extra(cs, frs[j].base) = Extra(cls, frs[j].base)
         /\ s[frs[j].base] = stk[frs[j].base]
  BY <1>3 DEF n
<1> QED
  BY <1>4, LinkedKept

\* What Return leaves of the stack, before the value.
Rest == LET below == SubSeq(stack, 1, Frame.base)
        IN  IF below = <<>> THEN <<>> ELSE Front(below)

\* The frame that Return goes back to.
Under == frames[Len(frames) - 1]

Returning(V, n, caller, frs) ==
    /\ Framed(program, frs) /\ Building(program, build, frs)
    /\ Last(frs) = caller /\ Len(frs) = n - 1 /\ n - 1 \in Nat \ {0}
    /\ Frame.base \in Nat \ {0} /\ caller.base \in Nat /\ caller.base < Frame.base
    /\ Height(program, caller) \in Nat
    /\ Frame.base = caller.base + Height(program, caller) + Extra(calls, Frame.base)
    /\ ArityIn(program, caller) < Height(program, caller)
    /\ \A s, cs :
          /\ \A k \in 1..(Frame.base - 1) : s[k] = stack[k]
          /\ \A b \in 1..(Frame.base - 1) : Extra(cs, b) = Extra(calls, b)
          => Linked(program, s, frs, cs)
    /\ \A x : (\E j \in 2..n : frames[j].base = x) /\ x # Frame.base
          => \E j \in 2..(n - 1) : frs[j].base = x
    /\ Rest \in Seq(Seq(V)) /\ Len(Rest) = Frame.base - 1
    /\ \A k \in 1..(Frame.base - 1) : Rest[k] = stack[k]

LEMMA ReturnFacts ==
    ASSUME NEW V, Running(V), Executes("Return"), Len(frames) # 1
    PROVE  Returning(V, Len(frames), Under, Front(frames))
<1> DEFINE n == Len(frames)
           caller == frames[n - 1]
           frs == Front(frames)
<1> HIDE DEF n, caller, frs
<1>0. n = Len(frames) /\ n # 1 /\ caller = frames[n - 1] /\ frs = Front(frames)
  BY DEF n, caller, frs
<1>1. /\ Machine(program, V, stack, build, frames, calls) /\ Verified(Programs[program])
  BY DEF Running
<1>2. /\ Frame \in Placed(program) /\ Frame.base \in Nat /\ Len(stack) \in Nat
      /\ Instruction = CodeOf(program, Frame)[Frame.ip] /\ Instruction.op = "Return"
      /\ Frame.base + ArityIn(program, Frame) <= Len(stack)
      /\ ArityIn(program, Frame) \in Nat
  BY DepthFacts, Fetched
<1>3. Opened(program, Last(frames)) = 0
  <2>1. Opened(program, Frame) = 0
    BY <1>1, <1>2, PlacedFacts
  <2> QED
    BY <2>1 DEF Frame
<1>4. /\ Framed(program, frs) /\ Linked(program, stack, frs, calls) /\ Building(program, build, frs)
      /\ Last(frs) = frames[n - 1] /\ Len(frs) = n - 1 /\ n - 1 \in Nat \ {0}
      /\ \A j \in 1..(n - 1) : frs[j] = frames[j]
  <2>1. /\ Framed(program, frames) /\ Linked(program, stack, frames, calls)
        /\ Building(program, build, frames)
    BY <1>1 DEF Machine
  <2>2. Len(frames) # 1 /\ frs = Front(frames)
    BY <1>0
  <2>3. Framed(program, frs) /\ Linked(program, stack, frs, calls) /\ Building(program, build, frs)
    BY <1>1, <1>3, <2>1, <2>2, FrameLeaves
  <2>4. /\ Last(frs) = frames[Len(frames) - 1] /\ Len(frs) = Len(frames) - 1
        /\ Len(frames) - 1 \in Nat \ {0}
        /\ \A j \in 1..(Len(frames) - 1) : frs[j] = frames[j]
    BY <2>1, <2>2, FramesBelow
  <2> QED
    BY <1>0, <2>3, <2>4
<1>5. /\ n \in Nat \ {0} /\ DOMAIN frames = 1..n /\ Frame = frames[n]
      /\ \A j \in 1..n : frames[j] \in Placed(program)
  BY <1>0, <1>1, TopFacts DEF Frame
<1>6. n \in 2..n /\ n - 1 \in 1..n /\ n \in 1..n /\ n - 1 < n
  BY <1>4, <1>5
<1>7. caller \in Placed(program) /\ caller.base \in Nat /\ Height(program, caller) \in Nat
  <2>1. caller \in Placed(program)
    BY <1>0, <1>5, <1>6
  <2> QED
    BY <1>1, <2>1, PlacedFacts
<1>8. caller.base < Frame.base
  <2>1. \A i, j \in 1..n : i < j => frames[i].base < frames[j].base
    BY <1>1, <1>5 DEF Machine, Framed
  <2> QED
    BY <1>0, <1>5, <1>6, <2>1
<1>9. /\ Frame.base = caller.base + Height(program, caller) + Extra(calls, Frame.base)
      /\ ArityIn(program, caller) < Height(program, caller)
  <2>1. Linked(program, stack, frames, calls)
    BY <1>1 DEF Machine
  <2> QED
    BY <1>0, <1>5, <1>6, <2>1 DEF Linked
<1>10. Frame.base \in Nat \ {0}
  BY <1>2, <1>7, <1>8
<1>11. ASSUME NEW s, NEW cs,
              \A k \in 1..(Frame.base - 1) : s[k] = stack[k],
              \A b \in 1..(Frame.base - 1) : Extra(cs, b) = Extra(calls, b)
       PROVE  Linked(program, s, frs, cs)
  <2>1. \A k \in 1..Last(frs).base : k \in 1..(Frame.base - 1)
    BY <1>0, <1>2, <1>4, <1>7, <1>8
  <2>2. /\ \A k \in 1..Last(frs).base : s[k] = stack[k]
        /\ \A b \in 1..Last(frs).base : Extra(cs, b) = Extra(calls, b)
    BY <1>11, <2>1
  <2> QED
    BY <1>4, <2>2, LinkedAgain
<1>12. ASSUME NEW x, NEW j \in 2..n, frames[j].base = x, x # Frame.base
       PROVE  \E i \in 2..(n - 1) : frs[i].base = x
  <2>1. j # n
    BY <1>5, <1>12
  <2>2. j \in 2..(n - 1) /\ j \in 1..(n - 1)
    BY <1>5, <2>1
  <2> QED
    BY <1>4, <1>12, <2>2
<1>13. /\ Rest \in Seq(Seq(V)) /\ Len(Rest) = Frame.base - 1
       /\ \A k \in 1..(Frame.base - 1) : Rest[k] = stack[k]
  <2> DEFINE S == Seq(V)
             below == SubSeq(stack, 1, Frame.base)
             b == Frame.base
  <2>1. stack \in Seq(S) /\ b \in Nat \ {0} /\ b <= Len(stack)
    BY <1>1, <1>2, <1>10 DEF Machine
  <2> HIDE DEF S, b
  <2>2. /\ below \in Seq(S) /\ Len(below) = b /\ \A k \in 1..b : below[k] = stack[k]
    BY <2>1 DEF b
  <2>3. below # <<>> /\ Len(below) > 0
    BY <2>1, <2>2
  <2>4. Rest = Front(below)
    BY <2>3 DEF Rest
  <2> HIDE DEF below
  <2>5. /\ Front(below) \in Seq(S) /\ Len(Front(below)) = Len(below) - 1
        /\ \A k \in 1..(Len(below) - 1) : Front(below)[k] = below[k]
    BY <2>2, <2>3, Fronted
  <2>6. \A k \in 1..(b - 1) : k \in 1..b
    BY <2>1
  <2>7. /\ Rest \in Seq(S) /\ Len(Rest) = b - 1 /\ \A k \in 1..(b - 1) : Rest[k] = stack[k]
    BY <2>2, <2>4, <2>5, <2>6
  <2> QED
    BY <2>7 DEF S, b
<1>14. /\ \A s, cs :
             /\ \A k \in 1..(Frame.base - 1) : s[k] = stack[k]
             /\ \A b \in 1..(Frame.base - 1) : Extra(cs, b) = Extra(calls, b)
             => Linked(program, s, frs, cs)
       /\ \A x : (\E j \in 2..n : frames[j].base = x) /\ x # Frame.base
             => \E j \in 2..(n - 1) : frs[j].base = x
  BY <1>11, <1>12
<1>15. Returning(V, n, caller, frs)
  BY <1>4, <1>7, <1>8, <1>9, <1>10, <1>13, <1>14, <1>0 DEF Returning
<1> QED
  BY <1>0, <1>15 DEF Under

LEMMA ReturnOfMain ==
    ASSUME NEW V, Running(V), Return, Len(frames) = 1
    PROVE  Sound
<1>1. /\ Machine(program, V, stack, build, frames, calls) /\ Verified(Programs[program])
      /\ program \in DOMAIN Programs
  BY DEF Running
<1>2. Executes("Return") /\ ~ Native
  BY DEF Return, Executes
<1>3. /\ frames \in Seq(Placed(program)) /\ Frame = frames[1] /\ Frame.base = 0
      /\ Frame \in Placed(program)
  <2>1. frames \in Seq(Placed(program)) /\ frames[1].base = 0
    BY <1>1 DEF Machine, Framed
  <2>2. Frame = frames[Len(frames)] /\ Frame \in Placed(program)
    BY <1>1, TopFacts DEF Frame
  <2> QED
    BY <2>1, <2>2
<1>4. calls = <<>>
  <2>1. SUFFICES ASSUME calls # <<>> PROVE FALSE
    OBVIOUS
  <2>2. Len(calls) \in Nat \ {0} /\ Activation = calls[Len(calls)]
    BY <2>1, CallsLast
  <2>3. Activation.waiting # "nothing"
    BY <1>2, <2>1 DEF Native, Activation
  <2>4. \E j \in 2..Len(frames) : frames[j].base = Activation.base
    <3>1. \A k \in Nat \ {0} : k \in 1..k
      OBVIOUS
    <3> QED
      BY <1>1, <2>2, <2>3, <3>1, WaitFacts
  <2> QED
    BY <2>4
<1>5. Operand(1) \in Seq(V)
  <2>1. Used = 1
    BY <1>2, Fetched, UsedValues
  <2> QED
    BY <1>2, <2>1, OperandsAreValues
<1>6. /\ stack' = << Operand(1) >> /\ calls' = <<>> /\ frames' = Front(frames)
      /\ status' = "done" /\ program' = program /\ build' = build
  <2>1. SubSeq(stack, 1, Frame.base) = <<>>
    <3>1. stack \in Seq(Seq(V))
      BY <1>1 DEF Machine
    <3> QED
      BY <1>3, <3>1
  <2>2. StartBase = 0 /\ Append(<<>>, Operand(1)) = << Operand(1) >>
    BY <1>4 DEF StartBase
  <2> QED
    BY <1>3, <1>4, <2>1, <2>2 DEF Return
<1>7. frames' = <<>>
  <2>1. Front(frames) \in Seq(Placed(program)) /\ Len(Front(frames)) = 0
    <3>1. Len(frames) > 0
      OBVIOUS
    <3>2. Front(frames) \in Seq(Placed(program)) /\ Len(Front(frames)) = Len(frames) - 1
      BY <1>3, <3>1, Fronted
    <3> QED
      BY <3>2
  <2> QED
    BY <1>6, <2>1
<1>8. build = <<>>
  <2>1. Opened(program, Last(frames)) = 0
    <3>1. Instruction = CodeOf(program, Frame)[Frame.ip] /\ Instruction.op = "Return"
      BY <1>2, DepthFacts, Fetched
    <3> QED
      BY <1>1, <1>3, <3>1, PlacedFacts DEF Frame
  <2>2. Len(build) = 0
    <3>1. PICK o \in [DOMAIN frames -> Nat] :
              o[1] = 0 /\ Len(build) = o[Len(frames)] + Opened(program, Last(frames))
      BY <1>1 DEF Machine, Building
    <3> QED
      BY <2>1, <3>1
  <2>3. build \in Seq(Seq(V))
    BY <1>1 DEF Machine
  <2> QED
    BY <2>2, <2>3
<1>9. TypedState(program, stack', build', frames', calls')
  <2>1. Items(program, V) /\ stack' \in Seq(Seq(V)) /\ build' \in Seq(Seq(V))
    BY <1>1, <1>5, <1>6 DEF Machine
  <2>2. /\ \A i \in DOMAIN stack' : \A j \in DOMAIN stack'[i] : Shape(stack'[i][j])
        /\ \A i \in DOMAIN build' : \A j \in DOMAIN build'[i] : Shape(build'[i][j])
    BY <2>1, ValuesAreShaped
  <2>3. ToSet(frames') = {} /\ ToSet(calls') = {} /\ Len(frames') <= FramesMax
    BY <1>6, <1>7, FramesMaxAssumption DEF ToSet
  <2> QED
    BY <2>2, <2>3 DEF TypedState
<1>10. TypeOK'
  BY <1>1, <1>6, <1>9, NextTyped
<1>11. CleanEnd'
  BY <1>6, <1>7, <1>8 DEF CleanEnd
<1>12. IInv'
  BY <1>1, <1>6, <1>10, <1>11 DEF IInv
<1>13. Untouched
  BY <1>3 DEF Untouched
<1> QED
  BY <1>12, <1>13 DEF Sound

\* What has to hold of the stack and the activations where a function returns to.
LEMMA ReturnsTo ==
    ASSUME NEW V, Running(V), Executes("Return"), Len(frames) # 1, frames' = Front(frames),
           NEW s \in Seq(Seq(V)), stack' = s,
           \A k \in 1..(Frame.base - 1) : s[k] = stack[k],
           NEW cs, calls' = cs,
           \A b \in 1..(Frame.base - 1) : Extra(cs, b) = Extra(calls, b),
           Topped(program, s, frames', cs), Waiting(program, V, frames', cs),
           Frame.base - 1 <= Len(s),
           program' = program, build' = build, status' = status
    PROVE  Sound
<1>1. /\ Machine(program, V, stack, build, frames, calls) /\ Verified(Programs[program])
      /\ program \in DOMAIN Programs /\ status = "running"
  BY DEF Running
<1> DEFINE n == Len(frames)
           caller == frames[n - 1]
           frs == Front(frames)
<1>2. n = Len(frames) /\ caller = frames[n - 1] /\ frs = Front(frames) /\ n # 1 /\ frames' = frs
  OBVIOUS
<1> HIDE DEF n, caller, frs
<1>3. /\ Framed(program, frs) /\ Building(program, build, frs)
      /\ Frame.base \in Nat \ {0}
      /\ \A t, ds :
            /\ \A k \in 1..(Frame.base - 1) : t[k] = stack[k]
            /\ \A b \in 1..(Frame.base - 1) : Extra(ds, b) = Extra(calls, b)
            => Linked(program, t, frs, ds)
  BY <1>2, ReturnFacts DEF Returning
<1>4. Linked(program, s, frs, cs)
  BY <1>3
<1>5. Machine(program, V, s, build, frs, cs)
  BY <1>1, <1>2, <1>3, <1>4 DEF Machine
<1>6. IInv'
  BY <1>1, <1>2, <1>5 DEF IInv
<1>7. Untouched
  <2>1. DOMAIN s = 1..Len(s) /\ Len(s) \in Nat
    OBVIOUS
  <2>2. \A k \in 1..(Frame.base - 1) : k \in DOMAIN s
    BY <1>3, <2>1
  <2> QED
    BY <2>2 DEF Untouched
<1> QED
  BY <1>6, <1>7 DEF Sound

\* Return to code: no native code waits for this frame.
LEMMA ReturnToCode ==
    ASSUME NEW V, Running(V), Return, Len(frames) # 1, calls = <<>> \/ Frame.base # StartBase
    PROVE  Sound
<1>1. /\ Machine(program, V, stack, build, frames, calls) /\ Verified(Programs[program])
      /\ Executes("Return") /\ ~ Native
  BY DEF Running, Return, Executes
<1> DEFINE n == Len(frames)
           caller == frames[n - 1]
           frs == Front(frames)
           b == Frame.base
           v == Operand(1)
           S == Seq(V)
<1>2. n = Len(frames) /\ caller = frames[n - 1] /\ frs = Front(frames) /\ n # 1
  OBVIOUS
<1>3. v \in S
  <2>1. Used = 1
    BY <1>1, Fetched, UsedValues
  <2> QED
    BY <1>1, <2>1, OperandsAreValues
<1> HIDE DEF n, caller, frs, v
<1>4. /\ Last(frs) = caller /\ Len(frs) = n - 1
      /\ b \in Nat \ {0} /\ caller.base \in Nat /\ caller.base < b
      /\ Height(program, caller) \in Nat
      /\ b = caller.base + Height(program, caller) + Extra(calls, b)
      /\ ArityIn(program, caller) < Height(program, caller)
      /\ \A x : (\E j \in 2..n : frames[j].base = x) /\ x # b => \E j \in 2..(n - 1) : frs[j].base = x
      /\ Rest \in Seq(S) /\ Len(Rest) = b - 1
      /\ \A k \in 1..(b - 1) : Rest[k] = stack[k]
  <2>1. caller = Under
    BY <1>2 DEF Under
  <2> QED
    BY <1>1, <1>2, <2>1, ReturnFacts DEF Returning
<1>5. \A c \in DOMAIN calls : calls[c].waiting # "nothing" /\ calls[c].base < b
  <2>1. SUFFICES ASSUME NEW c \in DOMAIN calls
                 PROVE  calls[c].waiting # "nothing" /\ calls[c].base < b
    OBVIOUS
  <2>2. calls # <<>>
    OBVIOUS
  <2> DEFINE m == Len(calls)
  <2>3. m \in Nat \ {0} /\ Activation = calls[m] /\ DOMAIN calls = 1..m
    BY <2>2, CallsLast
  <2>4. calls[m].waiting # "nothing" /\ calls[m].base # b
    <3>1. Activation.waiting # "nothing"
      BY <1>1, <2>2 DEF Native, Activation
    <3>2. StartBase = Activation.base
      BY <2>2 DEF StartBase, Activation
    <3> QED
      BY <2>2, <2>3, <3>1, <3>2
  <2>5. calls[m].base \in Nat /\ calls[m].base <= b
    BY <1>1, <2>3, <2>4, ActivationsOnStack DEF Frame
  <2>6. CASE c = m
    BY <1>4, <2>4, <2>5, <2>6
  <2>7. CASE c # m
    <3>1. c \in 1..(m - 1)
      BY <2>3, <2>7
    <3>2. calls[c].waiting # "nothing" /\ calls[c].base \in Nat
      BY <2>2, <3>1, OthersWait
    <3>3. calls[c].base < calls[m].base
      <4>1. c \in 1..m /\ m \in 1..m /\ c < m
        BY <2>3, <3>1
      <4> QED
        BY <1>1, <2>4, <4>1, WaitFacts
    <3> QED
      BY <1>4, <2>5, <3>2, <3>3
  <2> QED
    BY <2>6, <2>7
<1>6. Extra(calls, b) = 0
  BY <1>4, <1>5 DEF Extra
<1> DEFINE s == Append(Rest, v)
<1>7. /\ stack' = s /\ calls' = calls /\ frames' = frs
      /\ program' = program /\ build' = build /\ status' = status
  <2>1. ~ (b = StartBase /\ calls # <<>>)
    OBVIOUS
  <2>2. ~ (b = StartBase /\ calls = <<>>)
    BY <1>4 DEF StartBase
  <2>3. /\ frames' = Front(frames) /\ program' = program /\ build' = build
        /\ stack' = IF b = StartBase /\ calls # <<>> THEN Rest ELSE Append(Rest, Operand(1))
        /\ calls' = IF b = StartBase /\ calls # <<>>
                    THEN WithActivation(Resume(Activation, Operand(1))) ELSE calls
        /\ status' = IF b = StartBase /\ calls = <<>> THEN "done" ELSE status
    BY DEF Return, Rest
  <2> HIDE DEF b
  <2> QED
    BY <1>2, <2>1, <2>2, <2>3 DEF v
<1> HIDE DEF b, S
<1>8. /\ s \in Seq(S) /\ Len(s) = b /\ \A k \in 1..(b - 1) : s[k] = stack[k]
  <2>1. /\ s \in Seq(S) /\ Len(s) = Len(Rest) + 1 /\ \A k \in 1..Len(Rest) : s[k] = Rest[k]
    BY <1>3, <1>4, Appended
  <2> QED
    BY <1>4, <2>1
<1> HIDE DEF s
<1>9. Topped(program, s, frames', calls)
  <2>1. ~ IsNative(calls)
    BY <1>1 DEF Native, IsNative
  <2>2. Len(s) = caller.base + Height(program, caller) - 0
    BY <1>4, <1>6, <1>8
  <2> QED
    BY <1>4, <1>7, <2>1, <2>2 DEF Topped
<1>10. Waiting(program, V, frames', calls)
  <2>1. \A c \in DOMAIN calls : \E j \in 2..Len(frs) : frs[j].base = calls[c].base
    <3>1. ASSUME NEW c \in DOMAIN calls PROVE \E j \in 2..(n - 1) : frs[j].base = calls[c].base
      <4>1. \E j \in 2..n : frames[j].base = calls[c].base
        <5>1. Waiting(program, V, frames, calls)
          BY <1>1 DEF Machine
        <5> QED
          BY <1>2, <1>5, <5>1 DEF Waiting
      <4>2. calls[c].base # b
        BY <1>4, <1>5
      <4> QED
        BY <1>4, <4>1, <4>2
    <3> QED
      BY <1>4, <3>1
  <2>2. Waiting(program, V, frames, calls)
    BY <1>1 DEF Machine
  <2> QED
    BY <1>7, <2>1, <2>2 DEF Waiting
<1>11. b - 1 <= Len(s)
  BY <1>4, <1>8
<1> QED
  BY <1>1, <1>2, <1>7, <1>8, <1>9, <1>10, <1>11, ReturnsTo DEF S, b

\* The native code takes the value of the call that it waited for.
LEMMA Resumes ==
    ASSUME NEW V, ActivationOf(program, V, Activation), NEW v \in Seq(V),
           NEW a, a = Resume(Activation, v)
    PROVE  ActivationOf(program, V, a) /\ a.waiting = "nothing" /\ a.kind = Activation.kind
<1>1. DOMAIN Activation = {"kind", "items", "i", "done", "action", "mode", "rule", "known",
                           "waiting", "base"}
  BY DEF ActivationOf
<1>2. CASE Activation.waiting = "body"
  <2>1. a = NextItem(Activation, v)
    BY <1>2 DEF Resume
  <2>2. /\ DOMAIN a = DOMAIN Activation /\ a.waiting = "nothing" /\ a.kind = Activation.kind
        /\ a.items = Activation.items /\ a.done = Activation.done \o v
        /\ a.action = Activation.action /\ a.mode = Activation.mode
        /\ a.i = Activation.i + 1 /\ a.rule = 1
    BY <1>1, <2>1 DEF NextItem
  <2>3. a.done \in Seq(V)
    BY <2>2, Joined DEF ActivationOf
  <2> QED
    BY <1>1, <2>2, <2>3 DEF ActivationOf
<1>3. CASE Activation.waiting # "body"
  <2> DEFINE holds == EffectiveBoolean(v) = TRUE
  <2>1. a = Answered(Activation, holds)
    BY <1>3 DEF Resume
  <2> HIDE DEF holds
  <2>2. /\ DOMAIN a = DOMAIN Activation /\ a.waiting = "nothing" /\ a.kind = Activation.kind
        /\ a.items = Activation.items /\ a.done = Activation.done
        /\ a.action = Activation.action /\ a.mode = Activation.mode
        /\ a.i = Activation.i /\ a.rule = Activation.rule
    BY <1>1, <2>1 DEF Answered
  <2> QED
    BY <1>1, <2>2 DEF ActivationOf
<1> QED
  BY <1>2, <1>3

\* Return to native code that waits for this frame.
LEMMA ReturnToNative ==
    ASSUME NEW V, Running(V), Return, Len(frames) # 1, calls # <<>>, Frame.base = StartBase
    PROVE  Sound
<1>1. /\ Machine(program, V, stack, build, frames, calls) /\ Verified(Programs[program])
      /\ Executes("Return") /\ ~ Native
  BY DEF Running, Return, Executes
<1> DEFINE n == Len(frames)
           caller == frames[n - 1]
           frs == Front(frames)
           b == Frame.base
           v == Operand(1)
           a == Resume(Activation, v)
           cs == WithActivation(a)
           m == Len(calls)
<1>2. n = Len(frames) /\ caller = frames[n - 1] /\ frs = Front(frames) /\ n # 1
  OBVIOUS
<1>3. v \in Seq(V)
  <2>1. Used = 1
    BY <1>1, Fetched, UsedValues
  <2> QED
    BY <1>1, <2>1, OperandsAreValues
<1> HIDE DEF n, caller, frs, v
<1>4. /\ Last(frs) = caller /\ Len(frs) = n - 1
      /\ b \in Nat \ {0} /\ caller.base \in Nat /\ caller.base < b
      /\ Height(program, caller) \in Nat
      /\ b = caller.base + Height(program, caller) + Extra(calls, b)
      /\ ArityIn(program, caller) < Height(program, caller)
      /\ \A x : (\E j \in 2..n : frames[j].base = x) /\ x # b => \E j \in 2..(n - 1) : frs[j].base = x
      /\ Rest \in Seq(Seq(V)) /\ Len(Rest) = b - 1
      /\ \A k \in 1..(b - 1) : Rest[k] = stack[k]
  <2>1. caller = Under
    BY <1>2 DEF Under
  <2> QED
    BY <1>1, <1>2, <2>1, ReturnFacts DEF Returning
<1>5. m \in Nat \ {0} /\ m = Len(calls) /\ Activation = calls[m] /\ DOMAIN calls = 1..m
  BY CallsLast
<1>6. Activation.waiting # "nothing" /\ Activation.base = b
  <2>1. Activation.waiting # "nothing"
    BY <1>1 DEF Native, Activation
  <2>2. StartBase = Activation.base
    BY DEF StartBase, Activation
  <2> QED
    BY <2>1, <2>2
<1>7. ActivationOf(program, V, Activation)
  BY <1>1, <1>5, ActivationsOnStack
<1>8. ActivationOf(program, V, a) /\ a.waiting = "nothing" /\ a.kind = Activation.kind
  <2>1. a = Resume(Activation, v)
    OBVIOUS
  <2> HIDE DEF a
  <2> QED
    BY <1>3, <1>7, <2>1, Resumes
<1> HIDE DEF a
<1>9. /\ stack' = Rest /\ calls' = cs /\ frames' = frs
      /\ program' = program /\ build' = build /\ status' = status
  <2>1. b = StartBase /\ calls # <<>>
    OBVIOUS
  <2>2. /\ frames' = Front(frames) /\ program' = program /\ build' = build
        /\ stack' = IF b = StartBase /\ calls # <<>> THEN Rest ELSE Append(Rest, Operand(1))
        /\ calls' = IF b = StartBase /\ calls # <<>>
                    THEN WithActivation(Resume(Activation, Operand(1))) ELSE calls
        /\ status' = IF b = StartBase /\ calls = <<>> THEN "done" ELSE status
    BY DEF Return, Rest
  <2> HIDE DEF b
  <2> QED
    BY <1>2, <2>1, <2>2 DEF v, a
<1>10. /\ \E A : cs \in Seq(A)
       /\ Len(cs) = m /\ DOMAIN cs = 1..m /\ Last(cs) = a /\ cs # <<>>
       /\ \A c \in 1..(m - 1) : cs[c] = calls[c]
       /\ cs[m] = a
  <2>1. cs = WithActivation(a) /\ m = Len(calls) /\ calls # <<>>
    OBVIOUS
  <2> HIDE DEF cs, m
  <2>2. /\ \E A : cs \in Seq(A)
        /\ Len(cs) = Len(calls) /\ DOMAIN cs = 1..Len(calls) /\ Last(cs) = a /\ cs # <<>>
        /\ \A c \in 1..(Len(calls) - 1) : cs[c] = calls[c]
        /\ cs[Len(calls)] = a
    BY <2>1, Replaced
  <2> QED
    BY <2>1, <2>2
<1> HIDE DEF cs, m
<1>11. /\ \A c \in 1..(m - 1) :
                 /\ ActivationOf(program, V, calls[c]) /\ calls[c].waiting # "nothing"
                 /\ \E j \in 2..n : frames[j].base = calls[c].base
                 /\ calls[c].base \in Nat
       /\ \A c \in 1..(m - 1) : \A d \in 1..(m - 1) : c < d => calls[c].base < calls[d].base
  BY <1>2, <1>5, OthersWait
<1>12. \A c \in 1..(m - 1) : calls[c].base < b /\ c \in 1..m
  <2>1. ASSUME NEW c \in 1..(m - 1) PROVE calls[c].base < calls[m].base /\ c \in 1..m
    <3>1. c \in 1..m /\ m \in 1..m /\ c < m
      BY <1>5
    <3>2. c \in 1..Len(calls) /\ m \in 1..Len(calls) /\ calls[m].waiting # "nothing"
      BY <1>5, <1>6, <3>1
    <3> QED
      BY <1>1, <3>1, <3>2, WaitFacts
  <2> QED
    BY <1>5, <1>6, <2>1
<1> HIDE DEF b
<1>13. \A c \in 1..m : c = m \/ c \in 1..(m - 1)
  BY <1>5
<1>14. \A x \in 1..(b - 1) : Extra(cs, x) = Extra(calls, x)
  <2>1. ASSUME NEW x \in 1..(b - 1), NEW c \in 1..m PROVE EachAt(cs[c], x) <=> EachAt(calls[c], x)
    <3>1. x # b
      BY <1>4
    <3>2. CASE c = m
      BY <1>5, <1>6, <1>8, <1>10, <3>1, <3>2 DEF EachAt
    <3>3. CASE c \in 1..(m - 1)
      BY <1>10, <3>3
    <3> QED
      BY <1>13, <3>2, <3>3
  <2>2. ASSUME NEW x \in 1..(b - 1)
        PROVE  (\E c \in DOMAIN cs : EachAt(cs[c], x)) <=> (\E c \in DOMAIN calls : EachAt(calls[c], x))
    BY <1>5, <1>10, <2>1
  <2> QED
    BY <2>2 DEF Extra, EachAt
<1>15. Extra(calls, b) = IF Activation.kind = "forEach" THEN 1 ELSE 0
  <2>1. \A c \in 1..(m - 1) : calls[c].base # b
    BY <1>4, <1>11, <1>12
  <2>2. m \in 1..m
    BY <1>5
  <2> QED
    BY <1>5, <1>6, <1>13, <2>1, <2>2 DEF Extra
<1>16. Topped(program, Rest, frs, cs)
  <2>1. IsNative(cs) /\ Last(cs).kind = Activation.kind
    BY <1>8, <1>10 DEF IsNative
  <2>2. Len(Rest) = caller.base + Height(program, caller)
                        - (IF Activation.kind = "apply" THEN 1 ELSE 0)
    <3>1. Activation.kind \in {"forEach", "apply"}
      BY <1>7 DEF ActivationOf
    <3>2. CASE Activation.kind = "forEach"
      BY <1>4, <1>15, <3>2
    <3>3. CASE Activation.kind = "apply"
      BY <1>4, <1>15, <3>3
    <3> QED
      BY <3>1, <3>2, <3>3
  <2> QED
    BY <1>4, <2>1, <2>2 DEF Topped
<1>17. Waiting(program, V, frs, cs)
  <2>1. ASSUME NEW c \in 1..(m - 1)
        PROVE  /\ ActivationOf(program, V, cs[c]) /\ cs[c].waiting # "nothing"
               /\ \E j \in 2..Len(frs) : frs[j].base = cs[c].base
    <3>1. cs[c] = calls[c] /\ calls[c].base # b
      BY <1>4, <1>10, <1>11, <1>12
    <3>2. \E j \in 2..(n - 1) : frs[j].base = calls[c].base
      BY <1>4, <1>11, <3>1
    <3> QED
      BY <1>4, <1>11, <3>1, <3>2
  <2>2. \A c \in 1..(m - 1) : \A d \in 1..(m - 1) : c < d => cs[c].base < cs[d].base
    BY <1>10, <1>11
  <2>3. PICK A : cs \in Seq(A)
    BY <1>10
  <2>4. m = Len(cs) /\ m > 0 /\ ActivationOf(program, V, cs[m]) /\ ~(cs[m].waiting # "nothing")
    BY <1>5, <1>8, <1>10
  <2> QED
    BY <2>1, <2>2, <2>3, <2>4, WaitsIfLast
<1>18. b - 1 <= Len(Rest)
  BY <1>4
<1>19. frames' = Front(frames) /\ Len(frames) # 1
  BY <1>2, <1>9
<1>20. Topped(program, Rest, frames', cs) /\ Waiting(program, V, frames', cs)
  BY <1>9, <1>16, <1>17
<1> QED
  BY <1>1, <1>4, <1>9, <1>14, <1>18, <1>19, <1>20, ReturnsTo DEF b

LEMMA ReturnIsSound ==
    ASSUME NEW V, Running(V), Return PROVE Sound
BY ReturnOfMain, ReturnToCode, ReturnToNative

LEMMA InvokeIsSound ==
    ASSUME NEW V, Running(V), PredicatesReturn, Invoke PROVE Sound
BY RefuseCallIsSound, CallInlineIsSound, CallPositionIsSound, CallErrorIsSound, CallRootIsSound,
   CallForEachIsSound, ApplyTemplatesIsSound, ReturnIsSound
   DEF Invoke

LEMMA NextIsSound ==
    ASSUME NEW V, Running(V), PredicatesReturn, Next PROVE Sound
BY ComputeIsSound, InvokeIsSound, HostIsSound DEF Next

-----------------------------------------------------------------------------
(* The machine, from its start on. *)

LEMMA HostItems ==
    ASSUME NEW p
    PROVE  Items(p, Atoms \cup ClosedItems(p))
<1> DEFINE V == Atoms \cup ClosedItems(p)
<1>1. ASSUME NEW x \in ClosedItems(p) PROVE x \in InlineItems(p, V)
  <2>1. PICK id \in DOMAIN Functions(p) :
            Functions(p)[id].closed = <<>> /\ x = [fn |-> id, vars |-> <<>>]
    BY DEF ClosedItems
  <2>2. <<>> \in Seq(Seq(V)) /\ Len(<<>>) = 0
    OBVIOUS
  <2>3. x \in [fn : DOMAIN Functions(p), vars : Seq(Seq(V))] /\ x.fn = id /\ x.vars = <<>>
    BY <2>1, <2>2
  <2> QED
    BY <2>1, <2>2, <2>3 DEF InlineItems
<1> QED
  BY <1>1 DEF Items

LEMMA StartIsSound ==
    ASSUME Init, Verified(Programs[program])
    PROVE  IInv
<1> DEFINE V == Atoms \cup ClosedItems(program)
           id == Programs[program].main
           f == [fn |-> id, ip |-> 1, base |-> 0]
<1>1. /\ program \in DOMAIN Programs /\ build = <<>> /\ frames = <<f>> /\ calls = <<>>
      /\ status = "running"
      /\ stack = << <<ContextItem>>, <<Integer(1)>>, <<Integer(1)>> >>
  BY Zenon DEF Init
<1>2. id \in DOMAIN Functions(program) /\ Functions(program)[id].arity = 3
  BY Zenon DEF Verified, CalledByHost, Functions
<1>3. /\ f \in Placed(program) /\ f.fn = id /\ f.base = 0
      /\ Height(program, f) = 3 /\ Opened(program, f) = 0
  <2>1. 0 \in Nat
    OBVIOUS
  <2> QED
    BY <1>2, <2>1, StartPlaced
<1>4. Items(program, V)
  BY HostItems
<1>5. stack \in Seq(Seq(V)) /\ Len(stack) = 3 /\ build \in Seq(Seq(V)) /\ Len(build) = 0
  <2>1. ContextItem \in V /\ Integer(1) \in V
    BY ContextItemAssumption DEF Atoms, Integer
  <2> HIDE DEF V
  <2>2. <<ContextItem>> \in Seq(V) /\ <<Integer(1)>> \in Seq(V)
    BY <2>1
  <2> DEFINE S == Seq(V)
             c == <<ContextItem>>
             one == <<Integer(1)>>
  <2>3. stack = <<c, one, one>> /\ c \in S /\ one \in S
    BY <1>1, <2>2
  <2> HIDE DEF S, c, one
  <2>4. stack \in Seq(S) /\ Len(stack) = 3 /\ build \in Seq(S) /\ Len(build) = 0
    BY <1>1, <2>3
  <2> QED
    BY <2>4 DEF S
<1> HIDE DEF f, V
<1>6. /\ frames \in Seq(Placed(program)) /\ Len(frames) = 1 /\ frames[1] = f /\ DOMAIN frames = 1..1
      /\ Last(frames) = f
  BY <1>1, <1>3 DEF Last
<1>7. Framed(program, frames)
  <2>1. Len(frames) \in 1..FramesMax
    BY <1>6, FramesMaxAssumption
  <2>2. \A i, j \in DOMAIN frames : ~(i < j)
    BY <1>6
  <2> QED
    BY <1>3, <1>6, <2>1, <2>2 DEF Framed
<1>8. Linked(program, stack, frames, calls)
  BY <1>6 DEF Linked
<1>9. Topped(program, stack, frames, calls)
  <2>1. ~ IsNative(calls)
    BY <1>1 DEF IsNative
  <2>2. Len(stack) = f.base + Height(program, f) - 0
    BY <1>3, <1>5
  <2> QED
    BY <1>6, <2>1, <2>2 DEF Topped
<1>10. Waiting(program, V, frames, calls)
  <2>1. calls \in Seq({}) /\ DOMAIN calls = {}
    BY <1>1
  <2> QED
    BY <2>1 DEF Waiting
<1>11. Building(program, build, frames)
  <2> DEFINE o == [j \in DOMAIN frames |-> 0]
  <2>1. o \in [DOMAIN frames -> Nat] /\ o[1] = 0
    BY <1>6
  <2>2. Len(build) = o[Len(frames)] + Opened(program, Last(frames))
    BY <1>3, <1>5, <1>6
  <2>3. 2..Len(frames) = {}
    BY <1>6
  <2> HIDE DEF o
  <2> QED
    BY <2>1, <2>2, <2>3 DEF Building
<1>12. Machine(program, V, stack, build, frames, calls)
  BY <1>4, <1>5, <1>7, <1>8, <1>9, <1>10, <1>11 DEF Machine
<1> QED
  BY <1>1, <1>12 DEF IInv

\* Nothing runs when the machine has stopped.
LEMMA OnlyRunningSteps ==
    ASSUME Next PROVE status = "running"
<1>1. CASE Compute
  BY <1>1 DEF Compute, PushConstant, PushVariable, PushClosureVariable, SetVariable, MakeClosure,
              MakeStaticClosure, Operate, OperateUnary, TakeStep, SortNodes, MeasureSequence,
              GetItem, TestKind, EndLet, Duplicate, Discard, Jump, Branch, BuildNew, BuildPush,
              BuildComplete, Executes
<1>2. CASE Invoke
  BY <1>2 DEF Invoke, RefuseCall, CallInline, CallPosition, CallError, CallRoot, CallForEach,
              CallsFunction, ApplyTemplates, Return, Executes
<1>3. CASE Host
  BY <1>3 DEF Host, ForEachItem, ForEachRoot, ForEachDone, TryPredicate, SkipRule, SomeRule,
              RunRule, NoRule, ApplyDone, Runs
<1> QED
  BY <1>1, <1>2, <1>3 DEF Next

LEMMA StepIsSound ==
    ASSUME IInv, PredicatesReturn, Next PROVE Sound
<1>1. status = "running"
  BY OnlyRunningSteps
<1>2. PICK V : Running(V)
  BY <1>1 DEF IInv, Running
<1> QED
  BY <1>2, NextIsSound

LEMMA StutterIsSound ==
    ASSUME IInv, UNCHANGED vars PROVE IInv'
<1>1. /\ program' = program /\ stack' = stack /\ build' = build /\ frames' = frames
      /\ calls' = calls /\ status' = status
  BY DEF vars
<1>2. TypeOK => TypeOK'
  BY <1>1 DEF TypeOK, Function
<1>3. CleanEnd => CleanEnd'
  BY <1>1 DEF CleanEnd
<1> QED
  BY <1>1, <1>2, <1>3 DEF IInv

LEMMA MachineIsSound ==
    Spec /\ Verified(Programs[program]) /\ [][PredicatesReturn]_vars => []IInv
<1>1. Init /\ Verified(Programs[program]) => IInv
  BY StartIsSound
<1>2. IInv /\ [Next]_vars /\ [PredicatesReturn]_vars => IInv'
  <2>1. ASSUME IInv, [Next]_vars, [PredicatesReturn]_vars PROVE IInv'
    <3>1. CASE UNCHANGED vars
      BY <2>1, <3>1, StutterIsSound
    <3>2. CASE Next /\ PredicatesReturn
      BY <2>1, <3>2, StepIsSound DEF Sound
    <3> QED
      BY <2>1, <3>1, <3>2
  <2> QED
    BY <2>1
<1> QED
  BY <1>1, <1>2, PTL DEF Spec

-----------------------------------------------------------------------------
(* Theorems. *)

\* On balanced code, as long as no pattern predicate swallows an error, the
\* machine stays well formed: what its stacks hold are values, every frame is
\* at an instruction of its function with its arguments on the stack, and
\* there are never more frames than FRAMES_MAX.
THEOREM MachineIsWellFormed ==
    Spec /\ Verified(Programs[program]) /\ [][PredicatesReturn]_vars => []TypeOK
<1>1. IInv => TypeOK
  <2>1. ASSUME IInv, status = "running" PROVE TypeOK
    <3>1. PICK V : Machine(program, V, stack, build, frames, calls)
      BY <2>1 DEF IInv
    <3>2. TypedState(program, stack, build, frames, calls)
      BY <2>1, <3>1, MachineIsTyped DEF IInv
    <3>3. \A f : Function(f.fn).code = CodeOf(program, f) /\ Function(f.fn).arity = ArityIn(program, f)
      BY DEF Function, CodeOf, ArityIn, Functions
    <3> QED
      BY <2>1, <3>2, <3>3 DEF TypeOK, TypedState, Functions, IInv
  <2> QED
    BY <2>1 DEF IInv
<1> QED
  BY <1>1, MachineIsSound, PTL

\* As long as no pattern predicate swallows an error, a function of balanced
\* code leaves exactly its result above its arguments,
\* whatever way it returns, and nothing is left when the machine is done: what
\* Return cuts away and what run_value asserts hides nothing.
THEOREM StacksStayBalanced ==
    Spec /\ Verified(Programs[program]) /\ [][PredicatesReturn]_vars => []StacksBalanced
<1>1. IInv => BalancedReturns
  <2>1. SUFFICES ASSUME IInv, Executes("Return")
                 PROVE  Len(stack) = Frame.base + Function(Frame.fn).arity + 1
    BY DEF BalancedReturns
  <2>2. PICK V : Running(V)
    BY <2>1 DEF IInv, Running, Executes
  <2>3. /\ ~ Native /\ Instruction.op = "Return" /\ Frame \in Placed(program)
        /\ Instruction = CodeOf(program, Frame)[Frame.ip]
        /\ Len(stack) = Frame.base + Height(program, Frame)
        /\ Frame.base \in Nat /\ ArityIn(program, Frame) \in Nat
    BY <2>1, <2>2, Fetched, DepthFacts
  <2>4. Verified(Programs[program])
    BY <2>1 DEF IInv
  <2>5. Height(program, Frame) = ArityIn(program, Frame) + 1
    BY <2>3, <2>4, PlacedFacts
  <2>6. ArityIn(program, Frame) = Function(Frame.fn).arity
    BY DEF ArityIn, Function, Functions
  <2> QED
    BY <2>3, <2>5, <2>6
<1>2. IInv => CleanEnd
  BY DEF IInv, CleanEnd
<1>3. IInv => StacksBalanced
  BY <1>1, <1>2 DEF StacksBalanced
<1> QED
  BY <1>3, MachineIsSound, PTL

\* As long as no pattern predicate swallows an error, on balanced code the
\* base of a frame tells it apart from all other frames, and every
\* activation of native code that waits has a frame of its own: a Return ends
\* the loop that it belongs to and no other.
THEOREM BasesTellRunsApart ==
    Spec /\ Verified(Programs[program]) /\ [][PredicatesReturn]_vars => []BasesIdentifyRuns
<1>1. IInv => BasesIdentifyRuns
  <2>1. SUFFICES ASSUME IInv, status = "running"
                 PROVE  /\ \A i, j \in DOMAIN frames : i < j => frames[i].base < frames[j].base
                        /\ \A i \in DOMAIN calls : calls[i].waiting # "nothing" =>
                              \E j \in 2..Len(frames) : frames[j].base = calls[i].base
                        /\ \A i, j \in DOMAIN calls :
                              i < j /\ calls[j].waiting # "nothing" => calls[i].base < calls[j].base
    BY DEF BasesIdentifyRuns
  <2>2. PICK V : Machine(program, V, stack, build, frames, calls)
    BY <2>1 DEF IInv
  <2>3. Framed(program, frames) /\ Waiting(program, V, frames, calls)
    BY <2>2 DEF Machine
  <2> QED
    BY <2>3 DEF Framed, Waiting
<1> QED
  BY <1>1, MachineIsSound, PTL

\* As long as no pattern predicate swallows an error, on balanced code no
\* instruction, call-back or return changes or removes what is on the stack
\* below the base of the function that runs.
THEOREM CallersStayUntouched ==
    Spec /\ Verified(Programs[program]) /\ [][PredicatesReturn]_vars => CallersUntouched
<1>1. IInv /\ [Next]_vars /\ [PredicatesReturn]_vars => [Untouched]_vars
  <2>1. ASSUME IInv, Next, PredicatesReturn PROVE Untouched
    BY <2>1, StepIsSound DEF Sound
  <2> QED
    BY <2>1
<1>2. [Untouched]_vars => [\A i \in 1..(Frame.base - 1) : i \in DOMAIN stack' /\ stack'[i] = stack[i]]_vars
  BY DEF Untouched
<1> QED
  BY <1>1, <1>2, MachineIsSound, PTL DEF Spec, CallersUntouched

-----------------------------------------------------------------------------
(* Programs whose patterns have no predicates: nothing can swallow an error. *)

NoPredicates(p) ==
    \A mode \in DOMAIN p.rules : \A i \in DOMAIN p.rules[mode] : DOMAIN p.rules[mode][i].preds = {}

\* An activation asks no predicate and has no answer of one.
Unasking(a) == a.waiting # "predicate" /\ a.known = << >>

Unasked == \A a \in ToSet(calls) : Unasking(a)

LEMMA ErrorsEscape ==
    ASSUME Unasked, NEW s, Raise(s) PROVE calls' = calls
<1>1. {i \in DOMAIN calls : calls[i].waiting = "predicate"} = {}
  BY DEF Unasked, Unasking, ToSet
<1> QED
  BY <1>1 DEF Raise, RaiseIn

LEMMA ComputeKeepsCalls ==
    ASSUME Unasked, Compute PROVE calls' = calls
<1>1. \A n, v : Gives(n, v) => calls' = calls
  BY ErrorsEscape DEF Gives, LeavesStack
<1>2. \A v : Push(v) => calls' = calls
  BY DEF Push, LeavesStack
<1>3. CASE \/ PushConstant \/ PushVariable \/ PushClosureVariable \/ Duplicate
  BY <1>2, <1>3 DEF PushConstant, PushVariable, PushClosureVariable, Duplicate
<1>4. CASE \/ MakeClosure \/ MakeStaticClosure \/ Operate \/ OperateUnary \/ TakeStep \/ SortNodes
           \/ MeasureSequence \/ GetItem \/ TestKind \/ EndLet
  BY <1>1, <1>4 DEF MakeClosure, MakeStaticClosure, Operate, OperateUnary, TakeStep, SortNodes,
                    MeasureSequence, GetItem, TestKind, EndLet
<1>5. CASE SetVariable \/ Discard \/ Jump \/ BuildNew \/ BuildPush \/ BuildComplete
  BY <1>5 DEF SetVariable, Discard, Jump, BuildNew, BuildPush, BuildComplete, Builds, LeavesStack
<1>6. CASE Branch
  <2>1. PICK b \in BOOLEAN :
            \/ Raise(Popped(1))
            \/ LeavesStack(Popped(1))
    BY <1>6 DEF Branch
  <2> QED
    BY <2>1, ErrorsEscape DEF LeavesStack
<1> QED
  BY <1>3, <1>4, <1>5, <1>6 DEF Compute

\* What can become of the activations.
LEMMA UnaskedAfter ==
    ASSUME IInv, status = "running", Unasked,
           \/ calls' = calls
           \/ \E a : Unasking(a) /\ calls' = Append(calls, a)
           \/ calls # <<>> /\ calls' = Front(calls)
           \/ calls # <<>> /\ \E a : Unasking(a) /\ calls' = WithActivation(a)
    PROVE  Unasked'
<1>1. PICK A : calls \in Seq(A)
  <2>1. PICK V : Machine(program, V, stack, build, frames, calls)
    BY DEF IInv
  <2> QED
    BY <2>1 DEF Machine, Waiting
<1>2. \A i \in 1..Len(calls) : Unasking(calls[i])
  BY <1>1 DEF Unasked, ToSet
<1>3. CASE calls' = calls
  BY <1>3 DEF Unasked
<1>4. ASSUME NEW a, Unasking(a), calls' = Append(calls, a) PROVE Unasked'
  <2> DEFINE B == A \cup {a}
  <2>1. calls \in Seq(B) /\ a \in B
    BY <1>1
  <2> HIDE DEF B
  <2>2. /\ calls' \in Seq(B) /\ Len(calls') = Len(calls) + 1 /\ Len(calls) \in Nat
        /\ \A k \in 1..Len(calls) : calls'[k] = calls[k]
        /\ calls'[Len(calls) + 1] = a
    BY <1>4, <2>1, Appended
  <2>3. \A i \in DOMAIN calls' : Unasking(calls'[i])
    <3>1. ASSUME NEW i \in DOMAIN calls' PROVE i = Len(calls) + 1 \/ i \in 1..Len(calls)
      BY <2>2
    <3> QED
      BY <1>2, <1>4, <2>2, <3>1
  <2> QED
    BY <2>3 DEF Unasked, ToSet
<1>5. CASE calls # <<>>
  <2>1. Len(calls) > 0
    BY <1>1, <1>5
  <2> DEFINE front == Front(calls)
  <2>2. /\ front \in Seq(A) /\ Len(front) = Len(calls) - 1 /\ Len(calls) \in Nat
        /\ \A c \in 1..(Len(calls) - 1) : front[c] = calls[c]
    BY <1>1, <2>1, Fronted
  <2> HIDE DEF front
  <2>3. \A i \in 1..Len(front) : Unasking(front[i])
    BY <1>2, <2>2
  <2>4. CASE calls' = front
    BY <2>2, <2>3, <2>4 DEF Unasked, ToSet
  <2>5. ASSUME NEW a, Unasking(a), calls' = WithActivation(a) PROVE Unasked'
    <3> DEFINE B == A \cup {a}
    <3>1. front \in Seq(B) /\ a \in B /\ calls' = Append(front, a)
      BY <2>2, <2>5 DEF WithActivation, front
    <3> HIDE DEF B
    <3>2. /\ calls' \in Seq(B) /\ Len(calls') = Len(front) + 1 /\ Len(front) \in Nat
          /\ \A k \in 1..Len(front) : calls'[k] = front[k]
          /\ calls'[Len(front) + 1] = a
      BY <3>1, Appended
    <3>3. \A i \in DOMAIN calls' : Unasking(calls'[i])
      <4>1. ASSUME NEW i \in DOMAIN calls' PROVE i = Len(front) + 1 \/ i \in 1..Len(front)
        BY <3>2
      <4> QED
        BY <2>3, <2>5, <3>2, <4>1
    <3> QED
      BY <3>3 DEF Unasked, ToSet
  <2> QED
    BY <1>3, <1>4, <2>4, <2>5 DEF front
<1> QED
  BY <1>3, <1>4, <1>5

LEMMA InvokeKeepsUnasked ==
    ASSUME IInv, status = "running", Unasked, Invoke PROVE Unasked'
<1>1. CASE RefuseCall \/ CallInline \/ CallPosition \/ CallError \/ CallRoot
  <2>1. calls' = calls
    BY <1>1, ErrorsEscape DEF RefuseCall, CallInline, CallPosition, CallError, CallRoot, Gives, LeavesStack
  <2> QED
    BY <2>1, UnaskedAfter
<1>2. CASE CallForEach
  <2>1. CASE Raise(stack)
    BY <2>1, ErrorsEscape, UnaskedAfter
  <2>2. CASE ~ Raise(stack)
    <3> DEFINE a == Begun("forEach", Operand(2), Operand(1), "")
    <3>1. calls' = Append(calls, a)
      BY <1>2, <2>2 DEF CallForEach, Begun
    <3>2. Unasking(a)
      BY DEF Unasking, Begun
    <3> QED
      BY <3>1, <3>2, UnaskedAfter
  <2> QED
    BY <2>1, <2>2
<1>3. CASE ApplyTemplates
  <2> DEFINE a == Begun("apply", Operand(1), <<>>, Instruction.arg)
  <2>1. calls' = Append(calls, a)
    BY <1>3 DEF ApplyTemplates, Begun
  <2>2. Unasking(a)
    BY DEF Unasking, Begun
  <2> QED
    BY <2>1, <2>2, UnaskedAfter
<1>4. CASE Return
  <2>1. CASE calls' = calls
    BY <2>1, UnaskedAfter
  <2>2. CASE calls' # calls
    <3> DEFINE a == Resume(Activation, Operand(1))
    <3>1. calls # <<>> /\ calls' = WithActivation(a) /\ ~ Native
      BY <1>4, <2>2 DEF Return, Executes
    <3>2. Activation.waiting = "body"
      <4>1. PICK V : Running(V)
        BY DEF IInv, Running
      <4>2. Len(calls) \in Nat \ {0} /\ Activation = calls[Len(calls)] /\ DOMAIN calls = 1..Len(calls)
        BY <3>1, <4>1, CallsLast
      <4>3. Len(calls) \in DOMAIN calls
        BY <4>2
      <4>4. Unasking(Activation)
        BY <4>2, <4>3 DEF Unasked, ToSet
      <4>5. Activation.waiting \in {"nothing", "body", "predicate"}
        BY <4>1, <4>2, <4>3, ActivationsOnStack DEF Running, ActivationOf
      <4> QED
        BY <3>1, <4>4, <4>5 DEF Unasking, Native, Activation
    <3>3. PICK V : ActivationOf(program, V, Activation)
      <4>1. PICK V : Running(V)
        BY DEF IInv, Running
      <4>2. Len(calls) \in Nat \ {0} /\ Activation = calls[Len(calls)] /\ DOMAIN calls = 1..Len(calls)
        BY <3>1, <4>1, CallsLast
      <4>3. Len(calls) \in DOMAIN calls
        BY <4>2
      <4> QED
        BY <4>1, <4>2, <4>3, ActivationsOnStack DEF Running
    <3>4. Unasking(a)
      BY <3>2, <3>3 DEF Resume, NextItem, Unasking, ActivationOf
    <3> QED
      BY <3>1, <3>4, UnaskedAfter
  <2> QED
    BY <2>1, <2>2
<1> QED
  BY <1>1, <1>2, <1>3, <1>4 DEF Invoke

LEMMA NextKeepsProgram ==
    ASSUME Next PROVE program' = program
<1>0. /\ \A cs, s : RaiseIn(cs, s) => program' = program
      /\ \A s : LeavesStack(s) => program' = program
  BY DEF RaiseIn, LeavesStack
<1>1. \A s : Raise(s) => program' = program
  BY <1>0 DEF Raise
<1>2. \A n, v : Gives(n, v) => program' = program
  BY <1>0, <1>1 DEF Gives
<1>3. \A v : Push(v) => program' = program
  BY <1>0 DEF Push
<1>4. ASSUME NEW what, NEW function, NEW args, CallBack(what, function, args)
      PROVE  program' = program
  <2> DEFINE s == stack \o <<function>> \o args
             cs == WithActivation([Activation EXCEPT !.waiting = what,
                                                     !.base = NewFrame(function[1].fn, s).base])
  <2>1. IF Len(frames) < FramesMax THEN program' = program ELSE RaiseIn(cs, s)
    BY <1>4 DEF CallBack
  <2> HIDE DEF s, cs
  <2> QED
    BY <1>0, <2>1
<1>5. CASE Compute
  <2>1. CASE PushConstant \/ PushVariable \/ PushClosureVariable \/ Duplicate
    BY <1>3, <2>1 DEF PushConstant, PushVariable, PushClosureVariable, Duplicate
  <2>2. CASE \/ MakeClosure \/ MakeStaticClosure \/ Operate \/ OperateUnary \/ TakeStep
             \/ SortNodes \/ MeasureSequence \/ GetItem \/ TestKind \/ EndLet
    BY <1>2, <2>2 DEF MakeClosure, MakeStaticClosure, Operate, OperateUnary, TakeStep, SortNodes,
                      MeasureSequence, GetItem, TestKind, EndLet
  <2>3. CASE SetVariable \/ Discard \/ Jump \/ BuildNew \/ BuildPush \/ BuildComplete
    BY <2>3 DEF SetVariable, Discard, Jump, BuildNew, BuildPush, BuildComplete, Builds, LeavesStack
  <2>4. CASE Branch
    <3>1. Raise(Popped(1)) \/ LeavesStack(Popped(1))
      BY <2>4 DEF Branch
    <3> QED
      BY <1>1, <3>1 DEF LeavesStack
  <2> QED
    BY <1>5, <2>1, <2>2, <2>3, <2>4 DEF Compute
<1>6. CASE Invoke
  <2>1. CASE RefuseCall \/ CallPosition \/ CallError \/ CallRoot \/ CallForEach
    BY <1>1, <1>2, <2>1 DEF RefuseCall, CallPosition, CallError, CallRoot, CallForEach
  <2>2. CASE CallInline
    BY <1>1, <2>2 DEF CallInline
  <2>3. CASE ApplyTemplates \/ Return
    BY <2>3 DEF ApplyTemplates, Return
  <2> QED
    BY <1>6, <2>1, <2>2, <2>3 DEF Invoke
<1>7. CASE Host
  <2>1. CASE ForEachItem \/ TryPredicate \/ RunRule
    BY <1>4, <2>1 DEF ForEachItem, TryPredicate, RunRule
  <2>2. CASE ForEachRoot \/ ForEachDone \/ SkipRule \/ NoRule \/ ApplyDone
    BY <1>1, <2>2 DEF ForEachRoot, ForEachDone, SkipRule, NoRule, ApplyDone
  <2> QED
    BY <1>7, <2>1, <2>2 DEF Host
<1> QED
  BY <1>5, <1>6, <1>7 DEF Next

LEMMA CallBackKeepsUnasked ==
    ASSUME NEW V, Running(V), Native, Unasked, NEW function, NEW args,
           CallBack("body", function, args)
    PROVE  \E a : Unasking(a) /\ calls' = WithActivation(a)
<1> DEFINE s == stack \o <<function>> \o args
           b == NewFrame(function[1].fn, s).base
           a == [Activation EXCEPT !.waiting = "body", !.base = b]
           cs == WithActivation(a)
<1>1. IF Len(frames) < FramesMax THEN calls' = cs ELSE RaiseIn(cs, s)
  BY DEF CallBack
<1> HIDE DEF b, s
<1>2. /\ Len(calls) \in Nat \ {0} /\ Activation = calls[Len(calls)] /\ DOMAIN calls = 1..Len(calls)
      /\ ActivationOf(program, V, Activation)
  BY CallsLast, NativeFacts DEF Native
<1>3. Unasking(a)
  <2>1. Unasking(Activation)
    <3>1. Len(calls) \in DOMAIN calls
      BY <1>2
    <3> QED
      BY <1>2, <3>1 DEF Unasked, ToSet
  <2>2. a.waiting = "body" /\ a.known = Activation.known
    BY <1>2 DEF ActivationOf
  <2> QED
    BY <2>1, <2>2 DEF Unasking
<1> HIDE DEF a
<1>4. /\ DOMAIN cs = 1..Len(calls) /\ \A c \in 1..(Len(calls) - 1) : cs[c] = calls[c]
      /\ cs[Len(calls)] = a
  <2>1. cs = WithActivation(a) /\ calls # <<>>
    BY DEF Native
  <2> HIDE DEF cs
  <2>2. /\ \E A : cs \in Seq(A)
        /\ Len(cs) = Len(calls) /\ DOMAIN cs = 1..Len(calls) /\ Last(cs) = a /\ cs # <<>>
        /\ \A c \in 1..(Len(calls) - 1) : cs[c] = calls[c]
        /\ cs[Len(calls)] = a
    BY <2>1, Replaced
  <2> QED
    BY <2>2
<1> HIDE DEF cs
<1>5. \A c \in DOMAIN cs : cs[c].waiting # "predicate"
  <2> DEFINE m == Len(calls)
  <2>0. m \in Nat \ {0} /\ DOMAIN calls = 1..m
    BY <1>2
  <2> HIDE DEF m
  <2>1. \A c \in 1..m : c = m \/ c \in 1..(m - 1)
    BY <2>0
  <2>2. \A c \in 1..(m - 1) : c \in DOMAIN calls
    BY <2>0
  <2> QED
    BY <1>3, <1>4, <2>1, <2>2 DEF m, Unasked, ToSet, Unasking
<1>6. calls' = cs
  <2>1. {i \in DOMAIN cs : cs[i].waiting = "predicate"} = {}
    BY <1>5
  <2> QED
    BY <1>1, <2>1 DEF RaiseIn
<1> QED
  BY <1>3, <1>6 DEF cs

LEMMA HostKeepsUnasked ==
    ASSUME IInv, status = "running", NoPredicates(Programs[program]), Unasked, Host
    PROVE  Unasked'
<1>1. PICK V : Running(V)
  BY DEF IInv, Running
<1>2. Native /\ calls # <<>>
  BY DEF Host, ForEachItem, ForEachRoot, ForEachDone, TryPredicate, SkipRule, SomeRule,
         RunRule, NoRule, ApplyDone, Runs, Native
<1>3. ActivationOf(program, V, Activation) /\ Activation.waiting = "nothing"
  BY <1>1, <1>2, NativeFacts
<1>4. CASE ForEachItem \/ RunRule
  <2>1. PICK function, args : CallBack("body", function, args)
    BY <1>4 DEF ForEachItem, RunRule
  <2>2. \E a : Unasking(a) /\ calls' = WithActivation(a)
    BY <1>1, <1>2, <2>1, CallBackKeepsUnasked
  <2> QED
    BY <1>2, <2>2, UnaskedAfter
<1>5. ASSUME NEW v PROVE Unasking(NextItem(Activation, v))
  BY <1>3 DEF NextItem, Unasking, ActivationOf
<1>6. CASE ForEachRoot \/ NoRule
  <2>1. \/ \E s : Raise(s)
        \/ \E v : calls' = WithActivation(NextItem(Activation, v))
    BY <1>6 DEF ForEachRoot, NoRule
  <2>2. CASE \E s : Raise(s)
    BY <2>2, ErrorsEscape, UnaskedAfter
  <2>3. CASE \E v : calls' = WithActivation(NextItem(Activation, v))
    BY <1>2, <1>5, <2>3, UnaskedAfter
  <2> QED
    BY <2>1, <2>2, <2>3
<1>7. CASE ForEachDone \/ ApplyDone
  BY <1>2, <1>7, UnaskedAfter DEF ForEachDone, ApplyDone
<1>8. CASE SkipRule
  <2> DEFINE a == [Activation EXCEPT !.rule = @ + 1, !.known = << >>]
  <2>1. Unasking(a)
    BY <1>3 DEF Unasking, ActivationOf
  <2>2. calls' = WithActivation(a)
    BY <1>8 DEF SkipRule
  <2> QED
    BY <1>2, <2>1, <2>2, UnaskedAfter
<1>9. CASE TryPredicate
  <2>1. SomeRule /\ \E pred : pred \in DOMAIN Rule.preds
    BY <1>9 DEF TryPredicate
  <2>2. /\ Activation.mode \in DOMAIN Programs[program].rules
        /\ Activation.rule \in DOMAIN Programs[program].rules[Activation.mode]
        /\ Rule = Programs[program].rules[Activation.mode][Activation.rule]
    <3>1. Activation.kind = "apply" /\ Activation.rule <= Len(Rules(Activation.mode))
      BY <2>1 DEF SomeRule, Runs, Activation
    <3>2. Activation.mode \in DOMAIN Programs[program].rules /\ Activation.rule \in Nat \ {0}
      BY <1>3, <3>1 DEF ActivationOf
    <3>3. IsSequence(Rules(Activation.mode))
      BY <1>1, <3>2 DEF Running, Verified, Rules
    <3> QED
      BY <3>1, <3>2, <3>3 DEF IsSequence, Rule, Rules
  <2> QED
    BY <2>1, <2>2 DEF NoPredicates
<1> QED
  BY <1>4, <1>6, <1>7, <1>8, <1>9 DEF Host

LEMMA UnaskedIsKept ==
    ASSUME IInv, NoPredicates(Programs[program]), Unasked, Next
    PROVE  Unasked' /\ PredicatesReturn
<1>1. status = "running"
  BY OnlyRunningSteps
<1>2. Unasked'
  BY <1>1, ComputeKeepsCalls, UnaskedAfter, InvokeKeepsUnasked, HostKeepsUnasked DEF Next
<1> QED
  BY <1>2 DEF Unasked, Unasking, PredicatesReturn

\* Without predicates in the patterns there is nothing to assume of the
\* behaviour: all of it holds of every program of balanced code.
THEOREM MachineWithoutPredicates ==
    Spec /\ Verified(Programs[program]) /\ NoPredicates(Programs[program])
        => [](TypeOK /\ StacksBalanced /\ BasesIdentifyRuns) /\ CallersUntouched
<1> DEFINE Quiet == IInv /\ Unasked /\ NoPredicates(Programs[program])
<1>1. Init /\ Verified(Programs[program]) /\ NoPredicates(Programs[program]) => Quiet
  <2>1. Init => Unasked
    BY DEF Init, Unasked, ToSet
  <2> QED
    BY <2>1, StartIsSound
<1>2. Quiet /\ [Next]_vars => Quiet' /\ [PredicatesReturn]_vars
  <2>1. ASSUME Quiet, Next PROVE Quiet' /\ PredicatesReturn
    <3>1. Unasked' /\ PredicatesReturn
      BY <2>1, UnaskedIsKept
    <3>2. IInv'
      BY <2>1, <3>1, StepIsSound DEF Sound
    <3>3. program' = program
      <4>1. PICK V : Running(V)
        BY <2>1, OnlyRunningSteps DEF IInv, Running
      <4> QED
        BY <2>1, NextKeepsProgram
    <3> QED
      BY <2>1, <3>1, <3>2, <3>3
  <2>2. ASSUME Quiet, UNCHANGED vars PROVE Quiet'
    <3>1. Unasked' /\ program' = program
      BY <2>2 DEF vars, Unasked
    <3> QED
      BY <2>2, <3>1, StutterIsSound
  <2> QED
    BY <2>1, <2>2
<1>3. Spec /\ Verified(Programs[program]) /\ NoPredicates(Programs[program])
          => [][PredicatesReturn]_vars
  <2>1. Quiet /\ [Next]_vars => Quiet'
    BY <1>2
  <2>2. Quiet /\ [Next]_vars => [PredicatesReturn]_vars
    BY <1>2
  <2> HIDE DEF Quiet
  <2> QED
    BY <1>1, <2>1, <2>2, PTL DEF Spec
<1> QED
  BY <1>3, MachineIsWellFormed, StacksStayBalanced, BasesTellRunsApart, CallersStayUntouched, PTL
===============================================================================
