---------------------------- MODULE Documents_proofs ----------------------------
(***************************************************************************)
(* What a program that builds elements can rely on, for collections and    *)
(* programs of every size: the tables of the collection agree, documents   *)
(* stay as they are, a node keeps the order it was given, and the orders   *)
(* agree with the trees.                                                   *)
(*                                                                         *)
(* The argument follows the trees through one instruction.  Every change   *)
(* is a fresh node that comes alive or a node without a parent that is     *)
(* appended; what an instruction appends to is an open element or a node   *)
(* that it made itself.  So nothing changes below a node that is not open  *)
(* but that texts outside every tree may be merged away: two nodes of one  *)
(* tree that is not open keep their place to each other.                   *)
(***************************************************************************)
EXTENDS DocumentContracts, DocumentOrder_proofs, XotTexts_proofs

-----------------------------------------------------------------------------
(* One node is appended. *)

\* What appending c, which has no parent, to q can change.
Changes(t, u, q, c) ==
    /\ Good(u) /\ Ordered(u) /\ Fit(u)
    /\ \A x \in Node : x # q => u.kids[x] = t.kids[x]
    /\ \A x \in Node : x # c => u.parent[x] = t.parent[x] /\ u.phase[x] = t.phase[x]
    /\ u.phase[c] = "live" \/ (c \in Texts /\ u.phase[c] = "removed")
    /\ \A x \in Node : x \notin Texts \cup Abnormal \/ (x # c /\ t.parent[x] # q) =>
          u.value[x] = t.value[x]

\* The kinds of nodes, as the operations tell them apart.
LEMMA KindsApart ==
    /\ Container \subseteq Node /\ Texts \subseteq Node /\ Abnormal \subseteq Node
    /\ Elements \subseteq Container /\ Documents \subseteq Container
    /\ Container \cap Texts = {} /\ Container \cap Abnormal = {} /\ Texts \cap Abnormal = {}
    /\ Elements \cap Documents = {} /\ NoNode \notin Node
    /\ Abnormal = Attributes \cup Namespaces /\ Abnormal \cap Normal = {}
    /\ Normal \subseteq Node /\ Node = Normal \cup Abnormal
  BY KindsAreDisjoint, NoNodeIsNoNode DEF Container, Node, Normal, Abnormal

\* An entry of an element with the value of c, or c put among the entries.
LEMMA EntryChanges ==
    ASSUME NEW t, Good(t), Ordered(t), Fit(t), NEW q \in Elements, NEW K \in Maps,
           NEW c \in K, t.parent[c] = NoNode, Live(t, c), Live(t, q)
    PROVE  Changes(t, InsertNode(t, q, K, c).tree, q, c)
<1>1. q \in Node /\ c \in Node /\ c \in Abnormal /\ c # q /\ K \subseteq Abnormal
  BY KindsApart DEF Maps
<1> DEFINE old == GetNode(t, q, K, NameOf[c])
           u == InsertNode(t, q, K, c).tree
<1>2. Good(u) /\ Ordered(u) /\ Fit(u)
  BY <1>1, InsertNodeMoves, InsertOrderedEntry, InsertEntryFit DEF Moved
<1>3. CASE old # NoNode
  <2>1. u = [t EXCEPT !.value[old] = t.value[c]]
    BY <1>3 DEF InsertNode, Ok
  <2>2. old \in K /\ t.parent[old] = q
    <3>1. old \in K
      BY <1>1, <1>3, GetNodeInMap
    <3>2. \E i \in DOMAIN MapNodes(t, q, K) : old = MapNodes(t, q, K)[i]
      BY <1>1, <1>3, GetNodeFinds
    <3> QED
      BY <1>1, <3>1, <3>2, MapNodesListed
  <2>3. u.kids = t.kids /\ u.parent = t.parent /\ u.phase = t.phase
        /\ \A x \in Node : x # old => u.value[x] = t.value[x]
    BY <2>1 DEF Good, Tree
  <2> QED
    BY <1>1, <1>2, <2>2, <2>3 DEF Changes, Live
<1>4. CASE old = NoNode
  <2>1. \A x \in Range(t.kids[q]) \cap K : NameOf[x] # NameOf[c]
    BY <1>1, <1>4, NameUnused
  <2>2. u = Link(Unlink(t, c), q, MapEnd(t, q, K), c)
    BY <1>4, <2>1, PlaceEntryPuts DEF InsertNode, Ok
  <2>3. Unlink(t, c) = t
    BY <1>1, LooseLeaves
  <2>4. /\ u.phase = t.phase /\ u.value = t.value
        /\ \A x \in Node : x # q => u.kids[x] = t.kids[x]
        /\ \A x \in Node : x # c => u.parent[x] = t.parent[x]
    BY <2>2, <2>3 DEF Link, Good, Tree
  <2> QED
    BY <1>2, <2>4 DEF Changes, Live
<1> QED
  BY <1>3, <1>4

\* A normal node comes to stand last, or its text becomes the end of the last.
LEMMA NodeChanges ==
    ASSUME NEW t, Good(t), Ordered(t), Fit(t), NEW q \in Node, NEW c \in Node,
           t.parent[c] = NoNode, Live(t, c), Live(t, q)
    PROVE  Changes(t, AppendNode(t, q, c).tree, q, c)
<1> DEFINE u == AppendNode(t, q, c).tree
           a == AddConsolidate(t, c, LastChild(t, q), NoNode)
<1>1. Good(u) /\ Ordered(u) /\ Fit(u)
  BY AppendNodeMoves, AppendNodeOrdered, AppendNodeFit DEF Moved
<1>2. CASE u = t
  BY <1>1, <1>2 DEF Changes, Live
<1>3. Unlink(t, c) = t /\ LeaveNeighbours(t, c) = t
  BY LooseLeaves
<1>4. CASE MayBeChild(q, c) /\ a.merged
  <2> DEFINE last == LastChild(t, q)
             b == [t EXCEPT !.value[last] = t.value[last] \o t.value[c]]
  <2>1. c \in Texts /\ last \in Texts /\ a.tree = Absorb(t, last, t.value[last] \o t.value[c], c)
    BY <1>4, KindsApart DEF AddConsolidate
  <2>2. u = a.tree
    BY <1>3, <1>4 DEF AppendNode, Ok
  <2>3. last \in Node /\ t.parent[last] = q /\ last # NoNode
    BY <2>1, KindsApart, EndsListed
  <2>4. u = [b EXCEPT !.phase[c] = "removed", !.value[c] = <<>>]
    <3>1. b.parent[c] = NoNode
      OBVIOUS
    <3> QED
      BY <2>1, <2>2, <3>1 DEF Absorb, Free, Unlink
  <2>5. /\ u.kids = t.kids /\ u.parent = t.parent
        /\ u.phase = [t.phase EXCEPT ![c] = "removed"]
        /\ \A x \in Node : x # c /\ x # last => u.value[x] = t.value[x]
    BY <2>4 DEF Good, Tree
  <2> QED
    BY <1>1, <2>1, <2>3, <2>5 DEF Changes, Good, Tree
<1>5. CASE MayBeChild(q, c) /\ ~a.merged
  <2>1. u = CheckedAppend(t, q, c).tree
    BY <1>3, <1>5 DEF AppendNode
  <2>2. u = t \/ u = Link(t, q, Len(t.kids[q]), c)
    BY <1>3, <2>1 DEF CheckedAppend, Ok, Err
  <2>3. CASE u = Link(t, q, Len(t.kids[q]), c)
    <3>1. /\ u.phase = t.phase /\ u.value = t.value
          /\ \A x \in Node : x # q => u.kids[x] = t.kids[x]
          /\ \A x \in Node : x # c => u.parent[x] = t.parent[x]
      BY <2>3 DEF Link, Good, Tree
    <3> QED
      BY <1>1, <3>1 DEF Changes, Live
  <2> QED
    BY <1>2, <2>2, <2>3
<1>6. CASE ~MayBeChild(q, c)
  BY <1>2, <1>6 DEF AppendNode, Err
<1> QED
  BY <1>4, <1>5, <1>6

\* Whatever c is, and where nothing can be appended nothing changes.
LEMMA AppendChanges ==
    ASSUME NEW t, Good(t), Ordered(t), Fit(t), NEW q \in Node \cup {NoNode}, NEW c \in Node,
           t.parent[c] = NoNode, Live(t, c), q \in Container => Live(t, q)
    PROVE  /\ Changes(t, AnyAppend(t, q, c).tree, q, c)
           /\ q \notin Container => AnyAppend(t, q, c).tree = t
<1>1. q \notin Container => AnyAppend(t, q, c).tree = t
  BY KindsApart DEF AnyAppend, AppendEntryNode, AppendNode, MayBeChild, Err
<1>2. CASE q \notin Container
  BY <1>1, <1>2 DEF Changes, Live
<1>3. CASE q \in Container
  <2>1. q \in Node /\ Live(t, q)
    BY <1>3, KindsApart
  <2>2. ASSUME NEW K \in Maps, c \in K
        PROVE  Changes(t, AppendEntryNode(t, q, K, c).tree, q, c)
    <3>1. CASE q \in Elements
      BY <2>1, <2>2, <3>1, EntryChanges DEF AppendEntryNode
    <3>2. CASE q \notin Elements
      BY <3>2 DEF AppendEntryNode, Err, Changes, Live
    <3> QED
      BY <3>1, <3>2
  <2>3. Changes(t, AppendNode(t, q, c).tree, q, c)
    BY <2>1, NodeChanges
  <2> QED
    BY <1>1, <1>3, <2>2, <2>3 DEF AnyAppend, Maps
<1> QED
  BY <1>2, <1>3

\* An element takes what has no parent, is no document and does not hold it.
LEMMA AppendOk ==
    ASSUME NEW t, Good(t), Ordered(t), NEW q \in Elements, NEW c \in Node \ Documents,
           t.parent[c] = NoNode, c \notin AncestorsOrSelf(t, q)
    PROVE  AnyAppend(t, q, c).res = "ok"
<1>1. LeaveNeighbours(t, c) = t
  BY LooseLeaves
<1>2. \A K \in Maps : c \in K => AppendEntryNode(t, q, K, c).res = "ok"
  BY InsertOrderedEntry DEF AppendEntryNode
<1>3. c \in Normal => MayBeChild(q, c)
  BY KindsApart DEF MayBeChild
<1>4. c \in Normal => AppendNode(t, q, c).res = "ok"
  BY <1>1, <1>3 DEF AppendNode, CheckedAppend, Ok
<1> QED
  BY <1>2, <1>4, KindsApart DEF AnyAppend, Maps

-----------------------------------------------------------------------------
(* What a whole instruction changes. *)

\* u is t with nodes that were fresh: nothing else is touched.
Grown(t, u) ==
    /\ Good(u) /\ Ordered(u) /\ Fit(u)
    /\ \A x \in Node : t.phase[x] # "fresh" =>
          /\ u.phase[x] = t.phase[x] /\ u.parent[x] = t.parent[x]
          /\ u.kids[x] = t.kids[x] /\ u.value[x] = t.value[x]

\* u is t with something appended to the nodes of E, and nodes of M among it.
Spares(t, u, E, M) ==
    /\ Good(u) /\ Ordered(u) /\ Fit(u)
    /\ \A x \in Node : t.phase[x] # "fresh" =>
          /\ \/ u.phase[x] = t.phase[x]
             \/ x \in M /\ x \in Texts /\ t.parent[x] = NoNode /\ u.phase[x] = "removed"
          /\ x \notin E => u.kids[x] = t.kids[x]
          /\ u.parent[x] = t.parent[x] \/ (x \in M /\ t.parent[x] = NoNode)
          /\ x \notin Texts \cup Abnormal \/ t.parent[x] \notin E \cup {NoNode} =>
                u.value[x] = t.value[x]

\* The nodes of E are live and outside every tree.
Outside(t, E) == \A e \in E : e \in Container /\ Live(t, e) /\ t.parent[e] = NoNode

\* A handle that is not given out is in no tree.
LEMMA FreshLoose ==
    ASSUME NEW t, Good(t), NEW x \in Node, t.phase[x] # "live"
    PROVE  t.parent[x] = NoNode /\ t.kids[x] = <<>>
<1>1. t.parent[x] = NoNode
  BY DEF Good, Forest, ParentsAreContainers, Live
<1> QED
  BY <1>1, Childless DEF Live

LEMMA GrownTwice ==
    ASSUME NEW t, NEW u, NEW v, Grown(t, u), Grown(u, v)
    PROVE  Grown(t, v)
  BY DEF Grown

LEMMA GrownSame ==
    ASSUME NEW t, Good(t), Ordered(t), Fit(t)
    PROVE  Grown(t, t)
  BY DEF Grown

\* A new node, with a value of any kind.
LEMMA NewGrown ==
    ASSUME NEW t, Good(t), Ordered(t), Fit(t), NEW c \in Node, t.phase[c] = "fresh"
    PROVE  /\ Grown(t, NewNode(t, c)) /\ Live(NewNode(t, c), c)
           /\ NewNode(t, c).parent = t.parent /\ NewNode(t, c).kids = t.kids
           /\ \A v \in Seq(Node) :
                LET u == [NewNode(t, c) EXCEPT !.value[c] = v]
                IN Grown(t, u) /\ Live(u, c) /\ u.parent = t.parent /\ u.kids = t.kids
                   /\ u.phase = [t.phase EXCEPT ![c] = "live"]
<1> DEFINE w == NewNode(t, c)
<1>1. Good(w) /\ w.phase = [t.phase EXCEPT ![c] = "live"] /\ w.parent = t.parent /\ w.kids = t.kids
  BY NewNodeGood
<1>2. Ordered(w) /\ Fit(w)
  BY ValuesFit
<1>3. \A x \in Node : x # c => w.value[x] = t.value[x]
  BY DEF NewNode, Good, Tree
<1>4. Live(w, c)
  BY <1>1 DEF Live, Good, Tree
<1>5. Grown(t, w)
  BY <1>1, <1>2, <1>3 DEF Grown, Good, Tree
<1> HIDE DEF w
<1>6. ASSUME NEW v \in Seq(Node)
      PROVE  LET u == [w EXCEPT !.value[c] = v]
             IN Grown(t, u) /\ Live(u, c) /\ u.parent = t.parent /\ u.kids = t.kids
                /\ u.phase = [t.phase EXCEPT ![c] = "live"]
  <2> DEFINE u == [w EXCEPT !.value[c] = v]
  <2>1. Good(u) /\ u.phase = w.phase /\ u.parent = w.parent /\ u.kids = w.kids
    BY <1>1, ValueGood
  <2>2. Fit(u)
    BY <1>1, <1>2, ValuesFit
  <2>3. Ordered(u)
    BY <1>2, <2>1 DEF Ordered
  <2>4. \A x \in Node : x # c => u.value[x] = w.value[x]
    BY <1>1 DEF Good, Tree
  <2> HIDE DEF u
  <2>5. Grown(t, u)
    BY <1>1, <1>3, <2>1, <2>2, <2>3, <2>4 DEF Grown, Good, Tree
  <2> QED
    BY <1>1, <1>4, <2>1, <2>5 DEF Live, u
<1> QED
  BY <1>1, <1>4, <1>5, <1>6 DEF w

\* Appending a new node to a new one touches nothing that was there.
LEMMA AppendGrown ==
    ASSUME NEW t, Good(t), NEW u, Grown(t, u), NEW q \in Node, NEW c \in Node, NEW v,
           Changes(u, v, q, c), t.phase[c] = "fresh", t.phase[q] = "fresh"
    PROVE  Grown(t, v)
<1>1. ASSUME NEW x \in Node, t.phase[x] # "fresh"
      PROVE  /\ v.phase[x] = t.phase[x] /\ v.parent[x] = t.parent[x]
             /\ v.kids[x] = t.kids[x] /\ v.value[x] = t.value[x]
  <2>1. x # c /\ x # q
    BY <1>1
  <2>2. u.parent[x] # q
    <3>1. u.parent[x] = t.parent[x]
      BY <1>1 DEF Grown
    <3>2. t.parent[x] # q
      <4>1. t.parent[x] = q => Live(t, q)
        BY KindsApart DEF Good, Forest, ParentsAreContainers
      <4> QED
        BY <4>1 DEF Live
    <3> QED
      BY <3>1, <3>2
  <2> QED
    BY <1>1, <2>1, <2>2 DEF Changes, Grown
<1> QED
  BY <1>1 DEF Grown, Changes

LEMMA GrownSpares ==
    ASSUME NEW t, NEW u, Grown(t, u), NEW E, NEW M
    PROVE  Spares(t, u, E, M)
  BY DEF Grown, Spares

\* A node in a tree stays there.
LEMMA SparedParent ==
    ASSUME NEW t, Good(t), NEW u, NEW E, NEW M, Spares(t, u, E, M),
           NEW x \in Node, t.parent[x] # NoNode
    PROVE  u.parent[x] = t.parent[x] /\ Live(t, x) /\ Live(u, x) /\ t.parent[x] \in Node
<1>1. Live(t, x) /\ t.parent[x] \in Node
  BY KindsApart DEF Good, Forest, ParentsAreContainers
<1> QED
  BY <1>1 DEF Spares, Live

LEMMA SparesTwice ==
    ASSUME NEW t, Good(t), NEW u, NEW v, NEW E, NEW L, NEW M,
           Spares(t, u, E, L), Spares(u, v, E, M)
    PROVE  Spares(t, v, E, L \cup M)
<1>1. ASSUME NEW x \in Node, t.phase[x] # "fresh"
      PROVE  /\ \/ v.phase[x] = t.phase[x]
                \/ x \in L \cup M /\ x \in Texts /\ t.parent[x] = NoNode
                   /\ v.phase[x] = "removed"
             /\ x \notin E => v.kids[x] = t.kids[x]
             /\ v.parent[x] = t.parent[x] \/ (x \in L \cup M /\ t.parent[x] = NoNode)
             /\ x \notin Texts \cup Abnormal \/ t.parent[x] \notin E \cup {NoNode} =>
                   v.value[x] = t.value[x]
  <2>1. u.phase[x] # "fresh"
    BY <1>1 DEF Spares
  <2>2. t.parent[x] # NoNode => u.parent[x] = t.parent[x]
    BY SparedParent
  <2>3. x \notin E => v.kids[x] = t.kids[x]
    BY <1>1, <2>1 DEF Spares
  <2>4. v.parent[x] = t.parent[x] \/ (x \in L \cup M /\ t.parent[x] = NoNode)
    BY <1>1, <2>1, <2>2 DEF Spares
  <2>5. x \notin Texts \cup Abnormal \/ t.parent[x] \notin E \cup {NoNode} =>
          v.value[x] = t.value[x]
    BY <1>1, <2>1, <2>2 DEF Spares
  <2>6. CASE u.phase[x] # t.phase[x]
    <3>1. x \in L /\ x \in Texts /\ t.parent[x] = NoNode /\ u.phase[x] = "removed"
      BY <1>1, <2>6 DEF Spares
    <3>2. v.phase[x] = "removed"
      BY <2>1, <3>1 DEF Spares
    <3> QED
      BY <2>3, <2>4, <2>5, <3>1, <3>2
  <2>7. CASE u.phase[x] = t.phase[x] /\ v.phase[x] # u.phase[x]
    <3>1. x \in M /\ x \in Texts /\ u.parent[x] = NoNode /\ v.phase[x] = "removed"
      BY <2>1, <2>7 DEF Spares
    <3>2. t.parent[x] = NoNode
      BY <2>2, <3>1
    <3> QED
      BY <2>3, <2>4, <2>5, <3>1, <3>2
  <2>8. CASE u.phase[x] = t.phase[x] /\ v.phase[x] = u.phase[x]
    BY <2>3, <2>4, <2>5, <2>8
  <2> QED
    BY <2>6, <2>7, <2>8
<1> QED
  BY <1>1 DEF Spares

LEMMA AppendSpares ==
    ASSUME NEW t, Good(t), NEW E, Outside(t, E), NEW q \in E, NEW c \in Node \ E,
           t.parent[c] = NoNode, Live(t, c), NEW v, Changes(t, v, q, c)
    PROVE  Spares(t, v, E, {c})
<1>1. ASSUME NEW x \in Node
      PROVE  /\ \/ v.phase[x] = t.phase[x]
                \/ x = c /\ x \in Texts /\ t.parent[x] = NoNode /\ v.phase[x] = "removed"
             /\ x \notin E => v.kids[x] = t.kids[x]
             /\ v.parent[x] = t.parent[x] \/ (x = c /\ t.parent[x] = NoNode)
             /\ x \notin Texts \cup Abnormal \/ t.parent[x] \notin E \cup {NoNode} =>
                   v.value[x] = t.value[x]
  BY DEF Changes, Live
<1> QED
  BY <1>1 DEF Spares, Changes

\* What is outside stays outside, unless it was to be moved.
LEMMA OutsideStays ==
    ASSUME NEW t, NEW E, Outside(t, E), NEW u, NEW M, Spares(t, u, E, M),
           E \cap M = {}
    PROVE  Outside(u, E)
<1>1. \A e \in E : e \in Node /\ t.phase[e] # "fresh" /\ e \notin M /\ e \notin Texts
  BY KindsApart DEF Outside, Live
<1> QED
  BY <1>1 DEF Outside, Spares, Live

-----------------------------------------------------------------------------
(* The nodes below a node. *)

SequencesOf(S) == Seq(Seq(S))

\* Joined sequences are a sequence of the same things.
LEMMA FlattenTyped ==
    ASSUME NEW S, NEW ss \in SequencesOf(S), Len(ss) > 0
    PROVE  FlattenSeq(ss) \in Seq(S)
<1> DEFINE N == Len(ss)
           M == N - 1
           X == Seq(S)
           F == [i \in 1 .. M |-> [x \in X |-> x \o ss[i + 1]]]
           Is(f) == f = [i \in 1 .. N |-> IF i = 1 THEN ss[i] ELSE f[i - 1] \o ss[i]]
           b == ss[1]
           flat == CHOOSE f : Is(f)
<1>1. N \in Nat /\ M \in Nat /\ N = M + 1 /\ \A i \in 1 .. N : ss[i] \in X
  BY DEF SequencesOf
<1>2. FlattenSeq(ss) = flat[N]
  BY <1>1 DEF FlattenSeq, SequencesOf
<1>3. \A x, y \in X : x \o y \in X
  OBVIOUS
<1> HIDE DEF N, M, X, flat
<1>4. F \in StepsIn(M, X)
  <2>1. \A i \in 1 .. M : [x \in X |-> x \o ss[i + 1]] \in [X -> X]
    BY <1>1, <1>3
  <2> QED
    BY <2>1 DEF StepsIn
<1>5. b \in X
  BY <1>1
<1>6. PICK g \in [0 .. M -> X] :
        g[0] = b /\ \A i \in 1 .. M : g[i - 1] \in X /\ g[i] = F[i][g[i - 1]]
  <2> HIDE DEF F, b
  <2> QED
    BY <1>1, <1>4, <1>5, Iteration, SMTT(30)
<1>7. \A i \in 1 .. M : g[i] = g[i - 1] \o ss[i + 1]
  BY <1>1, <1>6
<1> DEFINE h == [i \in 1 .. N |-> g[i - 1]]
<1>8. Is(h)
  <2>1. ASSUME NEW i \in 1 .. N PROVE h[i] = IF i = 1 THEN ss[i] ELSE h[i - 1] \o ss[i]
    <3>1. CASE i = 1
      BY <1>6, <3>1
    <3>2. CASE i # 1
      <4> DEFINE j == i - 1
      <4>1. j \in 1 .. M /\ i = j + 1 /\ j \in 1 .. N
        BY <1>1, <3>2
      <4> HIDE DEF j
      <4>2. h[j] = g[j - 1] /\ h[i] = g[j]
        BY <4>1
      <4> HIDE DEF h
      <4>3. h[i] = h[j] \o ss[i]
        BY <1>7, <4>1, <4>2
      <4> QED
        BY <3>2, <4>3 DEF j
    <3> QED
      BY <3>1, <3>2
  <2>2. h = [i \in 1 .. N |-> h[i]]
    OBVIOUS
  <2> HIDE DEF h
  <2> QED
    BY <2>1, <2>2
<1>9. Is(flat)
  <2> HIDE DEF Is
  <2> QED
    BY <1>8 DEF flat
<1> HIDE DEF h, F
<1>10. flat[1] = b /\ \A i \in 1 .. M : flat[i + 1] = flat[i] \o ss[i + 1]
  <2>1. 1 \in 1 .. N /\ \A i \in 1 .. M : i + 1 \in 1 .. N /\ i + 1 # 1 /\ (i + 1) - 1 = i
    BY <1>1
  <2>2. \A i \in 1 .. N : flat[i] = IF i = 1 THEN ss[i] ELSE flat[i - 1] \o ss[i]
    BY <1>9
  <2> HIDE DEF Is
  <2> QED
    BY <2>1, <2>2
<1> HIDE DEF Is, b
<1> DEFINE T == {k \in 0 .. M : flat[k + 1] \in X}
<1>11. 0 \in T
  BY <1>1, <1>5, <1>10
<1>12. ASSUME NEW k \in 1 .. M, k - 1 \in T PROVE k \in T
  <2>1. (k - 1) + 1 = k /\ k \in 0 .. M /\ k + 1 \in 1 .. N
    BY <1>1
  <2>2. flat[k] \in X
    BY <1>12, <2>1
  <2>3. flat[k + 1] \in X
    BY <1>1, <1>3, <1>10, <2>1, <2>2
  <2> QED
    BY <2>1, <2>3
<1>13. \A k \in 0 .. M : k \in T
  <2> HIDE DEF T
  <2> QED
    BY <1>1, <1>11, <1>12, Counting
<1>14. M \in T
  BY <1>1, <1>13
<1> QED
  BY <1>1, <1>2, <1>14 DEF X

\* s is m and nodes below m.
Heads(t, m, s) ==
    /\ s \in Seq(Node) /\ Len(s) > 0 /\ s[1] = m
    /\ \A i \in 2 .. Len(s) : m \in Ancestors(t, s[i])

LEMMA HeadsNext ==
    ASSUME NEW t, Good(t), NEW f \in [Node -> Seq(Node)], \A m \in Node : Heads(t, m, f[m]),
           NEW m \in Node, t.kids[m] # <<>>
    PROVE  Heads(t, m, <<m>> \o FlattenSeq([i \in DOMAIN t.kids[m] |-> f[t.kids[m][i]]]))
<1> DEFINE S == {x \in Node : m \in Ancestors(t, x)}
           ss == [i \in DOMAIN t.kids[m] |-> f[t.kids[m][i]]]
           n == Len(t.kids[m])
<1>1. t.kids[m] \in Seq(Node) /\ n \in Nat /\ n > 0 /\ DOMAIN t.kids[m] = 1 .. n
  BY DEF Good, Tree
<1>2. ASSUME NEW i \in 1 .. n PROVE f[t.kids[m][i]] \in Seq(S)
  <2> DEFINE x == t.kids[m][i]
  <2>1. x \in Node /\ m \in Ancestors(t, x)
    BY <1>1, KidsBelow
  <2>2. Heads(t, x, f[x])
    BY <2>1
  <2> DEFINE r == f[x]
  <2>6. Heads(t, x, r) /\ r \in Seq(Node)
    BY <2>1, <2>2
  <2> HIDE DEF x, r
  <2>7. Len(r) \in Nat
    BY <2>6
  <2>8. r[1] = x /\ \A k \in 2 .. Len(r) : x \in Ancestors(t, r[k])
    BY <2>6, Zenon DEF Heads
  <2>3. r \in Seq(Node) /\ Len(r) \in Nat /\ r[1] = x
        /\ \A k \in 2 .. Len(r) : x \in Ancestors(t, r[k])
    BY <2>6, <2>7, <2>8
  <2>4. ASSUME NEW k \in 1 .. Len(r) PROVE r[k] \in S
    <3>1. r[k] \in Node
      BY <2>3
    <3>2. x \in AncestorsOrSelf(t, r[k])
      <4>1. CASE k = 1
        BY <2>3, <4>1 DEF AncestorsOrSelf
      <4>2. CASE k # 1
        <5>1. k \in 2 .. Len(r)
          BY <2>3, <4>2
        <5> QED
          BY <2>3, <5>1 DEF AncestorsOrSelf
      <4> QED
        BY <4>1, <4>2
    <3> QED
      BY <2>1, <3>1, <3>2, AboveOrder
  <2> HIDE DEF S
  <2>5. r \in Seq(S)
    <3>1. [k \in 1 .. Len(r) |-> r[k]] \in Seq(S)
      BY <2>3, <2>4
    <3>2. r = [k \in 1 .. Len(r) |-> r[k]]
      BY <2>3
    <3> QED
      BY <3>1, <3>2
  <2> QED
    BY <2>5 DEF x, r
<1>3. ss \in Seq(Seq(S)) /\ Len(ss) > 0
  <2> HIDE DEF S
  <2>1. ss \in [1 .. n -> Seq(S)]
    BY <1>1, <1>2
  <2> QED
    BY <1>1, <2>1
<1>4. FlattenSeq(ss) \in Seq(S)
  <2> HIDE DEF S, ss
  <2> QED
    BY <1>3, FlattenTyped DEF SequencesOf
<1> DEFINE r == FlattenSeq(ss)
<1> HIDE DEF r
<1>5. r \in Seq(S)
  BY <1>4 DEF r
<1> HIDE DEF ss
<1>6. r \in Seq(Node) /\ \A i \in 1 .. Len(r) : r[i] \in S
  BY <1>5
<1>7. <<m>> \o r \in Seq(Node) /\ Len(<<m>> \o r) = 1 + Len(r) /\ (<<m>> \o r)[1] = m
      /\ \A i \in 2 .. 1 + Len(r) : (<<m>> \o r)[i] = r[i - 1] /\ i - 1 \in 1 .. Len(r)
  BY <1>6
<1> DEFINE w == <<m>> \o r
<1>8. w \in Seq(Node) /\ Len(w) = 1 + Len(r) /\ w[1] = m /\ Len(r) \in Nat
      /\ \A i \in 2 .. 1 + Len(r) : w[i] \in S
  BY <1>6, <1>7
<1> HIDE DEF w
<1>9. Heads(t, m, w)
  <2>1. \A i \in 2 .. Len(w) : m \in Ancestors(t, w[i])
    BY <1>8
  <2>2. Len(w) > 0
    BY <1>8
  <2> HIDE DEF S
  <2> QED
    BY <1>8, <2>1, <2>2 DEF Heads
<1> QED
  BY <1>9 DEF w, r, ss

\* The nodes that clone_node goes through: the top, then nodes below it.
LEMMA PreorderHeads ==
    ASSUME NEW t, Good(t), NEW n \in Node
    PROVE  Heads(t, n, Preorder(t, n))
<1> DEFINE X == {f \in [Node -> Seq(Node)] : \A m \in Node : Heads(t, m, f[m])}
           Deeper(f, m) == <<m>> \o FlattenSeq([i \in DOMAIN t.kids[m] |-> f[t.kids[m][i]]])
           Advance(f) == [m \in Node |-> IF t.kids[m] = <<>> THEN <<m>> ELSE Deeper(f, m)]
           b == [m \in Node |-> <<m>>]
           F == [f \in X |-> Advance(f)]
           Is(h) == h = [k \in Steps |->
                          [m \in Node |-> IF k = 0 \/ t.kids[m] = <<>> THEN <<m>>
                                          ELSE Deeper(h[k - 1], m)]]
<1>1. \A m \in Node : <<m>> \in Seq(Node) /\ Heads(t, m, <<m>>)
  BY DEF Heads
<1>2. b \in X
  BY <1>1
<1>3. ASSUME NEW f \in X PROVE Advance(f) \in X
  <2>1. ASSUME NEW m \in Node PROVE Heads(t, m, Advance(f)[m])
    <3>1. CASE t.kids[m] = <<>>
      BY <1>1, <3>1
    <3>2. CASE t.kids[m] # <<>>
      <4>1. Heads(t, m, Deeper(f, m))
        BY <3>2, HeadsNext
      <4> HIDE DEF Deeper
      <4> QED
        BY <3>2, <4>1
    <3> QED
      BY <3>1, <3>2
  <2> HIDE DEF Deeper
  <2>2. \A m \in Node : Advance(f)[m] \in Seq(Node)
    <3> HIDE DEF Advance
    <3> QED
      BY <2>1 DEF Heads
  <2>3. Advance(f) = [m \in Node |-> Advance(f)[m]]
    OBVIOUS
  <2> HIDE DEF Advance
  <2> QED
    BY <2>1, <2>2, <2>3
<1> HIDE DEF Deeper, X
<1>4. F \in [X -> X]
  <2> HIDE DEF Advance
  <2> QED
    BY <1>3
<1>5. PICK g \in [Steps -> X] :
        g[0] = b /\ \A k \in Steps : k # 0 => g[k - 1] \in X /\ g[k] = F[g[k - 1]]
  <2> HIDE DEF F, b
  <2> QED
    BY <1>2, <1>4, Walk
<1>6. Is(g)
  <2>1. ASSUME NEW k \in Steps
        PROVE  g[k] = [m \in Node |-> IF k = 0 \/ t.kids[m] = <<>> THEN <<m>>
                                      ELSE Deeper(g[k - 1], m)]
    <3>1. CASE k = 0
      BY <1>5, <3>1
    <3>2. CASE k # 0
      <4>1. g[k - 1] \in X /\ g[k] = F[g[k - 1]]
        BY <1>5, <3>2
      <4>2. F[g[k - 1]] = Advance(g[k - 1])
        BY <4>1
      <4> QED
        BY <3>2, <4>1, <4>2
    <3> QED
      BY <3>1, <3>2
  <2>2. g = [k \in Steps |-> g[k]]
    OBVIOUS
  <2> QED
    BY <2>1, <2>2
<1> DEFINE below == CHOOSE h : Is(h)
<1>7. Is(below)
  <2> HIDE DEF Is
  <2> QED
    BY <1>6
<1> DEFINE C == Cardinality(Node)
<1>8. Preorder(t, n) = below[C][n]
  BY DEF Preorder, Deeper
<1> HIDE DEF below, C, F
<1>9. below[0] = b
  BY <1>7, ZeroStep
<1>10. \A k \in Steps : k # 0 => below[k] = Advance(below[k - 1])
  BY <1>7
<1>11. below = [k \in Steps |-> below[k]]
  BY <1>7
<1>12. below \in [Steps -> X]
  <2> HIDE DEF Advance, b, Is
  <2> QED
    BY <1>2, <1>3, <1>9, <1>10, <1>11, WalkStays
<1>13. below[C] \in X
  BY <1>12, FiniteNodes DEF C
<1> QED
  BY <1>8, <1>13 DEF X

-----------------------------------------------------------------------------
(* Copies. *)

\* A copy is of the kind of what is copied.
LEMMA KindIs ==
    ASSUME NEW m \in Node
    PROVE  /\ KindOf(m) \in Kinds /\ m \in KindOf(m) /\ KindOf(m) \subseteq Node
           /\ m \notin Documents => KindOf(m) \cap Documents = {}
<1>1. \A K \in Kinds : /\ K \subseteq Node
                       /\ K = Documents \/ K \cap Documents = {}
  BY KindsAreDisjoint DEF Kinds, Node, Normal, Abnormal
<1>2. \E K \in Kinds : m \in K
  <2>1. CASE m \in Abnormal
    <3>1. PICK K \in {Attributes, Namespaces} : m \in K
      BY <2>1 DEF Abnormal
    <3>2. {b \in K : NameOf[b] = NameOf[m]} \in Kinds
      BY <2>1, <3>1 DEF Kinds
    <3> QED
      BY <3>1, <3>2
  <2>2. CASE m \in Normal
    BY <2>2 DEF Normal, Kinds
  <2> QED
    BY <2>1, <2>2 DEF Node
<1>3. KindOf(m) \in Kinds /\ m \in KindOf(m)
  BY <1>2 DEF KindOf
<1> QED
  BY <1>1, <1>3

\* A handle that is picked is fresh and of the kind.
LEMMA PickIs ==
    ASSUME NEW t, NEW K, FreshOf(t, K) # {}
    PROVE  Pick(t, K) \in K /\ t.phase[Pick(t, K)] = "fresh"
<1>1. Pick(t, K) \in FreshOf(t, K)
  BY DEF Pick
<1> QED
  BY <1>1 DEF FreshOf

\* In the middle of a copy: copies were fresh handles, and containers stay.
Copying(t, acc) ==
    /\ acc \in [tree : Tree, copy : [Node -> Node \cup {NoNode}], res : {"ok", "undefined"}]
    /\ Grown(t, acc.tree)
    /\ \A y \in Node : acc.copy[y] # NoNode =>
          /\ t.phase[acc.copy[y]] = "fresh" /\ acc.tree.phase[acc.copy[y]] # "fresh"
          /\ acc.copy[y] \in Container => Live(acc.tree, acc.copy[y])

\* acc is followed by a: m was copied, and the other copies are what they were.
Copied(acc, a, m, top) ==
    a.res = "ok" =>
        /\ acc.res = "ok"
        /\ \A y \in Node : y # m => a.copy[y] = acc.copy[y]
        /\ a.copy[m] \in KindOf(m)
        /\ top => Live(a.tree, a.copy[m]) /\ a.tree.parent[a.copy[m]] = NoNode
        /\ \A x \in Node : acc.tree.phase[x] # "fresh" =>
              a.tree.phase[x] = acc.tree.phase[x] /\ a.tree.parent[x] = acc.tree.parent[x]

LEMMA CopyBelowIs ==
    ASSUME NEW t, Good(t), NEW acc, Copying(t, acc), acc.res = "ok",
           NEW m \in Node, NEW top \in BOOLEAN, top \/ t.parent[m] \in Node,
           NEW c \in KindOf(m), acc.tree.phase[c] = "fresh"
    PROVE  LET a == CopyBelow(acc, t, m, c, top)
           IN Copying(t, a) /\ Copied(acc, a, m, top)
<1> DEFINE u == acc.tree
           w == [NewNode(u, c) EXCEPT !.value[c] = t.value[m]]
           q == acc.copy[t.parent[m]]
           v == IF top THEN w ELSE AnyAppend(w, q, c).tree
           a == CopyBelow(acc, t, m, c, top)
<1>1. c \in Node /\ t.value[m] \in Seq(Node)
  BY KindIs DEF Good, Tree
<1>2. Grown(t, u) /\ Good(u) /\ Ordered(u) /\ Fit(u)
  BY DEF Copying, Grown
<1>3. /\ Grown(u, w) /\ Live(w, c) /\ w.parent = u.parent /\ w.kids = u.kids
      /\ w.phase = [u.phase EXCEPT ![c] = "live"]
  <2>1. Good(u) /\ Ordered(u) /\ Fit(u) /\ u.phase[c] = "fresh"
    BY <1>2
  <2>2. c \in Node /\ t.value[m] \in Seq(Node)
    BY <1>1
  <2> HIDE DEF u
  <2>3. \A x \in Seq(Node) :
          LET z == [NewNode(u, c) EXCEPT !.value[c] = x]
          IN Grown(u, z) /\ Live(z, c) /\ z.parent = u.parent /\ z.kids = u.kids
             /\ z.phase = [u.phase EXCEPT ![c] = "live"]
    BY <2>1, <2>2, NewGrown
  <2> QED
    BY <2>2, <2>3
<1>4. Good(w) /\ Ordered(w) /\ Fit(w) /\ Grown(t, w)
  BY <1>2, <1>3, GrownTwice DEF Grown
<1>5. w.parent[c] = NoNode
  BY <1>1, <1>2, <1>3, FreshLoose
<1>6. t.phase[c] = "fresh"
  BY <1>1, <1>2 DEF Grown
<1>7. a = [tree |-> v, copy |-> [acc.copy EXCEPT ![m] = c], res |-> "ok"]
  <2>1. a = [acc EXCEPT !.tree = v, !.copy[m] = c]
    BY DEF CopyBelow
  <2> HIDE DEF v, a
  <2> QED
    BY <2>1 DEF Copying
<1> HIDE DEF w, u, a
<1>8. /\ Grown(t, v)
      /\ v.phase[c] = "live" \/ (c \in Texts /\ v.phase[c] = "removed")
      /\ top => v.phase[c] = "live" /\ v.parent[c] = NoNode
      /\ \A x \in Node : u.phase[x] # "fresh" => v.phase[x] = u.phase[x] /\ v.parent[x] = u.parent[x]
  <2>1. CASE top
    BY <1>3, <1>4, <1>5, <2>1 DEF Live, Grown
  <2>2. CASE ~top
    <3>1. t.parent[m] \in Node /\ q \in Node \cup {NoNode}
      BY <2>2 DEF Copying
    <3>2. q \in Node => t.phase[q] = "fresh" /\ u.phase[q] # "fresh"
          /\ (q \in Container => Live(u, q))
      BY <3>1, KindsApart DEF Copying, u
    <3>3. q \in Container => Live(w, q)
      BY <1>1, <1>3, <3>1, <3>2, KindsApart DEF Live, Grown
    <3> HIDE DEF q
    <3>4. Changes(w, v, q, c) /\ (q \notin Container => v = w)
      BY <1>1, <1>3, <1>4, <1>5, <2>2, <3>1, <3>3, AppendChanges
    <3>5. Grown(t, v)
      <4>1. CASE q \in Node
        <5> HIDE DEF v
        <5> QED
          BY <1>1, <1>4, <1>6, <3>2, <3>4, <4>1, AppendGrown
      <4>2. CASE q \notin Node
        BY <1>4, <3>4, <4>2, KindsApart
      <4> QED
        BY <4>1, <4>2
    <3>6. \A x \in Node : u.phase[x] # "fresh" =>
            /\ x # c /\ w.phase[x] = u.phase[x] /\ w.parent[x] = u.parent[x]
      BY <1>1, <1>3, <1>6 DEF Grown, u
    <3> HIDE DEF v
    <3> QED
      BY <2>2, <3>4, <3>5, <3>6 DEF Changes
  <2> QED
    BY <2>1, <2>2
<1> HIDE DEF v, q
<1>9. v \in Tree
  BY <1>8 DEF Grown, Good
<1>10. acc.copy \in [Node -> Node \cup {NoNode}]
  BY DEF Copying
<1> DEFINE copy == [acc.copy EXCEPT ![m] = c]
<1>11. copy \in [Node -> Node \cup {NoNode}] /\ copy[m] = c
       /\ \A y \in Node : y # m => copy[y] = acc.copy[y]
  BY <1>1, <1>10
<1> HIDE DEF copy
<1>12. a = [tree |-> v, copy |-> copy, res |-> "ok"]
  BY <1>7 DEF copy
<1>13. ASSUME NEW y \in Node, copy[y] # NoNode
       PROVE  /\ t.phase[copy[y]] = "fresh" /\ v.phase[copy[y]] # "fresh"
              /\ copy[y] \in Container => Live(v, copy[y])
  <2>1. CASE y = m
    BY <1>6, <1>8, <1>11, <2>1, KindsApart DEF Live
  <2>2. CASE y # m
    <3>1. copy[y] = acc.copy[y] /\ copy[y] \in Node
      BY <1>11, <1>13, <2>2
    <3>2. t.phase[copy[y]] = "fresh" /\ u.phase[copy[y]] # "fresh"
          /\ (copy[y] \in Container => Live(u, copy[y]))
      BY <1>13, <3>1 DEF Copying, u
    <3> QED
      BY <1>8, <3>1, <3>2 DEF Live
  <2> QED
    BY <2>1, <2>2
<1>14. Copying(t, a)
  BY <1>8, <1>9, <1>11, <1>12, <1>13 DEF Copying
<1>15. Copied(acc, a, m, top)
  BY <1>8, <1>11, <1>12 DEF Copied, Live, u
<1> QED
  BY <1>14, <1>15 DEF a

LEMMA CopyNextIs ==
    ASSUME NEW t, Good(t), NEW acc, Copying(t, acc),
           NEW m \in Node, NEW top \in BOOLEAN, top \/ t.parent[m] \in Node
    PROVE  LET a == CopyNext(acc, t, m, top)
           IN Copying(t, a) /\ Copied(acc, a, m, top)
<1> DEFINE K == KindOf(m)
<1>1. CASE acc.res # "ok" \/ FreshOf(acc.tree, K) = {}
  <2>1. CopyNext(acc, t, m, top) = [acc EXCEPT !.res = "undefined"]
    BY <1>1 DEF CopyNext
  <2>2. [acc EXCEPT !.res = "undefined"] = [tree |-> acc.tree, copy |-> acc.copy, res |-> "undefined"]
    BY DEF Copying
  <2> QED
    BY <2>1, <2>2 DEF Copying, Copied
<1>2. CASE acc.res = "ok" /\ FreshOf(acc.tree, K) # {}
  <2>1. CopyNext(acc, t, m, top) = CopyBelow(acc, t, m, Pick(acc.tree, K), top)
    BY <1>2 DEF CopyNext
  <2>2. Pick(acc.tree, K) \in K /\ acc.tree.phase[Pick(acc.tree, K)] = "fresh"
    BY <1>2, PickIs
  <2> HIDE DEF K
  <2> DEFINE c == Pick(acc.tree, K)
  <2> HIDE DEF c
  <2>3. c \in KindOf(m) /\ acc.tree.phase[c] = "fresh"
    BY <2>2 DEF c, K
  <2>4. CopyNext(acc, t, m, top) = CopyBelow(acc, t, m, c, top)
    BY <2>1 DEF c
  <2> QED
    BY <1>2, <2>3, <2>4, CopyBelowIs
<1> QED
  BY <1>1, <1>2

\* The outcome of a copy of n: new nodes, the copy of n on top.
Clones(t, n, o) ==
    /\ Grown(t, o.tree) /\ o.res \in {"ok", "undefined"}
    /\ o.res = "ok" => /\ o.node \in KindOf(n) /\ t.phase[o.node] = "fresh"
                       /\ Live(o.tree, o.node) /\ o.tree.parent[o.node] = NoNode

LEMMA CopyAllIs ==
    ASSUME NEW t, Good(t), Ordered(t), Fit(t), NEW n \in Node, NEW s, Heads(t, n, s)
    PROVE  Clones(t, n, CopyOf(CopyAll(t, s), n))
<1> DEFINE N == Len(s)
           X == {acc \in [tree : Tree, copy : [Node -> Node \cup {NoNode}],
                          res : {"ok", "undefined"}] : Copying(t, acc)}
           b == [tree |-> t, copy |-> [m \in Node |-> NoNode], res |-> "ok"]
           Advance(i, acc) == CopyNext(acc, t, s[i], i = 1)
           F == [i \in 1 .. N |-> [acc \in X |-> Advance(i, acc)]]
           Is(f) == f = [i \in 0 .. N |-> IF i = 0 THEN b ELSE Advance(i, f[i - 1])]
           done == CHOOSE f : Is(f)
<1>1. CopyAll(t, s) = done[N]
  BY DEF CopyAll
<1>2. N \in Nat /\ N > 0 /\ s[1] = n /\ \A i \in 1 .. N : s[i] \in Node
  BY DEF Heads
<1>3. ASSUME NEW i \in 1 .. N
      PROVE  i = 1 \/ (t.parent[s[i]] \in Node /\ s[i] # n)
  <2>1. SUFFICES ASSUME i # 1 PROVE t.parent[s[i]] \in Node /\ s[i] # n
    OBVIOUS
  <2>2. n \in Ancestors(t, s[i])
    BY <1>2, <2>1 DEF Heads
  <2> QED
    BY <1>2, <2>2, AboveParent, AboveOrder, KindsApart
<1>4. ASSUME NEW i \in 1 .. N, NEW acc, Copying(t, acc)
      PROVE  Copying(t, Advance(i, acc)) /\ Copied(acc, Advance(i, acc), s[i], i = 1)
  <2> DEFINE top == i = 1
             m == s[i]
  <2>1. top \in BOOLEAN /\ m \in Node /\ (top \/ t.parent[m] \in Node)
    BY <1>2, <1>3
  <2> HIDE DEF top, m
  <2>2. Copying(t, CopyNext(acc, t, m, top)) /\ Copied(acc, CopyNext(acc, t, m, top), m, top)
    BY <1>4, <2>1, CopyNextIs
  <2> QED
    BY <2>2 DEF top, m
<1>5. b \in X
  BY GrownSame DEF Copying, Good
<1>6. \A acc : Copying(t, acc) <=> acc \in X
  BY DEF Copying
<1> HIDE DEF N, X, b, Advance
<1>7. F \in StepsIn(N, X)
  <2>1. \A i \in 1 .. N : [acc \in X |-> Advance(i, acc)] \in [X -> X]
    BY <1>4, <1>6
  <2> QED
    BY <2>1 DEF StepsIn
<1>8. PICK g \in [0 .. N -> X] :
        g[0] = b /\ \A i \in 1 .. N : g[i - 1] \in X /\ g[i] = F[i][g[i - 1]]
  <2>1. N \in Nat
    BY <1>2
  <2> HIDE DEF F
  <2> QED
    BY <2>1, <1>5, <1>7, Iteration, SMTT(30)
<1>9. Is(g)
  <2>1. ASSUME NEW i \in 0 .. N PROVE g[i] = IF i = 0 THEN b ELSE Advance(i, g[i - 1])
    <3>1. i # 0 => i \in 1 .. N
      BY <1>2
    <3> QED
      BY <1>8, <3>1
  <2>2. g = [i \in 0 .. N |-> g[i]]
    BY <1>8
  <2> QED
    BY <2>1, <2>2
<1>10. Is(done)
  <2> HIDE DEF Is
  <2> QED
    BY <1>9
<1> HIDE DEF done, F
<1>11. done[0] = b /\ \A i \in 1 .. N : done[i] = Advance(i, done[i - 1])
  BY <1>2, <1>10
<1> HIDE DEF Is
<1> DEFINE Top(acc) == acc.res = "ok" => /\ acc.copy[n] \in KindOf(n) /\ Live(acc.tree, acc.copy[n])
                                         /\ acc.tree.parent[acc.copy[n]] = NoNode
           T == {k \in 0 .. N : done[k] \in X /\ (k # 0 => Top(done[k]))}
<1>12. 0 \in T
  BY <1>2, <1>5, <1>11
<1>13. ASSUME NEW k \in 1 .. N, k - 1 \in T PROVE k \in T
  <2> DEFINE acc == done[k - 1]
             a == done[k]
  <2>1. acc \in X /\ (k # 1 => Top(acc)) /\ k \in 0 .. N
    BY <1>2, <1>13
  <2>2. a = Advance(k, acc)
    BY <1>11
  <2> HIDE DEF acc, a
  <2>3. Copying(t, acc) /\ Copying(t, a) /\ Copied(acc, a, s[k], k = 1)
    BY <1>4, <1>6, <2>1, <2>2
  <2>4. Top(a)
    <3>1. SUFFICES ASSUME a.res = "ok"
                   PROVE  /\ a.copy[n] \in KindOf(n) /\ Live(a.tree, a.copy[n])
                          /\ a.tree.parent[a.copy[n]] = NoNode
      OBVIOUS
    <3>2. CASE k = 1
      BY <1>2, <2>3, <3>1, <3>2 DEF Copied
    <3>3. CASE k # 1
      <4>1. n # s[k] /\ Top(acc) /\ acc.res = "ok" /\ a.copy[n] = acc.copy[n]
        BY <1>3, <2>1, <2>3, <3>1, <3>3 DEF Copied
      <4>2. acc.copy[n] \in Node /\ acc.tree.phase[acc.copy[n]] # "fresh"
        BY <4>1, KindIs DEF Live
      <4> QED
        BY <2>3, <3>1, <4>1, <4>2 DEF Copied, Live
    <3> QED
      BY <3>2, <3>3
  <2> HIDE DEF Top
  <2> QED
    BY <1>6, <2>1, <2>3, <2>4 DEF a
<1>14. \A k \in 0 .. N : k \in T
  <2> HIDE DEF T
  <2> QED
    BY <1>2, <1>12, <1>13, Counting
<1>15. done[N] \in X /\ Top(done[N])
  <2>1. N \in T /\ N # 0
    BY <1>2, <1>14
  <2> QED
    BY <2>1
<1>16. Copying(t, CopyAll(t, s)) /\ Top(CopyAll(t, s))
  BY <1>1, <1>6, <1>15
<1> DEFINE acc == CopyAll(t, s)
<1> HIDE DEF acc
<1>17. acc.res = "ok" => t.phase[acc.copy[n]] = "fresh"
  <2>1. Copying(t, acc) /\ Top(acc)
    BY <1>16 DEF acc
  <2> QED
    BY <2>1, KindIs, KindsApart DEF Copying
<1> QED
  BY <1>16, <1>17 DEF Clones, CopyOf, Copying, acc

LEMMA ClonesIs ==
    ASSUME NEW t, Good(t), Ordered(t), Fit(t), NEW n \in Node
    PROVE  Clones(t, n, CloneNode(t, n)) /\ Clones(t, n, ShallowCopy(t, n))
<1>1. Heads(t, n, Preorder(t, n))
  BY PreorderHeads
<1>2. Heads(t, n, <<n>>)
  BY DEF Heads
<1> QED
  BY <1>1, <1>2, CopyAllIs DEF CloneNode, ShallowCopy

-----------------------------------------------------------------------------
(* xml_append. *)

Outcomes == [tree : Tree, res : Results]

LEMMA Outcome ==
    ASSUME NEW t \in Tree
    PROVE  /\ Ok(t) \in Outcomes /\ Err(t) \in Outcomes
           /\ Panic(t) \in Outcomes /\ Undefined(t) \in Outcomes
  BY DEF Ok, Err, Panic, Undefined, Outcomes, Results

\* Every outcome is a tree and how the call ended.
LEMMA AppendOutcome ==
    ASSUME NEW t, NEW q, NEW c, AnyAppend(t, q, c).tree \in Tree
    PROVE  AnyAppend(t, q, c) \in Outcomes /\ Unwrapped(AnyAppend(t, q, c)) \in Outcomes
<1> DEFINE Shaped(o) == o = [tree |-> o.tree, res |-> o.res] /\ o.res \in Results
<1>1. \A u : Shaped(Ok(u)) /\ Shaped(Err(u)) /\ Shaped(Panic(u)) /\ Shaped(Undefined(u))
  BY DEF Ok, Err, Panic, Undefined, Results
<1>2. Shaped(CheckedAppend(t, q, c)) /\ Shaped(CheckedPrepend(t, q, c))
      /\ \A r : Shaped(CheckedInsertAfter(t, r, c))
  <2> HIDE DEF Shaped
  <2> QED
    BY <1>1 DEF CheckedAppend, CheckedPrepend, CheckedInsertAfter, InsertBeside
<1>3. \A u : Shaped(CheckedAppend(u, q, c))
  <2> HIDE DEF Shaped
  <2> QED
    BY <1>1 DEF CheckedAppend
<1> HIDE DEF Shaped
<1>4. \A o : Shaped(o) => Shaped(Unwrapped(o))
  BY <1>1 DEF Unwrapped
<1>5. \A K : Shaped(InsertNode(t, q, K, c))
  BY <1>1, <1>2, <1>4 DEF InsertNode, PlaceEntry
<1>6. \A K : Shaped(AppendEntryNode(t, q, K, c))
  BY <1>1, <1>5 DEF AppendEntryNode
<1>7. Shaped(AppendNode(t, q, c))
  BY <1>1, <1>3 DEF AppendNode
<1>8. Shaped(AnyAppend(t, q, c))
  BY <1>6, <1>7 DEF AnyAppend
<1>9. Shaped(Unwrapped(AnyAppend(t, q, c))) /\ Unwrapped(AnyAppend(t, q, c)).tree \in Tree
  BY <1>4, <1>8 DEF Unwrapped, Panic
<1> QED
  BY <1>8, <1>9 DEF Shaped, Outcomes

\* Nodes that were not there need not be named.
LEMMA SparesOld ==
    ASSUME NEW t, NEW u, NEW E, NEW L, NEW M, Spares(t, u, E, L),
           \A x \in L : x \in Node /\ t.phase[x] # "fresh" => x \in M
    PROVE  Spares(t, u, E, M)
  BY DEF Spares

\* In the middle of an append to p, which is open.
Opened(u, E, p) ==
    Good(u) /\ Ordered(u) /\ Fit(u) /\ Outside(u, E) /\ p \in E /\ p \in Elements

\* A live node without a parent is put in.
LEMMA PutIn ==
    ASSUME NEW u, NEW E, NEW p, Opened(u, E, p),
           NEW n \in Node \ Documents, n \notin E, Live(u, n), u.parent[n] = NoNode
    PROVE  LET o == Unwrapped(AnyAppend(u, p, n))
           IN o \in Outcomes /\ o.res = "ok" /\ Spares(u, o.tree, E, {n})
<1>1. p \in Node /\ p \in Elements /\ Live(u, p) /\ u.parent[p] = NoNode /\ n # p
  BY KindsApart DEF Opened, Outside
<1>2. n \notin AncestorsOrSelf(u, p)
  BY <1>1, RootsHaveNone DEF AncestorsOrSelf
<1> DEFINE v == AnyAppend(u, p, n)
<1>3. v.res = "ok"
  BY <1>1, <1>2, AppendOk DEF Opened
<1>4. Changes(u, v.tree, p, n)
  BY <1>1, AppendChanges DEF Opened
<1> HIDE DEF v
<1>5. Spares(u, v.tree, E, {n})
  BY <1>4, AppendSpares DEF Opened
<1>6. Unwrapped(v) = v
  BY <1>3 DEF Unwrapped
<1>7. v.tree \in Tree
  BY <1>5 DEF Spares, Good
<1> QED
  BY <1>3, <1>5, <1>6, <1>7, AppendOutcome DEF v

\* A node that was made for it is put in.
LEMMA PutInMade ==
    ASSUME NEW u, NEW E, NEW p, Opened(u, E, p), NEW c,
           Grown(u, c.tree), c.res \in {"ok", "undefined"},
           c.res = "ok" => /\ c.node \in Node \ Documents /\ u.phase[c.node] = "fresh"
                           /\ Live(c.tree, c.node) /\ c.tree.parent[c.node] = NoNode
    PROVE  LET o == AppendMade(c, p)
           IN o \in Outcomes /\ o.res \in {"ok", "undefined"} /\ Spares(u, o.tree, E, {})
<1> DEFINE o == AppendMade(c, p)
<1>1. Spares(u, c.tree, E, {}) /\ c.tree \in Tree
  BY GrownSpares DEF Grown, Good
<1>2. CASE c.res # "ok"
  BY <1>1, <1>2, Outcome DEF AppendMade, Undefined
<1>3. CASE c.res = "ok"
  <2>1. Opened(c.tree, E, p)
    <3>1. Outside(c.tree, E)
      BY <1>1, OutsideStays DEF Opened
    <3> QED
      BY <3>1 DEF Opened, Grown
  <2>2. c.node \notin E
    BY <1>3 DEF Opened, Outside, Live
  <2>3. o = Unwrapped(AnyAppend(c.tree, p, c.node))
    BY <1>3 DEF AppendMade
  <2>4. o \in Outcomes /\ o.res = "ok" /\ Spares(c.tree, o.tree, E, {c.node})
    BY <1>3, <2>1, <2>2, <2>3, PutIn
  <2>5. Spares(u, o.tree, E, {} \cup {c.node})
    BY <1>1, <2>4, SparesTwice DEF Opened
  <2>6. Spares(u, o.tree, E, {})
    BY <1>3, <2>5, SparesOld
  <2> QED
    BY <2>4, <2>6
<1> QED
  BY <1>2, <1>3

LEMMA StringsIs ==
    ASSUME NEW u, NEW E, NEW p, Opened(u, E, p)
    PROVE  LET o == AppendStrings(u, p)
           IN o \in Outcomes /\ o.res \in {"ok", "undefined"} /\ Spares(u, o.tree, E, {})
<1>1. CASE FreshOf(u, Texts) = {}
  BY <1>1, GrownSame, GrownSpares, Outcome DEF AppendStrings, Undefined, Opened, Good
<1>2. CASE FreshOf(u, Texts) # {}
  <2> DEFINE c == Pick(u, Texts)
             made == [tree |-> NewNode(u, c), node |-> c, res |-> "ok"]
  <2>1. AppendStrings(u, p) = AppendMade(made, p)
    BY <1>2 DEF AppendStrings
  <2>2. c \in Texts /\ u.phase[c] = "fresh"
    BY <1>2, PickIs
  <2> HIDE DEF c
  <2>3. c \in Node \ Documents
    BY <2>2, KindsApart
  <2>4. Grown(u, made.tree) /\ Live(made.tree, c) /\ made.tree.parent = u.parent
    BY <2>2, <2>3, NewGrown DEF Opened
  <2>5. u.parent[c] = NoNode
    BY <2>2, <2>3, FreshLoose DEF Opened
  <2>6. made.node = c /\ made.res = "ok" /\ made.tree.parent[c] = NoNode
    BY <2>4, <2>5
  <2> HIDE DEF made
  <2> QED
    BY <2>1, <2>2, <2>3, <2>4, <2>6, PutInMade
<1> QED
  BY <1>1, <1>2

LEMMA ItemIs ==
    ASSUME NEW u, NEW E, NEW p, Opened(u, E, p), NEW n \in Node \ E
    PROVE  LET o == AppendItem(u, p, n)
           IN /\ o \in Outcomes /\ Spares(u, o.tree, E, {n})
              /\ Live(u, n) => o.res # "panic"
<1>1. Spares(u, u, E, {n}) /\ u \in Tree
  BY GrownSame, GrownSpares DEF Opened, Good
<1>2. CASE ~Live(u, n)
  BY <1>1, <1>2, Outcome DEF AppendItem, Panic
<1>3. CASE Live(u, n) /\ n \in Documents
  BY <1>1, <1>3, Outcome DEF AppendItem, Err
<1>4. CASE Live(u, n) /\ n \notin Documents /\ u.parent[n] = NoNode
  <2>1. AppendItem(u, p, n) = Unwrapped(AnyAppend(u, p, n))
    BY <1>4 DEF AppendItem, Movable, AppendMade
  <2> QED
    BY <1>4, <2>1, PutIn
<1>5. CASE Live(u, n) /\ n \notin Documents /\ u.parent[n] # NoNode
  <2> DEFINE c == CloneNode(u, n)
  <2>1. AppendItem(u, p, n) = AppendMade(c, p)
    BY <1>5 DEF AppendItem, Movable
  <2>2. Clones(u, n, c)
    BY ClonesIs DEF Opened
  <2> HIDE DEF c
  <2>3. c.res = "ok" => c.node \in Node \ Documents
    BY <1>5, <2>2, KindIs DEF Clones
  <2>4. LET o == AppendMade(c, p)
        IN o \in Outcomes /\ o.res \in {"ok", "undefined"} /\ Spares(u, o.tree, E, {})
    BY <2>2, <2>3, PutInMade DEF Clones
  <2> DEFINE o == AppendMade(c, p)
  <2> HIDE DEF o
  <2>5. Spares(u, o.tree, E, {n})
    BY <2>4, SparesOld DEF o
  <2> QED
    BY <2>1, <2>4, <2>5 DEF o
<1> QED
  BY <1>2, <1>3, <1>4, <1>5

\* The items of a value are live, and a text outside every tree is one once.
Steady(t, value) ==
    \A i, j \in 1 .. Len(value) : value[i] # String =>
        /\ Live(t, value[i])
        /\ i # j /\ value[i] = value[j] /\ value[i] \in Texts => t.parent[value[i]] # NoNode

\* The items of value up to k.
Used(value, k) == {x \in Node : x # String /\ \E i \in 1 .. Len(value) : i <= k /\ value[i] = x}

\* One more item of the value, with the strings before it.
LEMMA AppendNextIs ==
    ASSUME NEW t, NEW E, NEW p, Opened(t, E, p),
           NEW value, Len(value) \in Nat,
           \A i \in 1 .. Len(value) : value[i] \in (Node \ E) \cup {String},
           NEW k \in 1 .. Len(value) + 1, NEW o \in Outcomes,
           NEW L, \A x \in L : x \in Node \ E, Spares(t, o.tree, E, L),
           NEW M, \A x \in L : x \in M,
           k \in 1 .. Len(value) /\ value[k] # String => value[k] \in M
    PROVE  LET v == AppendNext(Flush(o, p, value, k), p, value, k)
           IN /\ v \in Outcomes /\ Spares(t, v.tree, E, M)
              /\ /\ Steady(t, value) /\ o.res # "panic"
                 /\ \A x \in L : x \in Used(value, k - 1)
                 => v.res # "panic"
<1> DEFINE f == Flush(o, p, value, k)
<1>1. ASSUME NEW u, Spares(t, u, E, L)
      PROVE  Opened(u, E, p)
  <2>1. E \cap L = {}
    OBVIOUS
  <2>2. Outside(u, E)
    BY <1>1, <2>1, OutsideStays DEF Opened
  <2> QED
    BY <1>1, <2>2 DEF Spares, Opened
<1>2. /\ f \in Outcomes /\ Spares(t, f.tree, E, L)
      /\ o.res # "panic" => f.res # "panic"
  <2>1. CASE f = o
    BY <2>1
  <2>2. CASE f = AppendStrings(o.tree, p)
    <3>1. f \in Outcomes /\ f.res \in {"ok", "undefined"} /\ Spares(o.tree, f.tree, E, {})
      BY <1>1, <2>2, StringsIs
    <3>2. Spares(t, f.tree, E, L \cup {})
      BY <3>1, SparesTwice DEF Opened
    <3> HIDE DEF f
    <3>3. L \cup {} = L
      OBVIOUS
    <3> QED
      BY <3>1, <3>2, <3>3
  <2> QED
    BY <2>1, <2>2 DEF Flush, AndThen
<1> HIDE DEF f
<1> DEFINE n == value[k]
           v == AppendNext(f, p, value, k)
<1>3. CASE v = f
  <2>1. Spares(t, f.tree, E, M)
    BY <1>2, SparesOld
  <2> QED
    BY <1>2, <1>3, <2>1 DEF f
<1>4. CASE v = AppendItem(f.tree, p, n) /\ k <= Len(value) /\ n # String
  <2>1. k \in 1 .. Len(value)
    BY <1>4
  <2>2. n \in Node \ E /\ n # String
    BY <1>4, <2>1
  <2>3. Opened(f.tree, E, p)
    BY <1>1, <1>2
  <2>4. n \in M
    BY <2>1, <2>2
  <2>5. ASSUME Steady(t, value), \A x \in L : x \in Used(value, k - 1) PROVE Live(f.tree, n)
    <3>1. Live(t, n)
      BY <2>1, <2>2, <2>5 DEF Steady
    <3>2. n \in L /\ n \in Texts => t.parent[n] # NoNode
      <4>1. SUFFICES ASSUME n \in L, n \in Texts PROVE t.parent[n] # NoNode
        OBVIOUS
      <4>2. PICK i \in 1 .. Len(value) : i <= k - 1 /\ value[i] = n
        BY <2>5, <4>1 DEF Used
      <4>3. i # k
        BY <4>2
      <4> QED
        BY <2>1, <2>2, <2>5, <4>1, <4>2, <4>3 DEF Steady
    <3> HIDE DEF n
    <3> QED
      BY <1>2, <2>2, <3>1, <3>2 DEF Spares, Live
  <2> HIDE DEF n
  <2>6. /\ v \in Outcomes /\ Spares(f.tree, v.tree, E, {n})
        /\ Live(f.tree, n) => v.res # "panic"
    BY <1>4, <2>2, <2>3, ItemIs
  <2> HIDE DEF v
  <2>7. Spares(t, v.tree, E, L \cup {n})
    BY <1>2, <2>6, SparesTwice DEF Opened
  <2>8. Spares(t, v.tree, E, M)
    BY <2>4, <2>7, SparesOld
  <2> QED
    BY <2>5, <2>6, <2>8 DEF v, f
<1>5. v = f \/ (v = AppendItem(f.tree, p, n) /\ k <= Len(value) /\ n # String)
  BY DEF AppendNext, AndThen
<1> QED
  BY <1>3, <1>4, <1>5

\* The whole value: it changes what is below the open elements, and takes nodes
\* of the value that have no parent; and it does not panic.
LEMMA XmlAppendIs ==
    ASSUME NEW t, NEW E, NEW p, Opened(t, E, p),
           NEW value, Len(value) \in Nat,
           \A i \in 1 .. Len(value) : value[i] \in (Node \ E) \cup {String}
    PROVE  LET o == XmlAppend(t, p, value)
           IN /\ o \in Outcomes /\ Spares(t, o.tree, E, Used(value, Len(value)))
              /\ Steady(t, value) => o.res # "panic"
<1> DEFINE N == Len(value) + 1
           M == Used(value, Len(value))
           X == {o \in Outcomes : Spares(t, o.tree, E, M)}
           b == Ok(t)
           Advance(i, o) == AppendNext(Flush(o, p, value, i), p, value, i)
           F == [i \in 1 .. N |-> [o \in X |-> Advance(i, o)]]
           Is(f) == f = [i \in 0 .. N |-> IF i = 0 THEN b ELSE Advance(i, f[i - 1])]
           done == CHOOSE f : Is(f)
<1>1. XmlAppend(t, p, value) = done[N]
  BY DEF XmlAppend
<1>2. N \in Nat /\ N = Len(value) + 1 /\ \A i \in 1 .. N : i - 1 \in 0 .. N /\ i \in 0 .. N /\ i # 0
  OBVIOUS
<1>3. \A i \in 1 .. Len(value) : value[i] # String => value[i] \in Node \ E
  OBVIOUS
<1>4. b \in X /\ b \in Outcomes /\ b.res # "panic" /\ b.tree = t
      /\ \A K : Spares(t, b.tree, E, K)
  BY GrownSame, GrownSpares, Outcome DEF Ok, Opened, Good
<1>5. ASSUME NEW i \in 1 .. N, NEW o \in X
      PROVE  Advance(i, o) \in X
  <2>1. \A x \in M : x \in Node \ E
    BY <1>3 DEF Used
  <2>2. i \in 1 .. Len(value) /\ value[i] # String => value[i] \in M
    BY <1>3 DEF Used
  <2>3. o \in Outcomes /\ Spares(t, o.tree, E, M)
    OBVIOUS
  <2> HIDE DEF M
  <2> QED
    BY <2>1, <2>2, <2>3, AppendNextIs
<1>6. ASSUME NEW i \in 1 .. N, NEW o \in Outcomes, Spares(t, o.tree, E, Used(value, i - 1)),
             Steady(t, value) => o.res # "panic"
      PROVE  LET v == Advance(i, o)
             IN /\ v \in Outcomes /\ Spares(t, v.tree, E, Used(value, i))
                /\ Steady(t, value) => v.res # "panic"
  <2> DEFINE L == Used(value, i - 1)
             J == Used(value, i)
  <2>1. \A x \in L : x \in Node \ E /\ x \in J
    BY <1>3 DEF Used
  <2>2. i \in 1 .. Len(value) /\ value[i] # String => value[i] \in J
    BY <1>3 DEF Used
  <2> HIDE DEF J
  <2>3. LET v == Advance(i, o)
        IN /\ v \in Outcomes /\ Spares(t, v.tree, E, J)
           /\ Steady(t, value) => v.res # "panic"
    <3> DEFINE v == Advance(i, o)
    <3>1. \A x \in L : x \in Used(value, i - 1)
      OBVIOUS
    <3>2. Spares(t, o.tree, E, L)
      BY <1>6
    <3> HIDE DEF L
    <3>3. /\ v \in Outcomes /\ Spares(t, v.tree, E, J)
          /\ Steady(t, value) /\ o.res # "panic" /\ (\A x \in L : x \in Used(value, i - 1))
             => v.res # "panic"
      BY <2>1, <2>2, <3>2, AppendNextIs
    <3> HIDE DEF v
    <3> QED
      BY <1>6, <3>1, <3>3 DEF v
  <2> QED
    BY <2>3 DEF J
<1> HIDE DEF N, M, X, b, Advance
<1>7. F \in StepsIn(N, X)
  <2>1. \A i \in 1 .. N : [o \in X |-> Advance(i, o)] \in [X -> X]
    BY <1>5
  <2> QED
    BY <2>1 DEF StepsIn
<1>8. PICK g \in [0 .. N -> X] :
        g[0] = b /\ \A i \in 1 .. N : g[i - 1] \in X /\ g[i] = F[i][g[i - 1]]
  <2>1. N \in Nat
    BY <1>2
  <2>2. b \in X
    BY <1>4
  <2> HIDE DEF F
  <2> QED
    BY <2>1, <2>2, <1>7, Iteration, SMTT(30)
<1>9. Is(g)
  <2>1. ASSUME NEW i \in 0 .. N PROVE g[i] = IF i = 0 THEN b ELSE Advance(i, g[i - 1])
    <3>1. i # 0 => i \in 1 .. N
      BY <1>2
    <3> QED
      BY <1>8, <3>1
  <2>2. g = [i \in 0 .. N |-> g[i]]
    BY <1>8
  <2> QED
    BY <2>1, <2>2
<1>10. Is(done)
  <2> HIDE DEF Is
  <2> QED
    BY <1>9
<1> HIDE DEF done, F
<1>11. done[0] = b /\ \A i \in 1 .. N : done[i] = Advance(i, done[i - 1])
  BY <1>2, <1>10
<1> HIDE DEF Is
<1> DEFINE T == {k \in 0 .. N : /\ done[k] \in Outcomes
                                /\ Spares(t, done[k].tree, E, Used(value, k))
                                /\ Steady(t, value) => done[k].res # "panic"}
<1>12. 0 \in T
  BY <1>2, <1>4, <1>11
<1>13. ASSUME NEW k \in 1 .. N, k - 1 \in T PROVE k \in T
  BY <1>2, <1>6, <1>11, <1>13
<1>14. \A k \in 0 .. N : k \in T
  <2> HIDE DEF T
  <2> QED
    BY <1>2, <1>12, <1>13, Counting
<1>15. /\ done[N] \in Outcomes /\ Spares(t, done[N].tree, E, Used(value, N))
       /\ Steady(t, value) => done[N].res # "panic"
  <2>1. N \in T
    BY <1>2, <1>14
  <2> QED
    BY <2>1
<1>16. Spares(t, done[N].tree, E, Used(value, Len(value)))
  <2>1. \A x \in Used(value, N) : x \in Used(value, Len(value))
    BY DEF Used
  <2> QED
    BY <1>15, <2>1, SparesOld
<1> QED
  BY <1>1, <1>15, <1>16

-----------------------------------------------------------------------------
(* Nodes that stay keep their place. *)

\* u is t after something was appended to nodes of E or whole trees are gone.
Survives(t, u, E) ==
    /\ Good(u)
    /\ \A x \in Node : /\ u.phase[x] = "fresh" => t.phase[x] = "fresh"
                       /\ t.phase[x] = "removed" => u.phase[x] = "removed"
    /\ \A x \in Node : t.phase[x] # "fresh" /\ Live(u, x) =>
          /\ x \notin E => u.kids[x] = t.kids[x]
          /\ t.parent[x] # NoNode => u.parent[x] = t.parent[x]

LEMMA SparesSurvives ==
    ASSUME NEW t, Good(t), NEW u, NEW E, NEW M, Spares(t, u, E, M)
    PROVE  Survives(t, u, E)
<1>1. \A x \in Node : t.phase[x] \in Phases
  BY DEF Good, Tree
<1>2. \A x \in Node : t.parent[x] # NoNode => u.parent[x] = t.parent[x]
  BY SparedParent
<1>3. \A x \in Node : t.phase[x] # "fresh" => u.phase[x] \in {t.phase[x], "removed"}
  BY DEF Spares
<1> QED
  BY <1>1, <1>2, <1>3 DEF Survives, Spares, Live

\* What is above a node is live.
LEMMA LiveAbove ==
    ASSUME NEW t, Good(t), NEW n \in Node, Live(t, n) \/ t.parent[n] # NoNode
    PROVE  \A s \in AncestorsOrSelf(t, n) : s \in Node /\ Live(t, s)
<1>1. Live(t, n)
  BY DEF Good, Forest, ParentsAreContainers
<1> DEFINE S == {s \in Container : Live(t, s)}
<1>2. \A m \in Node : t.parent[m] \in S \cup {NoNode}
  BY DEF Good, Forest, ParentsAreContainers
<1>3. S \in SUBSET Container /\ \A m \in S : m \in Node
  BY KindsApart
<1> HIDE DEF S
<1>4. Ancestors(t, n) \subseteq S
  BY <1>2, <1>3, AncestorsLeast
<1> QED
  BY <1>1, <1>4, KindsApart DEF AncestorsOrSelf, S

\* What was above a node is still above it.
LEMMA Homes ==
    ASSUME NEW t, Good(t), NEW u, NEW E, Survives(t, u, E),
           NEW m \in Node, Live(u, m), t.phase[m] # "fresh"
    PROVE  /\ Live(t, m)
           /\ \A s \in AncestorsOrSelf(t, m) :
                 s \in AncestorsOrSelf(u, m) /\ Live(u, s) /\ Live(t, s) /\ s \in Node
           /\ Ancestors(t, m) \subseteq Ancestors(u, m)
<1>1. Live(t, m) /\ Good(u)
  BY DEF Survives, Live, Good, Tree, Phases
<1> DEFINE S == {s \in Ancestors(u, m) : t.phase[s] # "fresh"}
<1>2. \A s \in S : s \in Container /\ s \in Node /\ Live(u, s)
  BY <1>1, AboveOrder, LiveAbove, KindsApart DEF AncestorsOrSelf
<1>3. ASSUME NEW x \in Node, x \in AncestorsOrSelf(u, m), t.phase[x] # "fresh", Live(u, x)
      PROVE  t.parent[x] \in S \cup {NoNode}
  <2>1. SUFFICES ASSUME t.parent[x] # NoNode PROVE t.parent[x] \in S
    OBVIOUS
  <2>2. t.parent[x] \in Container /\ t.parent[x] \in Node /\ Live(t, t.parent[x])
    BY <2>1, KindsApart DEF Good, Forest, ParentsAreContainers
  <2>3. u.parent[x] = t.parent[x]
    BY <1>3, <2>1 DEF Survives
  <2>4. u.parent[x] \in Ancestors(u, x)
    BY <1>1, <2>1, <2>3, AboveParent
  <2>5. u.parent[x] \in Ancestors(u, m)
    BY <1>1, <1>3, <2>2, <2>3, <2>4, AboveOrder
  <2> QED
    BY <2>2, <2>3, <2>5 DEF Live
<1>4. \A x \in S : t.parent[x] \in S \cup {NoNode}
  BY <1>2, <1>3 DEF AncestorsOrSelf
<1>5. t.parent[m] \in S \cup {NoNode}
  BY <1>3 DEF AncestorsOrSelf
<1>6. S \in SUBSET Container
  BY <1>2
<1> HIDE DEF S
<1>7. Ancestors(t, m) \subseteq S
  BY <1>4, <1>5, <1>6, AncestorsLeast
<1>8. \A s \in AncestorsOrSelf(t, m) : s \in Node /\ Live(t, s)
  BY <1>1, LiveAbove
<1> QED
  BY <1>1, <1>2, <1>7, <1>8 DEF S, AncestorsOrSelf

\* Below a node that nothing is appended to, everything was there.
LEMMA HomesBack ==
    ASSUME NEW t, Good(t), NEW u, NEW E, Survives(t, u, E),
           \A e \in E : t.parent[e] = NoNode,
           NEW s \in Node \ E, Live(u, s), t.phase[s] # "fresh"
    PROVE  \A z \in Subtree(u, s) :
              z \in Subtree(t, s) /\ Live(u, z) /\ Live(t, z) /\ t.phase[z] # "fresh"
<1> DEFINE Old(z) == z \in Subtree(t, s) /\ t.phase[z] # "fresh" /\ Live(u, z)
           Z == {z \in Subtree(u, s) : ~Old(z)}
<1>1. Good(u)
  BY DEF Survives
<1>2. Z = {}
  <2>1. SUFFICES ASSUME Z # {} PROVE FALSE
    OBVIOUS
  <2>2. Z \in SUBSET Node
    BY DEF Subtree
  <2>3. PICK x \in Z : u.parent[x] \notin Z
    <3> HIDE DEF Z
    <3> QED
      BY <1>1, <2>1, <2>2, TopMost
  <2>4. x \in Node /\ s \in AncestorsOrSelf(u, x) /\ ~Old(x)
    BY <2>3 DEF Subtree
  <2>5. x # s
    BY <2>4 DEF Subtree, AncestorsOrSelf
  <2> DEFINE p == u.parent[x]
  <2>6. s \in Ancestors(u, x)
    BY <2>4, <2>5 DEF AncestorsOrSelf
  <2>7. p \in Node /\ p \in Container /\ s \in AncestorsOrSelf(u, p) /\ Live(u, x)
    BY <1>1, <2>4, <2>6, AboveParent, KindsApart DEF Good, Forest, ParentsAreContainers
  <2>8. p \in Subtree(u, s)
    BY <2>7 DEF Subtree
  <2>9. Old(p)
    BY <2>3, <2>8
  <2> HIDE DEF Z
  <2>10. p \notin E
    <3>1. CASE p = s
      BY <3>1
    <3>2. CASE p # s
      <4>1. s \in Ancestors(t, p)
        BY <2>9, <3>2 DEF Subtree, AncestorsOrSelf
      <4>2. t.parent[p] # NoNode
        BY <2>7, <4>1, AboveParent
      <4> QED
        BY <4>2
    <3> QED
      BY <3>1, <3>2
  <2>11. u.kids[p] = t.kids[p]
    BY <2>7, <2>9, <2>10 DEF Survives
  <2>12. x \in Range(u.kids[p])
    BY <1>1, <2>4, <2>7 DEF Good, Forest, KidsAgree
  <2>13. t.parent[x] = p
    BY <2>4, <2>7, <2>11, <2>12 DEF Good, Forest, KidsAgree
  <2> HIDE DEF p
  <2>14. p # NoNode
    BY <2>7, KindsApart
  <2>15. Live(t, x) /\ Ancestors(t, x) = AncestorsOrSelf(t, p)
    BY <2>4, <2>13, <2>14, AboveParent DEF Good, Forest, ParentsAreContainers
  <2>16. s \in AncestorsOrSelf(t, x)
    BY <2>9, <2>15 DEF Subtree, AncestorsOrSelf
  <2> QED
    BY <2>4, <2>7, <2>15, <2>16 DEF Subtree, Live
<1>3. \A z \in Subtree(u, s) : z \in Node /\ Old(z)
  BY <1>2 DEF Subtree
<1> HIDE DEF Old
<1>4. \A z \in Node : Old(z) => Live(t, z)
  BY DEF Old, Survives, Live, Good, Tree, Phases
<1> QED
  BY <1>3, <1>4 DEF Old

\* The nodes of one tree that is not open keep their order.
LEMMA BeforeKept ==
    ASSUME NEW t, Good(t), NEW u, NEW E, Survives(t, u, E),
           \A e \in E : t.parent[e] = NoNode,
           NEW s \in Node \ E, Live(u, s), t.phase[s] # "fresh",
           NEW m \in Subtree(u, s), NEW n \in Subtree(u, s)
    PROVE  Before(u, m, n) <=> Before(t, m, n)
<1>1. /\ m \in Node /\ Live(u, m) /\ t.phase[m] # "fresh" /\ s \in AncestorsOrSelf(t, m)
      /\ n \in Node /\ Live(u, n) /\ t.phase[n] # "fresh" /\ s \in AncestorsOrSelf(t, n)
  BY HomesBack DEF Subtree
<1>2. Good(u)
  BY DEF Survives
<1>3. ASSUME NEW a \in Node, NEW b \in Node, Before(t, a, b),
             Live(u, a), t.phase[a] # "fresh", s \in AncestorsOrSelf(t, a),
             Live(u, b), t.phase[b] # "fresh", s \in AncestorsOrSelf(t, b)
      PROVE  Before(u, a, b)
  <2>1. CASE a \in Ancestors(t, b)
    <3>1. a \in Ancestors(u, b)
      BY <1>3, <2>1, Homes
    <3> QED
      BY <3>1 DEF Before
  <2>2. CASE \E p \in Node, i, j \in Int : Beyond(t, p, i, j, a, b)
    <3>1. PICK p \in Node, i \in Int, j \in Int : Beyond(t, p, i, j, a, b)
      BY <2>2
    <3>2. p \in Container /\ i < j /\ p \in Ancestors(t, a)
      BY <3>1, BeyondAbove
    <3>3. s \in AncestorsOrSelf(t, p)
      <4>1. i # j /\ i \in DOMAIN t.kids[p] /\ j \in DOMAIN t.kids[p]
            /\ t.kids[p][i] \in AncestorsOrSelf(t, a) /\ t.kids[p][j] \in AncestorsOrSelf(t, b)
        BY <3>1 DEF Beyond
      <4> QED
        BY <1>3, <4>1, Fork
    <3>4. p \notin E
      <4>1. CASE p = s
        BY <4>1
      <4>2. CASE p # s
        <5>1. s \in Ancestors(t, p)
          BY <3>3, <4>2 DEF AncestorsOrSelf
        <5>2. t.parent[p] # NoNode
          BY <5>1, AboveParent
        <5> QED
          BY <5>2
      <4> QED
        BY <4>1, <4>2
    <3>5. Live(u, p) /\ t.phase[p] # "fresh"
      BY <1>3, <3>2, Homes DEF AncestorsOrSelf, Live
    <3>6. u.kids[p] = t.kids[p]
      BY <3>4, <3>5 DEF Survives
    <3>7. /\ AncestorsOrSelf(t, a) \subseteq AncestorsOrSelf(u, a)
          /\ AncestorsOrSelf(t, b) \subseteq AncestorsOrSelf(u, b)
      BY <1>3, Homes
    <3>8. Beyond(u, p, i, j, a, b)
      BY <3>1, <3>6, <3>7 DEF Beyond
    <3> QED
      BY <1>2, <3>8, BeforeCases
  <2> QED
    BY <1>3, <2>1, <2>2, BeforeCases
<1>4. Before(t, m, n) => Before(u, m, n)
  BY <1>1, <1>3
<1>5. ASSUME Before(u, m, n), ~Before(t, m, n) PROVE FALSE
  <2>1. m # n
    BY <1>1, <1>2, <1>5, BeforeAsymmetric
  <2>2. Before(t, n, m)
    BY <1>1, <1>5, <2>1, BeforeTotal
  <2>3. Before(u, n, m)
    BY <1>1, <1>3, <2>2
  <2> QED
    BY <1>1, <1>2, <1>5, <2>3, BeforeAsymmetric
<1> QED
  BY <1>4, <1>5

\* Nothing comes to be between two nodes of one tree that is not open.
LEMMA BetweenKept ==
    ASSUME NEW t, Good(t), NEW u, NEW E, Survives(t, u, E),
           \A e \in E : t.parent[e] = NoNode,
           NEW s \in Node \ E, Live(u, s), t.phase[s] # "fresh",
           NEW m \in Subtree(u, s), NEW n \in Subtree(u, s)
    PROVE  Cardinality(Between(u, m, n)) <= Cardinality(Between(t, m, n))
<1>1. m \in Node /\ n \in Node /\ s \in AncestorsOrSelf(u, m) /\ s \in AncestorsOrSelf(u, n)
  BY DEF Subtree
<1>2. Good(u)
  BY DEF Survives
<1>3. ASSUME NEW z \in Node, Before(u, m, z), Before(u, z, n)
      PROVE  Before(t, m, z) /\ Before(t, z, n)
  <2>1. s \in AncestorsOrSelf(u, z)
    BY <1>1, <1>2, <1>3, BetweenInside
  <2>2. z \in Subtree(u, s)
    BY <2>1 DEF Subtree
  <2> QED
    BY <1>3, <2>2, BeforeKept
<1>4. Between(u, m, n) \subseteq Between(t, m, n)
  BY <1>3 DEF Between
<1>5. Between(t, m, n) \subseteq Node
  BY DEF Between
<1>6. IsFiniteSet(Between(t, m, n))
  BY <1>5, FiniteNodes
<1> QED
  BY <1>4, <1>6, FS_Subset

-----------------------------------------------------------------------------
(* Orders agree with the trees. *)

Annotations == [order : [Node -> {NoOrder} \cup (Int \X Int)], last : Nat]

\* m and n are in one tree, and have orders of one document.
Alike(t, a, m, n) ==
    /\ Live(t, m) /\ Live(t, n) /\ Annotated(a, m) /\ Annotated(a, n)
    /\ a.order[m][1] = a.order[n][1]

\* Ids are given out one by one, to nodes.
IdsGiven(t, a) ==
    \A n \in Node : Annotated(a, n) =>
        t.phase[n] # "fresh" /\ a.order[n][1] \in 1 .. a.last

\* Nodes of one id are in one tree that nothing is appended to.
Housed(t, a, E) ==
    \A m, n \in Node : Alike(t, a, m, n) =>
        \E s \in Node \ E : s \in AncestorsOrSelf(t, m) /\ s \in AncestorsOrSelf(t, n)

\* There is a number for every node between two nodes of one id.
Gapped(t, a) ==
    \A m, n \in Node : Alike(t, a, m, n) /\ Before(t, m, n) =>
        a.order[n][2] - a.order[m][2] >= Cardinality(Between(t, m, n)) + 1

\* A document has one id, that of its root.
OneId(t, a, R) ==
    \A r \in R : \A n \in Subtree(t, r) : Annotated(a, n) =>
        Annotated(a, r) /\ a.order[n][1] = a.order[r][1]

\* What is true of the orders: E are the open elements and R the documents.
Notes(t, a, E, R) ==
    a \in Annotations /\ IdsGiven(t, a) /\ Housed(t, a, E) /\ Gapped(t, a) /\ OneId(t, a, R)

\* Two different nodes of one id are ordered as the tree has them.
LEMMA NotesAgree ==
    ASSUME NEW t, Good(t), NEW a, NEW E, NEW R, Notes(t, a, E, R),
           NEW m \in Node, NEW n \in Node, m # n, Alike(t, a, m, n)
    PROVE  SameTree(t, m, n) /\ (Less(a.order[m], a.order[n]) <=> Before(t, m, n))
<1>1. PICK s \in Node : s \in AncestorsOrSelf(t, m) /\ s \in AncestorsOrSelf(t, n)
  BY DEF Notes, Housed
<1>2. SameTree(t, m, n)
  BY <1>1, SameTreeMeets
<1>3. a.order[m] \in Int \X Int /\ a.order[n] \in Int \X Int
  BY DEF Notes, Annotations, Alike, Annotated
<1>4. \A x, y \in Node : Alike(t, a, x, y) /\ Before(t, x, y) => a.order[y][2] - a.order[x][2] >= 1
  <2>1. \A x, y \in Node : Cardinality(Between(t, x, y)) \in Nat
    BY RankGap
  <2>2. \A x, y \in Node : Alike(t, a, x, y) => a.order[y][2] \in Int /\ a.order[x][2] \in Int
    BY DEF Notes, Annotations, Alike, Annotated
  <2> QED
    BY <2>1, <2>2 DEF Notes, Gapped
<1>5. Less(a.order[m], a.order[n]) <=> a.order[m][2] < a.order[n][2]
  <2>1. a.order[m][1] = a.order[n][1] /\ a.order[m][1] \in Int /\ a.order[n][1] \in Int
    BY <1>3 DEF Alike
  <2> QED
    BY <2>1 DEF Less
<1>6. a.order[m][2] \in Int /\ a.order[n][2] \in Int
  BY <1>3
<1>7. Before(t, m, n) => a.order[m][2] < a.order[n][2]
  BY <1>4, <1>6
<1>8. Before(t, n, m) => ~(a.order[m][2] < a.order[n][2])
  <2>1. Alike(t, a, n, m)
    BY DEF Alike
  <2> QED
    BY <1>4, <1>6, <2>1
<1>9. Before(t, m, n) \/ Before(t, n, m)
  BY <1>1, BeforeTotal
<1> QED
  BY <1>2, <1>5, <1>7, <1>8, <1>9

\* The orders stay right whatever is appended to open elements.
LEMMA NotesKept ==
    ASSUME NEW t, Good(t), NEW a, NEW E, NEW R, Notes(t, a, E, R),
           NEW u, Survives(t, u, E), \A e \in E : t.parent[e] = NoNode,
           \A r \in R : r \in Node \ E,
           NEW F, \A e \in F : e \in E \/ (e \in Node /\ t.phase[e] = "fresh"),
           NEW Q, \A r \in Q : \/ r \in R /\ Live(u, r) /\ t.phase[r] # "fresh"
                               \/ \A x \in Subtree(u, r) : t.phase[x] = "fresh"
    PROVE  Notes(u, a, F, Q)
<1>1. \A n \in Node : Annotated(a, n) => t.phase[n] # "fresh" /\ u.phase[n] # "fresh"
  BY DEF Notes, IdsGiven, Survives
<1>2. ASSUME NEW m \in Node, NEW n \in Node, Alike(u, a, m, n)
      PROVE  \E s \in Node \ E : /\ s \notin F /\ Live(u, s) /\ t.phase[s] # "fresh"
                                 /\ m \in Subtree(u, s) /\ n \in Subtree(u, s)
                                 /\ Alike(t, a, m, n)
  <2>1. /\ Live(u, m) /\ t.phase[m] # "fresh" /\ Live(t, m)
        /\ Live(u, n) /\ t.phase[n] # "fresh" /\ Live(t, n)
    <3>1. Live(u, m) /\ t.phase[m] # "fresh" /\ Live(u, n) /\ t.phase[n] # "fresh"
      BY <1>1, <1>2 DEF Alike
    <3> QED
      BY <3>1, Homes
  <2>2. Alike(t, a, m, n)
    BY <1>2, <2>1 DEF Alike
  <2>3. PICK s \in Node \ E : s \in AncestorsOrSelf(t, m) /\ s \in AncestorsOrSelf(t, n)
    BY <2>2 DEF Notes, Housed
  <2>4. /\ s \in AncestorsOrSelf(u, m) /\ Live(u, s) /\ Live(t, s)
        /\ s \in AncestorsOrSelf(u, n)
    BY <2>1, <2>3, Homes
  <2> QED
    BY <2>2, <2>3, <2>4 DEF Subtree, Live
<1>3. IdsGiven(u, a)
  BY <1>1 DEF Notes, IdsGiven
<1>4. Housed(u, a, F)
  BY <1>2 DEF Housed, Subtree
<1>5. Gapped(u, a)
  <2>1. SUFFICES ASSUME NEW m \in Node, NEW n \in Node, Alike(u, a, m, n), Before(u, m, n)
                 PROVE  a.order[n][2] - a.order[m][2] >= Cardinality(Between(u, m, n)) + 1
    BY DEF Gapped
  <2>2. PICK s \in Node \ E : /\ Live(u, s) /\ t.phase[s] # "fresh"
                              /\ m \in Subtree(u, s) /\ n \in Subtree(u, s)
                              /\ Alike(t, a, m, n)
    BY <1>2, <2>1
  <2>3. Before(t, m, n)
    BY <2>1, <2>2, BeforeKept
  <2>4. Cardinality(Between(u, m, n)) <= Cardinality(Between(t, m, n))
    BY <2>2, BetweenKept
  <2>5. a.order[n][2] - a.order[m][2] >= Cardinality(Between(t, m, n)) + 1
    BY <2>2, <2>3 DEF Notes, Gapped
  <2>6. Cardinality(Between(u, m, n)) \in Nat /\ Cardinality(Between(t, m, n)) \in Nat
    BY RankGap DEF Survives
  <2>7. a.order[n][2] \in Int /\ a.order[m][2] \in Int
    BY <2>1 DEF Notes, Annotations, Alike, Annotated
  <2> QED
    BY <2>4, <2>5, <2>6, <2>7
<1>6. OneId(u, a, Q)
  <2>1. SUFFICES ASSUME NEW r \in Q, NEW n \in Subtree(u, r), Annotated(a, n)
                 PROVE  Annotated(a, r) /\ a.order[n][1] = a.order[r][1]
    BY DEF OneId
  <2>2. n \in Node /\ t.phase[n] # "fresh"
    BY <1>1, <2>1 DEF Subtree
  <2>3. r \in R /\ r \in Node \ E /\ Live(u, r) /\ t.phase[r] # "fresh"
    BY <2>1, <2>2
  <2>4. n \in Subtree(t, r)
    BY <2>1, <2>3, HomesBack
  <2> QED
    BY <2>1, <2>3, <2>4 DEF Notes, OneId
<1> QED
  BY <1>3, <1>4, <1>5, <1>6 DEF Notes

\* A tree that has just been built holds new nodes only.
LEMMA NewTree ==
    ASSUME NEW t, Good(t), NEW u, Grown(t, u), NEW d \in Node, t.phase[d] = "fresh"
    PROVE  \A x \in Subtree(u, d) : t.phase[x] = "fresh"
<1> DEFINE Z == {x \in Subtree(u, d) : t.phase[x] # "fresh"}
<1>1. SUFFICES ASSUME Z # {} PROVE FALSE
  OBVIOUS
<1>2. Z \in SUBSET Node /\ Good(u)
  BY DEF Subtree, Grown
<1>3. PICK x \in Z : u.parent[x] \notin Z
  <2> HIDE DEF Z
  <2> QED
    BY <1>1, <1>2, TopMost
<1>4. x \in Node /\ t.phase[x] # "fresh" /\ x # d /\ d \in Ancestors(u, x)
  BY <1>3 DEF Subtree, AncestorsOrSelf
<1>5. u.parent[x] # NoNode /\ u.parent[x] \in Node /\ d \in AncestorsOrSelf(u, u.parent[x])
  BY <1>2, <1>4, AboveParent, KindsApart
<1>6. u.parent[x] = t.parent[x]
  BY <1>4 DEF Grown
<1>7. Live(t, u.parent[x])
  BY <1>4, <1>5, <1>6 DEF Good, Forest, ParentsAreContainers
<1>8. u.parent[x] \in Z
  BY <1>5, <1>7 DEF Subtree, Live
<1> QED
  BY <1>3, <1>8

\* b is a with the orders of nodes from found up to n.
Added(t, a, b, found, n) ==
    /\ b \in Annotations /\ b.last \in {a.last, a.last + 1}
    /\ Annotated(b, found) /\ b.order[found][1] \in 1 .. b.last
    /\ Annotated(a, found) => b.last = a.last
    /\ ~Annotated(a, found) => b.order[found][1] = a.last + 1 /\ b.last = a.last + 1
    /\ \A x \in Node : Annotated(a, x) => b.order[x] = a.order[x]
    /\ \A x \in Node : Annotated(b, x) /\ ~Annotated(a, x) =>
          /\ x = found \/ Before(t, found, x)
          /\ x = n \/ Before(t, x, n)
          /\ b.order[x][1] = b.order[found][1]
          /\ b.order[x][2] = b.order[found][2] + (Rank(t, x) - Rank(t, found))

\* A walk is at a node as many steps as it is ahead of the start.
LEMMA OnwardAt ==
    ASSUME NEW t, Good(t), NEW found \in Node, NEW n \in Node, NEW s, Onward(t, found, n, s),
           NEW x \in Range(Tail(s))
    PROVE  LET k == CHOOSE j \in DOMAIN s : s[j] = x
           IN /\ x \in Node /\ k \in Int /\ k - 1 = Rank(t, x) - Rank(t, found)
              /\ x # found /\ Before(t, found, x)
              /\ x = n \/ Before(t, x, n)
<1> DEFINE k == CHOOSE j \in DOMAIN s : s[j] = x
<1>1. s \in Seq(Node) /\ Len(s) \in Nat /\ DOMAIN s = 1 .. Len(s) /\ Len(s) > 0
  BY DEF Onward
<1>2. \E j \in 2 .. Len(s) : s[j] = x
  <2>1. Tail(s) \in Seq(Node) /\ Len(Tail(s)) = Len(s) - 1
        /\ \A i \in 1 .. Len(s) - 1 : Tail(s)[i] = s[i + 1]
    BY <1>1
  <2>2. PICK i \in DOMAIN Tail(s) : Tail(s)[i] = x
    BY DEF Range
  <2>3. i \in 1 .. Len(s) - 1 /\ i + 1 \in 2 .. Len(s)
    BY <1>1, <2>1, <2>2
  <2> QED
    BY <2>1, <2>2, <2>3
<1>3. PICK j \in 2 .. Len(s) : s[j] = x
  BY <1>2
<1>4. j \in DOMAIN s
  BY <1>1
<1>5. k \in DOMAIN s /\ s[k] = x
  BY <1>3, <1>4
<1> HIDE DEF k
<1>6. x \in Node /\ k \in 1 .. Len(s)
  BY <1>1, <1>5
<1>7. Rank(t, x) = Rank(t, found) + k - 1 /\ Rank(t, x) = Rank(t, found) + j - 1
  BY <1>1, <1>3, <1>5, <1>6 DEF Onward
<1>8. Rank(t, found) \in Nat /\ Rank(t, x) \in Nat
  BY <1>6, RankGap
<1>9. Rank(t, x) # Rank(t, found)
  BY <1>7, <1>8
<1>10. x # found
  BY <1>9
<1>11. (x = n \/ Before(t, x, n)) /\ (x = found \/ Before(t, found, x))
  BY <1>5, <1>6 DEF Onward
<1>12. k - 1 = Rank(t, x) - Rank(t, found)
  BY <1>6, <1>7, <1>8
<1> QED
  BY <1>6, <1>10, <1>11, <1>12 DEF k

LEMMA GetOrderAdds ==
    ASSUME NEW t, Good(t), NEW a \in Annotations, IdsGiven(t, a),
           NEW n \in Node, ~Annotated(a, n)
    PROVE  LET o == GetOrder(t, a, n)
           IN o.res = "ok" /\ Added(t, a, o.notes, FindAnnotated(t, a, n), n)
<1> DEFINE found == FindAnnotated(t, a, n)
           c == Started(a, found)
           walk == WalkOn(t, found, n)
           b == Number(c, walk)
<1>1. Bare(t, a, n, found)
  BY FindAnnotatedIs
<1> HIDE DEF found
<1>2. found \in Node /\ (found = n \/ Before(t, found, n))
  BY <1>1 DEF Bare
<1>3. Onward(t, found, n, walk) /\ Last(walk) = n
  BY <1>2, WalkOnIs
<1>4. GetOrder(t, a, n) = [notes |-> b, res |-> "ok"]
  BY <1>3 DEF GetOrder, GetFrom, AnnotateFrom, found
<1> HIDE DEF walk
<1>5. \A i, p \in Int : <<i, p>> # NoOrder /\ <<i, p>> \in Int \X Int
                        /\ <<i, p>>[1] = i /\ <<i, p>>[2] = p
  BY DEF NoOrder
<1>6. \A x \in Node : Annotated(a, x) => /\ a.order[x] \in Int \X Int
                                         /\ a.order[x][1] \in Int /\ a.order[x][2] \in Int
  BY DEF Annotations, Annotated
<1>7. a.last \in Nat /\ a.order \in [Node -> {NoOrder} \cup (Int \X Int)]
  BY DEF Annotations
<1>8. /\ c \in Annotations /\ c.last \in {a.last, a.last + 1}
      /\ Annotated(c, found) /\ c.order[found][1] \in 1 .. c.last
      /\ c.order[found][1] \in Int /\ c.order[found][2] \in Int
      /\ Annotated(a, found) => c = a
      /\ ~Annotated(a, found) => c.order[found][1] = a.last + 1 /\ c.last = a.last + 1
      /\ \A x \in Node : x # found => c.order[x] = a.order[x]
  <2>1. CASE Annotated(a, found)
    <3>1. c = a
      BY <2>1 DEF Started
    <3> QED
      BY <1>2, <1>6, <2>1, <3>1 DEF IdsGiven
  <2>2. CASE ~Annotated(a, found)
    <3> DEFINE order == [a.order EXCEPT ![found] = <<a.last + 1, 0>>]
    <3>1. c = [order |-> order, last |-> a.last + 1]
      <4>1. c = [a EXCEPT !.order[found] = <<a.last + 1, 0>>, !.last = a.last + 1]
        BY <2>2 DEF Started, Start
      <4> QED
        BY <4>1 DEF Annotations
    <3>2. a.last + 1 \in Nat /\ a.last + 1 \in Int /\ 0 \in Int /\ a.last + 1 \in 1 .. a.last + 1
      BY <1>7
    <3>3. /\ order[found] = <<a.last + 1, 0>>
          /\ \A x \in Node : x # found => order[x] = a.order[x]
          /\ order \in [Node -> {NoOrder} \cup (Int \X Int)]
      BY <1>2, <1>5, <1>7, <3>2
    <3> HIDE DEF order
    <3>4. c \in Annotations /\ c.order = order /\ c.last = a.last + 1
      BY <3>1, <3>2, <3>3 DEF Annotations
    <3>5. Annotated(c, found) /\ c.order[found][1] = a.last + 1 /\ c.order[found][2] = 0
      BY <1>5, <3>2, <3>3, <3>4 DEF Annotated
    <3> QED
      BY <2>2, <3>2, <3>3, <3>4, <3>5
  <2> QED
    BY <2>1, <2>2
<1> HIDE DEF c
<1> DEFINE id == c.order[found][1]
           pos == c.order[found][2]
           at(x) == <<id, pos + (CHOOSE j \in DOMAIN walk : walk[j] = x) - 1>>
           numbers == [x \in Node |-> IF x \in Range(Tail(walk)) THEN at(x) ELSE c.order[x]]
<1>9. Head(walk) = found
  <2>1. walk \in Seq(Node) /\ Len(walk) > 0 /\ walk[1] = found
    BY <1>3 DEF Onward
  <2> QED
    BY <2>1
<1>10. b = [order |-> numbers, last |-> c.last]
  <2>1. b = [c EXCEPT !.order = [m \in Node |->
               IF m \in Range(Tail(walk))
               THEN <<id, pos + (CHOOSE k \in DOMAIN walk : walk[k] = m) - 1>>
               ELSE @[m]]]
    BY <1>9 DEF Number
  <2> QED
    BY <1>8, <2>1 DEF Annotations
<1> HIDE DEF b
<1>11. ASSUME NEW x \in Range(Tail(walk))
       PROVE  /\ x \in Node /\ Before(t, found, x) /\ x # found /\ (x = n \/ Before(t, x, n))
              /\ at(x) = <<id, pos + (Rank(t, x) - Rank(t, found))>>
              /\ pos + (Rank(t, x) - Rank(t, found)) \in Int
  <2> DEFINE k == CHOOSE j \in DOMAIN walk : walk[j] = x
  <2>1. /\ x \in Node /\ k \in Int /\ k - 1 = Rank(t, x) - Rank(t, found)
        /\ x # found /\ Before(t, found, x) /\ (x = n \/ Before(t, x, n))
    BY <1>2, <1>3, OnwardAt
  <2>2. at(x) = <<id, pos + k - 1>>
    OBVIOUS
  <2> HIDE DEF k, at, id
  <2>3. pos \in Int /\ Rank(t, x) \in Nat /\ Rank(t, found) \in Nat
    BY <1>2, <1>8, <2>1, RankGap
  <2> HIDE DEF pos
  <2>4. pos + k - 1 = pos + (Rank(t, x) - Rank(t, found))
    BY <2>1, <2>3
  <2> QED
    BY <2>1, <2>2, <2>3, <2>4
<1>12. \A x \in Node : x \in Range(Tail(walk)) => ~Annotated(a, x)
  BY <1>1, <1>11 DEF Bare
<1>13. \A x \in Range(Tail(walk)) : at(x) \in Int \X Int
  BY <1>5, <1>8, <1>11
<1> HIDE DEF at
<1>14. numbers \in [Node -> {NoOrder} \cup (Int \X Int)]
  <2>1. \A x \in Node : c.order[x] \in {NoOrder} \cup (Int \X Int)
    BY <1>8 DEF Annotations
  <2> QED
    BY <1>13, <2>1
<1>15. /\ \A x \in Node : x \notin Range(Tail(walk)) => numbers[x] = c.order[x]
       /\ \A x \in Range(Tail(walk)) : numbers[x] = at(x)
       /\ found \notin Range(Tail(walk))
  BY <1>11
<1> HIDE DEF numbers
<1>16. b \in Annotations /\ b.order = numbers /\ b.last = c.last
  BY <1>8, <1>10, <1>14 DEF Annotations
<1>17. b.order[found] = c.order[found] /\ Annotated(b, found)
  BY <1>2, <1>8, <1>15, <1>16 DEF Annotated
<1>18. \A x \in Node : Annotated(a, x) => b.order[x] = a.order[x]
  BY <1>8, <1>12, <1>15, <1>16
<1>19. ASSUME NEW x \in Node, Annotated(b, x), ~Annotated(a, x)
       PROVE  /\ x = found \/ Before(t, found, x)
              /\ x = n \/ Before(t, x, n)
              /\ b.order[x][1] = b.order[found][1]
              /\ b.order[x][2] = b.order[found][2] + (Rank(t, x) - Rank(t, found))
  <2>1. CASE x \in Range(Tail(walk))
    <3>1. b.order[x] = <<id, pos + (Rank(t, x) - Rank(t, found))>>
      BY <1>11, <1>15, <1>16, <2>1
    <3>2. id \in Int /\ pos + (Rank(t, x) - Rank(t, found)) \in Int
      BY <1>8, <1>11, <2>1
    <3>3. b.order[x][1] = id /\ b.order[x][2] = pos + (Rank(t, x) - Rank(t, found))
      BY <3>1, <3>2
    <3> QED
      BY <1>11, <1>17, <2>1, <3>3
  <2>2. CASE x \notin Range(Tail(walk))
    <3>1. x = found
      BY <1>8, <1>15, <1>16, <1>19, <2>2 DEF Annotated
    <3>2. Rank(t, found) - Rank(t, found) = 0 /\ b.order[found][2] \in Int
      BY <1>2, <1>8, <1>17, RankGap
    <3>3. b.order[found][2] = b.order[found][2] + (Rank(t, found) - Rank(t, found))
      BY <3>2
    <3> QED
      BY <1>2, <3>1, <3>3
  <2> QED
    BY <2>1, <2>2
<1>20. Added(t, a, b, found, n)
  BY <1>8, <1>16, <1>17, <1>18, <1>19 DEF Added
<1> QED
  BY <1>4, <1>20 DEF found, b

\* Giving a node its order keeps the orders right.
LEMMA AddedNotes ==
    ASSUME NEW t, Good(t), NEW a, NEW E, NEW R, Notes(t, a, E, R),
           NEW n \in Node, ~Annotated(a, n), Live(t, n), Root(t, n) \notin E,
           \A r \in R : r \in Node /\ t.parent[r] = NoNode,
           NEW found, Bare(t, a, n, found), Annotated(a, found) \/ t.parent[found] = NoNode,
           NEW b, Added(t, a, b, found, n)
    PROVE  Notes(t, b, E, R)
<1> DEFINE root == Root(t, n)
           id == b.order[found][1]
           Got(x) == Annotated(b, x) /\ ~Annotated(a, x)
           Step(x, y) == b.order[y][2] - b.order[x][2] >= Rank(t, y) - Rank(t, x)
<1>1. /\ root \in Node \ E /\ root \in AncestorsOrSelf(t, n) /\ Live(t, root)
      /\ t.parent[root] = NoNode
  BY RootIs, LiveAbove
<1>2. found \in Node /\ (found = n \/ Before(t, found, n))
  BY DEF Bare
<1>3. ASSUME NEW x \in Node, Root(t, x) = root
      PROVE  root \in AncestorsOrSelf(t, x) /\ Live(t, x)
  <2>1. root \in AncestorsOrSelf(t, x)
    BY <1>3, RootIs
  <2>2. x # root => t.parent[x] # NoNode
    BY <2>1, AboveParent DEF AncestorsOrSelf
  <2>3. t.parent[x] # NoNode => Live(t, x)
    BY DEF Good, Forest, ParentsAreContainers
  <2> QED
    BY <1>1, <2>1, <2>2, <2>3
<1>4. \A x, y \in Node : Before(t, x, y) => Root(t, x) = Root(t, y)
  BY BeforeMeets, SameTreeMeets DEF SameTree
<1>5. Root(t, found) = root
  BY <1>2, <1>4
<1>6. \A x \in Node : Got(x) => /\ Root(t, x) = root /\ b.order[x][1] = id
                                /\ x = found \/ Before(t, found, x)
                                /\ x = n \/ Before(t, x, n)
  BY <1>2, <1>4, <1>5 DEF Added
<1>7. \A x \in Node : Annotated(a, x) => Annotated(b, x) /\ b.order[x] = a.order[x]
  BY DEF Added, Annotated
<1>8. \A x \in Node : Annotated(b, x) => b.order[x][1] \in Int /\ b.order[x][2] \in Int
  BY DEF Added, Annotations, Annotated
<1>9. a.last \in Nat /\ b.last \in Nat /\ a.last <= b.last
  BY DEF Added, Notes, Annotations
<1>10. Annotated(b, found) /\ id \in 1 .. b.last
  BY DEF Added
<1> HIDE DEF root
\* A node of the id that is given has the same root.
<1>11. ASSUME NEW x \in Node, Live(t, x), Annotated(b, x), b.order[x][1] = id
       PROVE  Root(t, x) = root /\ (Annotated(a, x) => Annotated(a, found) /\ Alike(t, a, x, found))
  <2>1. CASE Got(x)
    BY <1>6, <2>1
  <2>2. CASE Annotated(a, x)
    <3>1. a.order[x][1] = id /\ a.order[x][1] \in 1 .. a.last
      BY <1>7, <1>11, <2>2 DEF Notes, IdsGiven
    <3>2. Annotated(a, found)
      <4>1. SUFFICES ASSUME ~Annotated(a, found) PROVE FALSE
        OBVIOUS
      <4>2. id = a.last + 1
        BY <4>1 DEF Added
      <4> HIDE DEF id
      <4> QED
        BY <1>9, <3>1, <4>2
    <3>3. Live(t, found)
      BY <1>2, <1>3, <1>5
    <3>4. Alike(t, a, x, found)
      BY <1>2, <1>7, <1>11, <2>2, <3>1, <3>2, <3>3 DEF Alike
    <3>5. PICK s \in Node \ E : s \in AncestorsOrSelf(t, x) /\ s \in AncestorsOrSelf(t, found)
      BY <1>2, <3>4 DEF Notes, Housed
    <3>6. Root(t, x) = Root(t, found)
      BY <1>2, <3>5, SameTreeMeets DEF SameTree
    <3> QED
      BY <1>5, <3>2, <3>4, <3>6
  <2> QED
    BY <1>11, <2>1, <2>2
\* Two nodes that have their orders keep them.
<1>12. ASSUME NEW x \in Node, NEW y \in Node, Alike(t, b, x, y), Annotated(a, x), Annotated(a, y)
       PROVE  Alike(t, a, x, y)
  BY <1>7, <1>12 DEF Alike
<1>13. IdsGiven(t, b)
  <2>1. ASSUME NEW x \in Node, Annotated(b, x)
        PROVE  t.phase[x] # "fresh" /\ b.order[x][1] \in 1 .. b.last
    <3>1. CASE Annotated(a, x)
      <4>1. t.phase[x] # "fresh" /\ a.order[x][1] \in 1 .. a.last
        BY <3>1 DEF Notes, IdsGiven
      <4>2. b.order[x][1] \in 1 .. a.last
        BY <1>7, <3>1, <4>1
      <4> QED
        BY <1>9, <4>1, <4>2
    <3>2. CASE Got(x)
      BY <1>3, <1>6, <1>10, <3>2 DEF Live
    <3> QED
      BY <2>1, <3>1, <3>2
  <2> QED
    BY <2>1 DEF IdsGiven
<1>14. Housed(t, b, E)
  <2>1. SUFFICES ASSUME NEW x \in Node, NEW y \in Node, Alike(t, b, x, y)
                 PROVE  \E s \in Node \ E : s \in AncestorsOrSelf(t, x) /\ s \in AncestorsOrSelf(t, y)
    BY DEF Housed
  <2>2. CASE Got(x) \/ Got(y)
    <3>1. b.order[x][1] = id /\ b.order[y][1] = id
      BY <1>6, <2>1, <2>2 DEF Alike
    <3>2. Root(t, x) = root /\ Root(t, y) = root
      BY <1>11, <2>1, <3>1 DEF Alike
    <3> QED
      BY <1>1, <1>3, <3>2
  <2>3. CASE Annotated(a, x) /\ Annotated(a, y)
    <3>1. Alike(t, a, x, y)
      BY <1>12, <2>1, <2>3
    <3> QED
      BY <3>1 DEF Notes, Housed
  <2> QED
    BY <2>1, <2>2, <2>3 DEF Alike
\* How far apart the numbers are.
<1>15. ASSUME NEW x \in Node, NEW y \in Node, Alike(t, a, x, y), Before(t, x, y)
       PROVE  Step(x, y)
  <2>1. a.order[y][2] - a.order[x][2] >= Cardinality(Between(t, x, y)) + 1
    BY <1>15 DEF Notes, Gapped
  <2>2. /\ Rank(t, y) \in Nat /\ Rank(t, x) \in Nat /\ Cardinality(Between(t, x, y)) \in Nat
        /\ Rank(t, y) = Rank(t, x) + 1 + Cardinality(Between(t, x, y))
    BY <1>15, RankGap
  <2>3. Rank(t, y) - Rank(t, x) = Cardinality(Between(t, x, y)) + 1
    BY <2>2
  <2>4. b.order[x] = a.order[x] /\ b.order[y] = a.order[y]
    BY <1>7, <1>15 DEF Alike
  <2> QED
    BY <2>1, <2>3, <2>4
<1>16. \A x \in Node : Got(x) => b.order[x][2] = b.order[found][2] + (Rank(t, x) - Rank(t, found))
  BY DEF Added
<1>17. \A x \in Node : Rank(t, x) \in Nat
  BY RankGap
<1>18. Gapped(t, b)
  <2>1. SUFFICES ASSUME NEW x \in Node, NEW y \in Node, Alike(t, b, x, y), Before(t, x, y)
                 PROVE  b.order[y][2] - b.order[x][2] >= Cardinality(Between(t, x, y)) + 1
    BY DEF Gapped
  <2>2. /\ b.order[x][2] \in Int /\ b.order[y][2] \in Int /\ b.order[found][2] \in Int
        /\ Rank(t, x) \in Nat /\ Rank(t, y) \in Nat /\ Rank(t, found) \in Nat
    BY <1>2, <1>8, <1>10, <1>17, <2>1 DEF Alike
  <2>3. Live(t, x) /\ Live(t, y) /\ Annotated(b, x) /\ Annotated(b, y)
        /\ b.order[x][1] = b.order[y][1]
    BY <2>1 DEF Alike
  <2>4. Live(t, found)
    BY <1>2, <1>3, <1>5
  <2>5. CASE Annotated(a, x) /\ Annotated(a, y)
    <3>1. Step(x, y)
      BY <1>12, <1>15, <2>1, <2>5
    <3> QED
      BY <2>1, <2>2, <3>1, RankGap
  <2>6. CASE Got(x) /\ (Got(y) \/ y = found)
    <3>1. b.order[x][2] = b.order[found][2] + (Rank(t, x) - Rank(t, found))
      BY <1>16, <2>6
    <3>2. b.order[y][2] = b.order[found][2] + (Rank(t, y) - Rank(t, found))
      <4>1. CASE Got(y)
        BY <1>16, <4>1
      <4>2. CASE y = found
        BY <2>2, <4>2
      <4> QED
        BY <2>6, <4>1, <4>2
    <3>3. Step(x, y)
      BY <2>2, <3>1, <3>2
    <3> QED
      BY <2>1, <2>2, <3>3, RankGap
  <2>7. CASE Got(x) /\ Annotated(a, y) /\ y # found
    <3>1. b.order[y][1] = id
      BY <1>6, <2>3, <2>7
    <3>2. Annotated(a, found) /\ Alike(t, a, y, found)
      BY <1>11, <2>3, <2>7, <3>1
    <3>3. Alike(t, a, found, y)
      BY <3>2 DEF Alike
    <3>4. Before(t, found, y)
      <4>1. x = found \/ Before(t, found, x)
        BY <1>6, <2>7
      <4> QED
        BY <1>2, <2>1, <4>1, BeforeTransitive
    <3>5. Step(found, y)
      BY <1>2, <1>15, <3>3, <3>4
    <3>6. b.order[x][2] = b.order[found][2] + (Rank(t, x) - Rank(t, found))
      BY <1>16, <2>7
    <3>7. Step(x, y)
      BY <2>2, <3>5, <3>6
    <3> QED
      BY <2>1, <2>2, <3>7, RankGap
  <2>8. CASE Annotated(a, x) /\ Got(y)
    <3>1. b.order[x][1] = id
      BY <1>6, <2>3, <2>8
    <3>2. Annotated(a, found) /\ Alike(t, a, x, found) /\ Root(t, x) = root
      BY <1>11, <2>3, <2>8, <3>1
    <3>3. b.order[y][2] = b.order[found][2] + (Rank(t, y) - Rank(t, found))
      BY <1>16, <2>8
    <3>4. CASE x = found
      <4>1. Step(x, y)
        BY <2>2, <3>3, <3>4
      <4> QED
        BY <2>1, <2>2, <4>1, RankGap
    <3>5. CASE x # found
      <4>1. Before(t, x, n)
        <5>1. y = n \/ Before(t, y, n)
          BY <1>6, <2>8
        <5> QED
          BY <2>1, <5>1, BeforeTransitive
      <4>2. ~Before(t, found, x)
        BY <2>8, <4>1 DEF Bare
      <4>3. root \in AncestorsOrSelf(t, x) /\ root \in AncestorsOrSelf(t, found)
        BY <1>2, <1>3, <1>5, <3>2
      <4>4. Before(t, x, found)
        BY <1>1, <1>2, <3>5, <4>2, <4>3, BeforeTotal
      <4>5. Step(x, found)
        BY <1>2, <1>15, <3>2, <4>4
      <4>6. Step(x, y)
        BY <2>2, <3>3, <4>5
      <4> QED
        BY <2>1, <2>2, <4>6, RankGap
    <3> QED
      BY <3>4, <3>5
  <2> QED
    BY <2>3, <2>5, <2>6, <2>7, <2>8
<1>19. OneId(t, b, R)
  <2>1. SUFFICES ASSUME NEW r \in R, NEW x \in Subtree(t, r), Annotated(b, x)
                 PROVE  Annotated(b, r) /\ b.order[x][1] = b.order[r][1]
    BY DEF OneId
  <2>2. x \in Node /\ r \in Node /\ Root(t, x) = r /\ t.parent[r] = NoNode
        /\ r \in AncestorsOrSelf(t, x)
    BY <2>1, RootIs DEF Subtree
  <2>3. CASE Annotated(a, x)
    <3>1. Annotated(a, r) /\ a.order[x][1] = a.order[r][1]
      BY <2>1, <2>3 DEF Notes, OneId
    <3> QED
      BY <1>7, <2>2, <2>3, <3>1
  <2>4. CASE Got(x)
    <3>1. r = root /\ b.order[x][1] = id
      BY <1>6, <2>2, <2>4
    <3>2. found \in Subtree(t, r)
      BY <1>2, <1>3, <1>5, <3>1 DEF Subtree
    <3>3. CASE Annotated(a, found)
      <4>1. Annotated(a, r) /\ a.order[found][1] = a.order[r][1]
        BY <3>2, <3>3 DEF Notes, OneId
      <4>2. b.order[found] = a.order[found] /\ b.order[r] = a.order[r] /\ Annotated(b, r)
        BY <1>2, <1>7, <2>2, <3>3, <4>1
      <4> QED
        BY <3>1, <4>1, <4>2
    <3>4. CASE ~Annotated(a, found)
      <4>1. t.parent[found] = NoNode /\ found = Root(t, found)
        BY <1>2, <3>4, RootIs DEF AncestorsOrSelf
      <4>2. found = r
        BY <1>5, <3>1, <4>1
      <4> QED
        BY <1>10, <3>1, <4>2
    <3> QED
      BY <3>3, <3>4
  <2> QED
    BY <2>1, <2>3, <2>4
<1> QED
  BY <1>13, <1>14, <1>18, <1>19 DEF Notes, Added

-----------------------------------------------------------------------------
(* Parsing, and removing whole documents. *)

\* The tree that is parsed is made of new nodes.
LEMMA ParseUnderIs ==
    ASSUME NEW t, Good(t), NEW o, Grown(t, o.tree),
           NEW p \in Container, t.phase[p] = "fresh", o.res = "ok" => Live(o.tree, p),
           NEW K \in SUBSET Node
    PROVE  LET v == ParseUnder(o, p, K)
           IN /\ Grown(t, v.tree)
              /\ v.res = "ok" =>
                   /\ o.res = "ok"
                   /\ \A x \in Node : Live(o.tree, x) => Live(v.tree, x)
                   /\ K \cap Texts = {} => Live(v.tree, Pick(o.tree, K))
<1>1. CASE o.res # "ok" \/ FreshOf(o.tree, K) = {}
  BY <1>1 DEF ParseUnder, Undefined
<1>2. CASE o.res = "ok" /\ FreshOf(o.tree, K) # {}
  <2> DEFINE c == Pick(o.tree, K)
             u == o.tree
             w == NewNode(u, c)
             v == AppendNode(w, p, c)
  <2>1. ParseUnder(o, p, K) = v
    BY <1>2 DEF ParseUnder
  <2>2. c \in K /\ u.phase[c] = "fresh"
    BY <1>2, PickIs
  <2> HIDE DEF c
  <2>3. c \in Node /\ p \in Node /\ c # p
    BY <1>2, <2>2, KindsApart DEF Live
  <2>4. Good(u) /\ Ordered(u) /\ Fit(u)
    BY DEF Grown
  <2>5. /\ Grown(u, w) /\ Live(w, c) /\ w.parent = u.parent /\ w.kids = u.kids
    BY <2>2, <2>3, <2>4, NewGrown
  <2>6. w.parent[c] = NoNode /\ Live(w, p) /\ Grown(t, w)
    BY <1>2, <2>2, <2>3, <2>4, <2>5, FreshLoose, GrownTwice DEF Grown, Live
  <2>7. Good(w) /\ Ordered(w) /\ Fit(w)
    BY <2>5 DEF Grown
  <2> HIDE DEF w
  <2>8. Changes(w, v.tree, p, c)
    BY <2>3, <2>5, <2>6, <2>7, NodeChanges
  <2>9. t.phase[c] = "fresh"
    BY <2>2, <2>3 DEF Grown
  <2> HIDE DEF v
  <2>10. Grown(t, v.tree)
    BY <2>3, <2>6, <2>8, <2>9, AppendGrown
  <2>11. \A x \in Node : Live(u, x) => x # c /\ Live(w, x)
    BY <2>2, <2>5 DEF Live, Grown
  <2>12. \A x \in Node : Live(u, x) => Live(v.tree, x)
    BY <2>8, <2>11 DEF Changes, Live
  <2>13. K \cap Texts = {} => Live(v.tree, c)
    BY <2>2, <2>8 DEF Changes, Live
  <2> QED
    BY <1>2, <2>1, <2>10, <2>12, <2>13 DEF c
<1> QED
  BY <1>1, <1>2

LEMMA ParseIs ==
    ASSUME NEW t, Good(t), Ordered(t), Fit(t), NEW d \in Documents, t.phase[d] = "fresh",
           NEW shape \in {"empty", "text", "fragment"},
           Parse(t, d, shape).res = "ok"
    PROVE  Grown(t, Parse(t, d, shape).tree) /\ Live(Parse(t, d, shape).tree, d)
<1> DEFINE w == NewNode(t, d)
           element == ParseUnder(Ok(w), d, Elements)
           text == ParseUnder(Ok(w), d, Texts)
           e == Pick(t, Elements)
<1>1. d \in Node /\ d \in Container /\ d \notin Elements
      /\ Elements \in SUBSET Node /\ Texts \in SUBSET Node /\ Elements \cap Texts = {}
  BY KindsApart DEF Container
<1>2. Grown(t, w) /\ Live(w, d) /\ Ok(w).tree = w /\ Ok(w).res = "ok"
  BY <1>1, NewGrown DEF Ok
<1>3. FreshOf(w, Elements) = FreshOf(t, Elements)
  <2>1. w.phase = [t.phase EXCEPT ![d] = "live"]
    BY <1>1, NewNodeGood
  <2> HIDE DEF w
  <2> QED
    BY <1>1, <2>1 DEF FreshOf, Good, Tree
<1>4. Pick(w, Elements) = e
  BY <1>3 DEF Pick
<1> HIDE DEF w
<1>5. /\ Grown(t, element.tree)
      /\ element.res = "ok" => Live(element.tree, d) /\ Live(element.tree, e)
  BY <1>1, <1>2, <1>4, ParseUnderIs
<1>6. /\ Grown(t, text.tree)
      /\ text.res = "ok" => Live(text.tree, d)
  BY <1>1, <1>2, ParseUnderIs
<1>7. element.res = "ok" => e \in Container /\ t.phase[e] = "fresh"
  <2>1. element.res = "ok" => FreshOf(w, Elements) # {}
    BY <1>2 DEF ParseUnder, Undefined
  <2> QED
    BY <1>3, <2>1, PickIs, KindsApart
<1> HIDE DEF element, text, e
<1>8. CASE shape = "empty"
  <2>1. Parse(t, d, shape) = element
    BY <1>8 DEF Parse, element, w
  <2> QED
    BY <1>5, <2>1
<1>9. CASE shape = "text"
  <2>1. Parse(t, d, shape) = ParseUnder(element, e, Texts)
    BY <1>9 DEF Parse, element, w, e
  <2>2. element.res = "ok"
    BY <2>1 DEF ParseUnder, Undefined
  <2>3. /\ Grown(t, ParseUnder(element, e, Texts).tree)
        /\ Live(ParseUnder(element, e, Texts).tree, d)
    BY <1>1, <1>5, <1>7, <2>1, <2>2, ParseUnderIs
  <2> QED
    BY <2>1, <2>3
<1>10. CASE shape = "fragment"
  <2> DEFINE two == ParseUnder(text, d, Elements)
  <2>1. Parse(t, d, shape) = ParseUnder(two, d, Texts)
    BY <1>10 DEF Parse, text, w
  <2>2. Grown(t, two.tree) /\ (two.res = "ok" => Live(two.tree, d))
    BY <1>1, <1>6, ParseUnderIs
  <2>3. two.res = "ok"
    BY <2>1 DEF ParseUnder, Undefined
  <2> HIDE DEF two
  <2>4. /\ Grown(t, ParseUnder(two, d, Texts).tree)
        /\ Live(ParseUnder(two, d, Texts).tree, d)
    BY <1>1, <2>1, <2>2, <2>3, ParseUnderIs
  <2> QED
    BY <2>1, <2>4
<1> QED
  BY <1>8, <1>9, <1>10

\* u is t without some trees.
Gone(t, u) ==
    /\ Good(u) /\ Ordered(u) /\ Fit(u)
    /\ \A x \in Node :
          \/ u.phase[x] = "removed"
          \/ u.phase[x] = t.phase[x] /\ u.parent[x] = t.parent[x] /\ u.kids[x] = t.kids[x]

LEMMA RemoveGone ==
    ASSUME NEW t, Good(t), Ordered(t), Fit(t), NEW r \in Node, t.parent[r] = NoNode
    PROVE  Gone(t, RemoveNode(t, r).tree)
<1> DEFINE u == RemoveSubtree(t, r)
<1>1. RemoveNode(t, r).tree = u
  BY LooseLeaves, TextsAreNormal DEF RemoveNode, RemoveConsolidate, Ok
<1>2. Good(u) /\ \A m \in Node : u.phase[m] = IF m \in Subtree(t, r) THEN "removed" ELSE t.phase[m]
  BY RemoveSubtreeGood
<1>3. Ordered(u)
  BY RemoveSubtreeThinner, ThinnerOrdered
<1>4. Fit(u)
  BY <1>1, TakeOutFit
<1>5. Unlink(t, r) = t
  BY LooseLeaves
<1>6. \A m \in Node : m \notin Subtree(t, r) => u.parent[m] = t.parent[m] /\ u.kids[m] = t.kids[m]
  BY <1>5 DEF RemoveSubtree, Good, Tree
<1> HIDE DEF u
<1> QED
  BY <1>1, <1>2, <1>3, <1>4, <1>6 DEF Gone

LEMMA GoneTwice ==
    ASSUME NEW t, NEW u, NEW v, Gone(t, u), Gone(u, v)
    PROVE  Gone(t, v)
  BY DEF Gone

LEMMA GoneSurvives ==
    ASSUME NEW t, Good(t), NEW u, Gone(t, u)
    PROVE  Survives(t, u, {})
  BY DEF Gone, Survives, Live

\* Cleaning up removes every document.
LEMMA CleanupGone ==
    ASSUME NEW t, Good(t), Ordered(t), Fit(t), NEW s,
           Len(s) \in Nat, \A i \in 1 .. Len(s) : s[i].root \in Documents
    PROVE  LET done[i \in 0 .. Len(s)] ==
                   IF i = 0 THEN t ELSE RemoveNode(done[i - 1], s[i].root).tree
           IN Gone(t, done[Len(s)])
<1> DEFINE N == Len(s)
           X == {u \in Tree : Gone(t, u)}
           Advance(i, u) == RemoveNode(u, s[i].root).tree
           F == [i \in 1 .. N |-> [u \in X |-> Advance(i, u)]]
           Is(f) == f = [i \in 0 .. N |-> IF i = 0 THEN t ELSE Advance(i, f[i - 1])]
           done == CHOOSE f : Is(f)
<1>1. SUFFICES Gone(t, done[N])
  OBVIOUS
<1>2. N \in Nat
  OBVIOUS
<1>3. t \in X
  BY DEF Gone, Good
<1>4. ASSUME NEW i \in 1 .. N, NEW u \in X PROVE Advance(i, u) \in X
  <2>1. s[i].root \in Node /\ Good(u) /\ Ordered(u) /\ Fit(u)
    BY KindsApart DEF Gone
  <2>2. u.parent[s[i].root] = NoNode
    BY <2>1 DEF Good, Forest, ParentsAreContainers
  <2>3. Gone(u, Advance(i, u))
    BY <2>1, <2>2, RemoveGone
  <2> HIDE DEF Advance
  <2>4. Gone(t, Advance(i, u))
    BY <2>3, GoneTwice
  <2> QED
    BY <2>4 DEF Gone, Good
<1>5. \A u \in X : Gone(t, u)
  OBVIOUS
<1> HIDE DEF N, X, Advance
<1>6. F \in StepsIn(N, X)
  <2>1. \A i \in 1 .. N : [u \in X |-> Advance(i, u)] \in [X -> X]
    BY <1>4
  <2> QED
    BY <2>1 DEF StepsIn
<1>7. PICK g \in [0 .. N -> X] :
        g[0] = t /\ \A i \in 1 .. N : g[i - 1] \in X /\ g[i] = F[i][g[i - 1]]
  <2> HIDE DEF F
  <2> QED
    BY <1>2, <1>3, <1>6, Iteration, SMTT(30)
<1>8. Is(g)
  <2>1. ASSUME NEW i \in 0 .. N PROVE g[i] = IF i = 0 THEN t ELSE Advance(i, g[i - 1])
    <3>1. i # 0 => i \in 1 .. N
      BY <1>2
    <3> QED
      BY <1>7, <3>1
  <2>2. g = [i \in 0 .. N |-> g[i]]
    BY <1>7
  <2> QED
    BY <2>1, <2>2
<1>9. Is(done)
  <2> HIDE DEF Is
  <2> QED
    BY <1>8
<1> HIDE DEF done, F
<1>10. done[0] = t /\ \A i \in 1 .. N : done[i] = Advance(i, done[i - 1])
  BY <1>2, <1>9
<1> HIDE DEF Is
<1> DEFINE T == {k \in 0 .. N : done[k] \in X}
<1>11. 0 \in T
  BY <1>2, <1>3, <1>10
<1>12. ASSUME NEW k \in 1 .. N, k - 1 \in T PROVE k \in T
  <2>1. k \in 0 .. N /\ done[k - 1] \in X /\ done[k] = Advance(k, done[k - 1])
    BY <1>2, <1>10, <1>12
  <2> QED
    BY <1>4, <2>1
<1>13. \A k \in 0 .. N : k \in T
  <2> HIDE DEF T
  <2> QED
    BY <1>2, <1>11, <1>12, Counting
<1>14. done[N] \in X
  <2>1. N \in T
    BY <1>2, <1>13
  <2> QED
    BY <2>1
<1> QED
  BY <1>5, <1>14

-----------------------------------------------------------------------------
(* The invariant. *)

\* The elements s that are open, outside every tree, and the nodes h held.
OpenInv(t, s, h) ==
    /\ s \in Seq(Elements) /\ IsInjective(s) /\ Outside(t, Range(s))
    /\ \A n \in h : n \in Node \ Range(s) /\ t.phase[n] # "fresh"

Recorded(docs) == docs \in Seq([uri : URIs \cup {NoUri}, root : Documents])

\* The documents are live, and the tables tell where they are.
TableInv(t, docs, by, of) ==
    /\ Recorded(docs)
    /\ \A i \in DOMAIN docs : Live(t, docs[i].root)
    /\ \A u \in DOMAIN by : /\ u # NoUri /\ by[u] \in DOMAIN docs /\ docs[by[u]].uri = u
                            /\ docs[by[u]].root \in DOMAIN of /\ of[docs[by[u]].root] = u
    /\ \A i \in DOMAIN docs : docs[i].uri # NoUri =>
          docs[i].uri \in DOMAIN by /\ by[docs[i].uri] = i

DocInv ==
    /\ Good(tree) /\ Ordered(tree) /\ Fit(tree)
    /\ OpenInv(tree, open, held)
    /\ TableInv(tree, documents, byUri, uriOf)
    /\ Notes(tree, notes, Range(open), Roots)

\* What a step does to the trees, but for a clean-up.
Appends == Spares(tree, tree', Range(open), Node \ Range(open))

LEMMA EntriesAre ==
    ASSUME NEW docs, Recorded(docs)
    PROVE  /\ Len(docs) \in Nat /\ DOMAIN docs = 1 .. Len(docs)
           /\ \A i \in 1 .. Len(docs) : docs[i].uri \in URIs \cup {NoUri} /\ docs[i].root \in Documents
<1> DEFINE Entry == [uri : URIs \cup {NoUri}, root : Documents]
<1>1. docs \in Seq(Entry)
  BY DEF Recorded
<1>2. \A e \in Entry : e.uri \in URIs \cup {NoUri} /\ e.root \in Documents
  OBVIOUS
<1> HIDE DEF Entry
<1>3. Len(docs) \in Nat /\ DOMAIN docs = 1 .. Len(docs) /\ \A i \in 1 .. Len(docs) : docs[i] \in Entry
  BY <1>1
<1> QED
  BY <1>2, <1>3

LEMMA OpenIs ==
    ASSUME DocInv
    PROVE  /\ \A e \in Range(open) : /\ e \in Elements /\ e \in Container /\ e \in Node
                                     /\ Live(tree, e) /\ tree.parent[e] = NoNode
           /\ open # <<>> => Last(open) \in Range(open)
<1>1. \A e \in Range(open) : e \in Elements
  BY DEF DocInv, OpenInv, Range
<1>2. open # <<>> => Last(open) \in Range(open)
  <2>1. SUFFICES ASSUME open # <<>> PROVE Len(open) \in DOMAIN open
    BY DEF Last, Range
  <2>2. open \in Seq(Elements)
    BY DEF DocInv, OpenInv
  <2> QED
    BY <2>1, <2>2, EmptySeq
<1> QED
  BY <1>1, <1>2, KindsApart DEF DocInv, OpenInv, Outside

LEMMA RootsAre ==
    ASSUME DocInv
    PROVE  \A r \in Roots : /\ r \in Documents /\ r \in Node \ Range(open)
                            /\ Live(tree, r) /\ tree.parent[r] = NoNode
<1>1. \A r \in Roots : r \in Documents /\ Live(tree, r)
  BY EntriesAre DEF DocInv, TableInv, Roots
<1>2. \A r \in Documents : r \in Node /\ tree.parent[r] = NoNode
  BY KindsApart DEF DocInv, Good, Forest, ParentsAreContainers
<1>3. \A r \in Documents : r \notin Range(open)
  BY OpenIs, KindsApart
<1> QED
  BY <1>1, <1>2, <1>3

\* A program reaches nodes of trees that are not open.
LEMMA ReachableIs ==
    ASSUME DocInv
    PROVE  \A n \in Reachable : /\ n \in Node \ Range(open) /\ Live(tree, n)
                                /\ Root(tree, n) \notin Range(open)
<1>1. Good(tree)
  BY DEF DocInv
<1>2. ASSUME NEW h \in held, h \in LiveNodes
      PROVE  /\ Root(tree, h) \in Node /\ Live(tree, Root(tree, h))
             /\ tree.parent[Root(tree, h)] = NoNode
  <2>1. h \in Node /\ Live(tree, h)
    BY <1>2 DEF LiveNodes
  <2> QED
    BY <1>1, <2>1, RootIs, LiveAbove
<1>3. ASSUME NEW r \in Node, Live(tree, r), tree.parent[r] = NoNode, r \notin Range(open),
             NEW n \in Subtree(tree, r)
      PROVE  n \in Node \ Range(open) /\ Live(tree, n) /\ Root(tree, n) \notin Range(open)
  <2>1. n \in Node /\ r \in AncestorsOrSelf(tree, n)
    BY DEF Subtree
  <2>2. Root(tree, n) = r
    BY <1>1, <1>3, <2>1, RootIs
  <2>3. n # r => tree.parent[n] # NoNode
    BY <1>1, <2>1, AboveParent DEF AncestorsOrSelf
  <2>4. Live(tree, n)
    BY <1>1, <1>3, <2>1, <2>3 DEF Good, Forest, ParentsAreContainers
  <2>5. n \notin Range(open)
    BY <1>3, <2>3, OpenIs
  <2> QED
    BY <1>3, <2>1, <2>2, <2>4, <2>5
<1> QED
  BY <1>2, <1>3, RootsAre DEF Reachable

\* What an instruction makes of the trees, the items and the open elements.
Builds(o, items, s) ==
    /\ Spares(tree, o.tree, Range(open), Node \ Range(open))
    /\ s \in Seq(Elements) /\ IsInjective(s)
    /\ \A e \in Range(s) :
          \/ e \in Range(open)
          \/ e \in Node /\ tree.phase[e] = "fresh" /\ Live(o.tree, e)
             /\ o.tree.parent[e] = NoNode
    /\ \A x \in items : x \in Node \ Range(s) /\ o.tree.phase[x] # "fresh"

\* An instruction of the program.
LEMMA ProgramKeeps ==
    ASSUME DocInv, NEW o, NEW items, NEW s,
           Program(o, items), open' = s, Builds(o, items, s)
    PROVE  DocInv' /\ Appends /\ UNCHANGED <<notes, documents, byUri, uriOf>>
<1> DEFINE E == Range(open)
           F == Range(s)
<1>0. /\ Spares(tree, o.tree, E, Node \ E)
      /\ s \in Seq(Elements) /\ IsInjective(s)
      /\ \A e \in F :
            \/ e \in E
            \/ e \in Node /\ tree.phase[e] = "fresh" /\ Live(o.tree, e)
               /\ o.tree.parent[e] = NoNode
      /\ \A x \in items : x \in Node \ F /\ o.tree.phase[x] # "fresh"
  BY DEF Builds
<1>1. /\ tree' = o.tree /\ notes' = notes /\ documents' = documents
      /\ byUri' = byUri /\ uriOf' = uriOf
      /\ \A x \in held' : x \in held \cup items
  BY DEF Program, AskedFor
<1>2. Good(tree) /\ Survives(tree, o.tree, E) /\ Outside(tree, E)
  BY <1>0, SparesSurvives DEF DocInv, OpenInv
<1>3. Good(o.tree) /\ Ordered(o.tree) /\ Fit(o.tree)
  BY <1>0 DEF Spares
<1>4. Outside(o.tree, E)
  BY <1>0, <1>2, OutsideStays
<1>5. \A e \in F : e \in Elements /\ e \in Container /\ e \in Node
  <2>1. \A e \in F : e \in Elements
    BY <1>0 DEF Range
  <2> QED
    BY <2>1, KindsApart
<1>6. Outside(o.tree, F)
  BY <1>0, <1>4, <1>5 DEF Outside
<1>7. \A x \in held : x \in Node \ E /\ tree.phase[x] # "fresh"
  BY DEF DocInv, OpenInv
<1>8. OpenInv(o.tree, s, held')
  <2>1. \A x \in held : x \in Node /\ x \notin F /\ o.tree.phase[x] # "fresh"
    BY <1>0, <1>2, <1>7 DEF Survives
  <2> QED
    BY <1>0, <1>1, <1>6, <2>1 DEF OpenInv
<1>9. ASSUME NEW r \in Documents, Live(tree, r) PROVE Live(o.tree, r)
  <2>1. r \in Node /\ r \notin Texts
    BY KindsApart
  <2> QED
    BY <1>0, <1>9, <2>1 DEF Spares, Live
<1>10. TableInv(o.tree, documents, byUri, uriOf)
  <2>1. \A i \in DOMAIN documents : documents[i].root \in Documents
    BY EntriesAre DEF DocInv, TableInv
  <2> QED
    BY <1>9, <2>1 DEF DocInv, TableInv
<1>11. Notes(o.tree, notes, F, Roots)
  <2>1. \A e \in E : tree.parent[e] = NoNode
    BY OpenIs
  <2>2. \A r \in Roots : r \in Node \ E
    BY RootsAre
  <2>3. \A e \in F : e \in E \/ (e \in Node /\ tree.phase[e] = "fresh")
    BY <1>0
  <2>4. \A r \in Roots : r \in Roots /\ Live(o.tree, r) /\ tree.phase[r] # "fresh"
    BY <1>9, RootsAre DEF Live
  <2>5. Notes(tree, notes, E, Roots)
    BY DEF DocInv
  <2> HIDE DEF E, F
  <2> QED
    BY <1>2, <2>1, <2>2, <2>3, <2>4, <2>5, NotesKept
<1>12. Roots' = Roots
  BY <1>1 DEF Roots
<1>13. DocInv'
  BY <1>1, <1>3, <1>8, <1>10, <1>11, <1>12 DEF DocInv
<1> QED
  BY <1>0, <1>1, <1>13 DEF Appends

LEMMA KindsAreNodes ==
    \A K \in Kinds : K \subseteq Node
  BY KindsAreDisjoint DEF Kinds, Node, Normal, Abnormal

\* A new node, that no tree holds.
LEMMA NewSpares ==
    ASSUME DocInv, NEW c \in Node, tree.phase[c] = "fresh"
    PROVE  LET o == Ok(NewNode(tree, c))
           IN /\ Grown(tree, o.tree) /\ Spares(tree, o.tree, Range(open), Node \ Range(open))
              /\ c \notin Range(open) /\ c \notin held
              /\ Live(o.tree, c) /\ o.tree.parent[c] = NoNode
<1> DEFINE o == Ok(NewNode(tree, c))
<1>1. Good(tree) /\ Ordered(tree) /\ Fit(tree)
  BY DEF DocInv
<1>2. Grown(tree, o.tree) /\ Live(o.tree, c) /\ o.tree.parent = tree.parent
  BY <1>1, NewGrown DEF Ok
<1>3. Spares(tree, o.tree, Range(open), Node \ Range(open))
  BY <1>2, GrownSpares
<1>4. o.tree.parent[c] = NoNode
  BY <1>1, <1>2, FreshLoose DEF Live
<1>5. c \notin Range(open) /\ c \notin held
  BY OpenIs DEF Live, DocInv, OpenInv
<1> QED
  BY <1>2, <1>3, <1>4, <1>5

LEMMA MakeLeafKeeps ==
    ASSUME DocInv, MakeLeaf
    PROVE  DocInv' /\ Appends /\ UNCHANGED <<notes, documents, byUri, uriOf>>
<1>1. PICK K \in Kinds \ {Documents, Elements} :
        /\ FreshOf(tree, K) # {}
        /\ Program(Ok(NewNode(tree, Pick(tree, K))), {Pick(tree, K)})
        /\ open' = open
  BY DEF MakeLeaf
<1> DEFINE c == Pick(tree, K)
           o == Ok(NewNode(tree, c))
           s == open
<1>2. c \in K /\ tree.phase[c] = "fresh"
  BY <1>1, PickIs
<1>3. Program(o, {c})
  BY <1>1
<1>4. c \in Node
  BY <1>2, KindsAreNodes
<1> HIDE DEF c
<1>5. /\ Spares(tree, o.tree, Range(open), Node \ Range(open))
      /\ c \notin Range(open) /\ Live(o.tree, c)
  BY <1>2, <1>4, NewSpares
<1>6. s \in Seq(Elements) /\ IsInjective(s) /\ open' = s
  BY <1>1 DEF DocInv, OpenInv
<1>7. \A x \in {c} : x \in Node \ Range(s) /\ o.tree.phase[x] # "fresh"
  BY <1>4, <1>5 DEF Live
<1>8. \A e \in Range(s) :
              \/ e \in Range(open)
              \/ e \in Node /\ tree.phase[e] = "fresh" /\ Live(o.tree, e)
                 /\ o.tree.parent[e] = NoNode
  OBVIOUS
<1>9. Builds(o, {c}, s)
  BY <1>5, <1>6, <1>7, <1>8 DEF Builds
<1>10. open' = s
  BY <1>6
<1> HIDE DEF o, s
<1> QED
  BY <1>3, <1>9, <1>10, ProgramKeeps

LEMMA OpenElementKeeps ==
    ASSUME DocInv, OpenElement
    PROVE  DocInv' /\ Appends /\ UNCHANGED <<notes, documents, byUri, uriOf>>
<1> DEFINE e == Pick(tree, Elements)
           o == Ok(NewNode(tree, e))
           s == Append(open, e)
<1>1. FreshOf(tree, Elements) # {} /\ Program(o, {}) /\ open' = s
  BY DEF OpenElement
<1>2. e \in Elements /\ tree.phase[e] = "fresh"
  BY <1>1, PickIs
<1> HIDE DEF e
<1>3. e \in Node
  BY <1>2, KindsApart
<1>4. /\ Spares(tree, o.tree, Range(open), Node \ Range(open))
      /\ e \notin Range(open) /\ e \notin held
      /\ Live(o.tree, e) /\ o.tree.parent[e] = NoNode
  BY <1>2, <1>3, NewSpares
<1>5. open \in Seq(Elements) /\ IsInjective(open)
  BY DEF DocInv, OpenInv
<1>6. s \in Seq(Elements) /\ Len(s) = Len(open) + 1 /\ s[Len(open) + 1] = e
      /\ \A i \in 1 .. Len(open) : s[i] = open[i]
  BY <1>2, <1>5
<1> HIDE DEF s
<1>7. \A x \in Range(s) : x \in Range(open) \/ x = e
  BY <1>5, <1>6 DEF Range
<1>8. IsInjective(s)
  <2>1. \A i \in 1 .. Len(open) : open[i] # e
    BY <1>4, <1>5 DEF Range
  <2>2. \A i \in DOMAIN s : i \in 1 .. Len(open) \/ i = Len(open) + 1
    BY <1>5, <1>6
  <2>3. \A i, j \in 1 .. Len(open) : open[i] = open[j] => i = j
    BY <1>5 DEF IsInjective
  <2>4. \A i, j \in DOMAIN s : s[i] = s[j] => i = j
    BY <1>6, <2>1, <2>2, <2>3
  <2> QED
    BY <2>4 DEF IsInjective
<1>9. \A x \in Range(s) :
          \/ x \in Range(open)
          \/ x \in Node /\ tree.phase[x] = "fresh" /\ Live(o.tree, x) /\ o.tree.parent[x] = NoNode
  BY <1>2, <1>3, <1>4, <1>7
<1>10. Builds(o, {}, s)
  BY <1>4, <1>6, <1>8, <1>9 DEF Builds
<1> HIDE DEF o
<1> QED
  BY <1>1, <1>10, ProgramKeeps

\* The innermost element is taken off.
LEMMA FrontIs ==
    ASSUME DocInv, open # <<>>
    PROVE  LET s == Front(open)
           IN /\ s \in Seq(Elements) /\ IsInjective(s)
              /\ \A e \in Range(s) : e \in Range(open)
              /\ Last(open) \in Elements /\ Last(open) \in Node /\ Last(open) \notin Range(s)
              /\ Live(tree, Last(open)) /\ Last(open) \in Range(open)
<1> DEFINE s == Front(open)
           k == Len(open)
<1>1. open \in Seq(Elements) /\ IsInjective(open)
  BY DEF DocInv, OpenInv
<1>2. k \in Nat /\ k # 0 /\ DOMAIN open = 1 .. k /\ \A i \in 1 .. k : open[i] \in Elements
  BY <1>1, EmptySeq
<1>3. s = [i \in 1 .. k - 1 |-> open[i]]
  BY <1>2 DEF Front
<1>4. s \in [1 .. k - 1 -> Elements]
  BY <1>2, <1>3
<1> HIDE DEF k
<1>5. s \in Seq(Elements) /\ DOMAIN s = 1 .. k - 1
  BY <1>2, <1>4
<1>6. \A i \in 1 .. k - 1 : s[i] = open[i] /\ i \in 1 .. k
  BY <1>2, <1>3
<1> HIDE DEF s
<1>7. Last(open) = open[k] /\ k \in 1 .. k
  BY <1>2 DEF Last, k
<1>8. \A i, j \in 1 .. k : open[i] = open[j] => i = j
  BY <1>1, <1>2 DEF IsInjective
<1>9. IsInjective(s)
  BY <1>5, <1>6, <1>8 DEF IsInjective
<1>10. \A e \in Range(s) : e \in Range(open)
  BY <1>2, <1>5, <1>6 DEF Range
<1>11. Last(open) \notin Range(s)
  <2>1. ASSUME NEW i \in 1 .. k - 1 PROVE s[i] # Last(open)
    <3>1. i \in 1 .. k /\ i # k /\ s[i] = open[i]
      BY <1>2, <1>6, <2>1
    <3> QED
      BY <1>7, <1>8, <3>1
  <2> QED
    BY <1>5, <2>1 DEF Range
<1>12. Last(open) \in Range(open)
  BY OpenIs
<1> QED
  BY <1>5, <1>9, <1>10, <1>11, <1>12, OpenIs DEF s

LEMMA CloseElementKeeps ==
    ASSUME DocInv, CloseElement
    PROVE  DocInv' /\ Appends /\ UNCHANGED <<notes, documents, byUri, uriOf>>
<1> DEFINE s == Front(open)
           p == Last(open)
           o == Ok(tree)
<1>1. open # <<>> /\ Program(o, {p}) /\ open' = s
  BY DEF CloseElement
<1>2. Good(tree) /\ Ordered(tree) /\ Fit(tree)
  BY DEF DocInv
<1>3. o.tree = tree
  BY DEF Ok
<1>4. Spares(tree, o.tree, Range(open), Node \ Range(open))
  BY <1>2, <1>3, GrownSame, GrownSpares
<1>5. /\ s \in Seq(Elements) /\ IsInjective(s)
      /\ \A e \in Range(s) : e \in Range(open)
      /\ p \in Node /\ p \notin Range(s) /\ Live(tree, p)
  BY <1>1, FrontIs
<1> HIDE DEF s, p, o
<1>6. Builds(o, {p}, s)
  BY <1>3, <1>4, <1>5 DEF Builds, Live
<1> QED
  BY <1>1, <1>6, ProgramKeeps

LEMMA CopyKeeps ==
    ASSUME DocInv, Copy
    PROVE  DocInv' /\ Appends /\ UNCHANGED <<notes, documents, byUri, uriOf>>
<1>1. PICK n \in Reachable, deep \in BOOLEAN :
        \E c \in {IF deep THEN CloneNode(tree, n) ELSE ShallowCopy(tree, n)} :
          Program(c, {c.node}) /\ open' = open
  BY DEF Copy
<1> DEFINE s == open
<1>2. Good(tree) /\ Ordered(tree) /\ Fit(tree)
  BY DEF DocInv
<1>3. n \in Node
  BY ReachableIs
<1>4. PICK c : /\ c = CloneNode(tree, n) \/ c = ShallowCopy(tree, n)
               /\ Program(c, {c.node}) /\ open' = s
  BY <1>1
<1>5. Clones(tree, n, c)
  BY <1>2, <1>3, <1>4, ClonesIs
<1>6. c.res # "undefined"
  BY <1>4 DEF Program
<1>7. /\ Grown(tree, c.tree) /\ c.node \in KindOf(n) /\ tree.phase[c.node] = "fresh"
      /\ Live(c.tree, c.node)
  BY <1>5, <1>6 DEF Clones
<1>8. c.node \in Node
  BY <1>3, <1>7, KindIs
<1>9. c.node \notin Range(open)
  BY <1>7, OpenIs DEF Live
<1>10. Spares(tree, c.tree, Range(open), Node \ Range(open))
  BY <1>7, GrownSpares
<1>11. s \in Seq(Elements) /\ IsInjective(s)
  BY DEF DocInv, OpenInv
<1>12. Builds(c, {c.node}, s)
  BY <1>7, <1>8, <1>9, <1>10, <1>11 DEF Builds, Live
<1> HIDE DEF s
<1> QED
  BY <1>4, <1>12, ProgramKeeps

\* An attribute is made and appended to the open element.
LEMMA AppendLiteralKeeps ==
    ASSUME DocInv, AppendLiteral
    PROVE  DocInv' /\ Appends /\ UNCHANGED <<notes, documents, byUri, uriOf>>
<1>1. PICK K \in Kinds :
        /\ open # <<>> /\ FreshOf(tree, K) # {}
        /\ Program(XmlAppend(NewNode(tree, Pick(tree, K)), Last(open), <<Pick(tree, K)>>), {})
        /\ open' = open
  BY DEF AppendLiteral
<1> DEFINE a == Pick(tree, K)
           E == Range(open)
           u == NewNode(tree, a)
           value == <<a>>
           o == XmlAppend(u, Last(open), value)
           s == open
<1>2. a \in K /\ tree.phase[a] = "fresh"
  BY <1>1, PickIs
<1>3. Program(o, {}) /\ open' = s
  BY <1>1
<1>4. a \in Node
  BY <1>2, KindsAreNodes
<1> HIDE DEF a
<1>5. Grown(tree, u) /\ Spares(tree, u, E, Node \ E) /\ a \notin E
  BY <1>2, <1>4, NewSpares DEF Ok
<1>6. Good(tree) /\ Outside(tree, E)
  BY DEF DocInv, OpenInv
<1>7. Outside(u, E)
  BY <1>5, <1>6, OutsideStays
<1>8. Last(open) \in E /\ Last(open) \in Elements
  BY <1>1, OpenIs
<1>9. Opened(u, E, Last(open))
  BY <1>5, <1>7, <1>8 DEF Opened, Grown
<1>10. Len(value) \in Nat /\ \A i \in 1 .. Len(value) : value[i] \in (Node \ E) \cup {String}
  BY <1>4, <1>5
<1> HIDE DEF value, E, u
<1>11. Spares(u, o.tree, E, Used(value, Len(value)))
  BY <1>9, <1>10, XmlAppendIs
<1>12. \A x \in Used(value, Len(value)) : x \in Node \ E
  BY <1>10 DEF Used
<1>13. Spares(tree, o.tree, E, (Node \ E) \cup Used(value, Len(value)))
  BY <1>5, <1>6, <1>11, SparesTwice
<1>14. (Node \ E) \cup Used(value, Len(value)) = Node \ E
  BY <1>12
<1>15. s \in Seq(Elements) /\ IsInjective(s)
  BY DEF DocInv, OpenInv
<1>16. Builds(o, {}, s)
  BY <1>13, <1>14, <1>15 DEF Builds, E
<1> HIDE DEF s, o
<1> QED
  BY <1>3, <1>16, ProgramKeeps

\* What a value is made of.
LEMMA ValueIs ==
    ASSUME DocInv, NEW value \in Values
    PROVE  /\ Len(value) \in Nat /\ DOMAIN value = 1 .. Len(value)
           /\ \A i \in 1 .. Len(value) : value[i] \in (Node \ Range(open)) \cup {String}
           /\ ~AnyCall /\ Careful(value) => Steady(tree, value)
<1>1. PICK k \in 1 .. ValueMax : value \in [1 .. k -> Items]
  BY DEF Values
<1>2. k \in Nat
  BY <1>1, BoundsAreNatural
<1>3. Len(value) = k /\ DOMAIN value = 1 .. k /\ \A i \in 1 .. k : value[i] \in Items
  BY <1>1, <1>2
<1>4. \A x \in Items : x \in (Node \ Range(open)) \cup {String}
  BY ReachableIs DEF Items, DocInv, OpenInv
<1>5. ASSUME ~AnyCall, Careful(value) PROVE Steady(tree, value)
  <2>1. \A x \in Items : x # String => Live(tree, x)
    BY <1>5, ReachableIs DEF Items
  <2> QED
    BY <1>3, <1>5, <2>1 DEF Steady, Careful
<1> QED
  BY <1>2, <1>3, <1>4, <1>5

LEMMA AppendContentKeeps ==
    ASSUME DocInv, AppendContent
    PROVE  DocInv' /\ Appends /\ UNCHANGED <<notes, documents, byUri, uriOf>>
<1>1. PICK value \in Values :
        /\ open # <<>>
        /\ \E o \in {XmlAppend(tree, Last(open), value)} :
             /\ Program(o, IF o.res = "ok" THEN {Last(open)} ELSE {})
             /\ open' = IF o.res = "ok" THEN Front(open) ELSE <<>>
  BY DEF AppendContent
<1> DEFINE E == Range(open)
           p == Last(open)
           o == XmlAppend(tree, p, value)
           s == IF o.res = "ok" THEN Front(open) ELSE <<>>
           items == IF o.res = "ok" THEN {p} ELSE {}
<1>2. Program(o, items) /\ open' = s
  BY <1>1
<1>3. Good(tree) /\ Ordered(tree) /\ Fit(tree) /\ Outside(tree, E)
  BY DEF DocInv, OpenInv
<1>4. /\ Front(open) \in Seq(Elements) /\ IsInjective(Front(open))
      /\ \A e \in Range(Front(open)) : e \in Range(open)
      /\ p \in Elements /\ p \in Node /\ p \notin Range(Front(open))
      /\ Live(tree, p) /\ p \in E
  BY <1>1, FrontIs
<1>5. Opened(tree, E, p)
  BY <1>3, <1>4 DEF Opened
<1>6. Len(value) \in Nat /\ \A i \in 1 .. Len(value) : value[i] \in (Node \ E) \cup {String}
  BY ValueIs
<1> HIDE DEF E
<1>7. Spares(tree, o.tree, E, Used(value, Len(value)))
  BY <1>5, <1>6, XmlAppendIs
<1>8. \A x \in Used(value, Len(value)) : x \in Node \ E
  BY <1>6 DEF Used
<1>9. Spares(tree, o.tree, E, Node \ E)
  BY <1>7, <1>8, SparesOld
<1>10. s \in Seq(Elements) /\ IsInjective(s) /\ \A e \in Range(s) : e \in E
  <2>1. CASE o.res = "ok"
    BY <1>4, <2>1 DEF E
  <2>2. CASE o.res # "ok"
    <3>1. s = <<>>
      BY <2>2
    <3>2. <<>> \in Seq(Elements) /\ IsInjective(<<>>) /\ Range(<<>>) = {}
      BY DEF IsInjective, Range
    <3> QED
      BY <3>1, <3>2
  <2> QED
    BY <2>1, <2>2
<1>11. \A x \in items : x = p /\ s = Front(open)
  OBVIOUS
<1>12. p \in Node /\ o.tree.phase[p] # "fresh"
  <2>1. Outside(o.tree, E)
    BY <1>3, <1>9, OutsideStays
  <2> QED
    BY <1>4, <2>1 DEF Outside, Live
<1>13. \A x \in items : x \in Node \ Range(s) /\ o.tree.phase[x] # "fresh"
  BY <1>4, <1>11, <1>12
<1> HIDE DEF s, o, items
<1>14. Builds(o, items, s)
  BY <1>9, <1>10, <1>13 DEF Builds, E
<1> QED
  BY <1>2, <1>14, ProgramKeeps

-----------------------------------------------------------------------------
(* The collection and the orders. *)

\* A document is entered under its URI, unless the URI is taken.
LEMMA AddRootKeeps ==
    ASSUME TableInv(tree, documents, byUri, uriOf), NEW uri \in URIs \cup {NoUri},
           NEW d \in Documents, tree.phase[d] = "fresh", AddRoot(uri, d),
           NEW u, Live(u, d), \A r \in Documents : Live(tree, r) => Live(u, r)
    PROVE  /\ TableInv(u, documents', byUri', uriOf')
           /\ \A r \in Roots' : r \in Roots \/ r = d
           /\ IsPrefix(documents, documents')
           /\ \A x \in DOMAIN byUri : byUri'[x] = byUri[x]
<1> DEFINE N == Len(documents)
           e == [uri |-> uri, root |-> d]
           D == documents'
           B == byUri'
           O == uriOf'
<1>1. /\ N \in Nat /\ DOMAIN documents = 1 .. N
      /\ \A i \in 1 .. N : documents[i].root \in Documents
  BY EntriesAre DEF TableInv
<1>2. \A i \in 1 .. N : Live(tree, documents[i].root) /\ documents[i].root # d
  BY <1>1 DEF TableInv, Live
<1>3. \A i \in 1 .. N : Live(u, documents[i].root)
  BY <1>1, <1>2
<1>4. \A x \in DOMAIN byUri : /\ x # NoUri /\ byUri[x] \in 1 .. N
                              /\ documents[byUri[x]].uri = x
                              /\ documents[byUri[x]].root \in DOMAIN uriOf
                              /\ uriOf[documents[byUri[x]].root] = x
  BY <1>1 DEF TableInv
<1>5. \A i \in 1 .. N : documents[i].uri # NoUri =>
          documents[i].uri \in DOMAIN byUri /\ byUri[documents[i].uri] = i
  BY <1>1 DEF TableInv
<1>6. Recorded(documents)
  BY DEF TableInv
<1>7. CASE uri \in DOMAIN byUri
  <2>1. D = documents /\ B = byUri /\ O = uriOf
    BY <1>7 DEF AddRoot
  <2>2. TableInv(u, documents, byUri, uriOf)
    BY <1>1, <1>3 DEF TableInv
  <2>3. IsPrefix(documents, documents)
    BY <1>1 DEF IsPrefix
  <2> QED
    BY <2>1, <2>2, <2>3 DEF Roots
<1>8. CASE uri \notin DOMAIN byUri
  <2>1. /\ D = Append(documents, e)
        /\ B = IF uri = NoUri THEN byUri ELSE Entered(byUri, uri, N + 1)
        /\ O = IF uri = NoUri THEN uriOf ELSE Entered(uriOf, d, uri)
    BY <1>8 DEF AddRoot
  <2>2. e \in [uri : URIs \cup {NoUri}, root : Documents] /\ e.uri = uri /\ e.root = d
    OBVIOUS
  <2>3. Recorded(D)
    BY <1>6, <2>1, <2>2 DEF Recorded
  <2>4. /\ DOMAIN D = 1 .. N + 1 /\ Len(D) = N + 1 /\ D[N + 1] = e
        /\ \A i \in 1 .. N : D[i] = documents[i]
    <3> HIDE DEF e
    <3>1. documents \in Seq([uri : URIs \cup {NoUri}, root : Documents])
      BY <1>6 DEF Recorded
    <3> QED
      BY <2>1, <2>2, <3>1
  <2>5. \A i \in 1 .. N + 1 : i \in 1 .. N \/ i = N + 1
    BY <1>1
  <2>6. \A i \in 1 .. N : i \in 1 .. N + 1 /\ i # N + 1
    BY <1>1
  <2>7. N + 1 \in 1 .. N + 1
    BY <1>1
  <2>8. /\ \A x \in DOMAIN byUri : x \in DOMAIN B /\ B[x] = byUri[x] /\ x # uri
        /\ \A x \in DOMAIN B : x \in DOMAIN byUri \/ (x = uri /\ uri # NoUri)
        /\ uri # NoUri => uri \in DOMAIN B /\ B[uri] = N + 1
    BY <1>8, <2>1 DEF Entered
  <2>9. /\ \A x \in DOMAIN uriOf : x \in DOMAIN O /\ (x # d => O[x] = uriOf[x])
        /\ uri # NoUri => d \in DOMAIN O /\ O[d] = uri
    BY <2>1 DEF Entered
  <2> HIDE DEF e, D, B, O
  <2>10. \A i \in DOMAIN D : Live(u, D[i].root)
    BY <1>3, <2>2, <2>4, <2>5
  <2>11. \A x \in DOMAIN B : /\ x # NoUri /\ B[x] \in DOMAIN D /\ D[B[x]].uri = x
                             /\ D[B[x]].root \in DOMAIN O /\ O[D[B[x]].root] = x
    <3>1. ASSUME NEW x \in DOMAIN byUri
          PROVE  /\ x # NoUri /\ B[x] \in DOMAIN D /\ D[B[x]].uri = x
                 /\ D[B[x]].root \in DOMAIN O /\ O[D[B[x]].root] = x
      <4>1. B[x] = byUri[x] /\ byUri[x] \in 1 .. N
        BY <1>4, <2>8, <3>1
      <4>2. D[B[x]] = documents[byUri[x]] /\ B[x] \in 1 .. N + 1
        BY <2>4, <2>6, <4>1
      <4> QED
        BY <1>2, <1>4, <2>4, <2>9, <3>1, <4>1, <4>2
    <3>2. uri # NoUri => /\ B[uri] \in DOMAIN D /\ D[B[uri]].uri = uri
                         /\ D[B[uri]].root \in DOMAIN O /\ O[D[B[uri]].root] = uri
      BY <2>2, <2>4, <2>7, <2>8, <2>9
    <3> QED
      BY <2>8, <3>1, <3>2
  <2>12. \A i \in DOMAIN D : D[i].uri # NoUri => D[i].uri \in DOMAIN B /\ B[D[i].uri] = i
    BY <1>5, <2>2, <2>4, <2>5, <2>8
  <2>13. TableInv(u, D, B, O)
    BY <2>3, <2>10, <2>11, <2>12 DEF TableInv
  <2>14. \A i \in DOMAIN D : D[i].root = d \/ (i \in DOMAIN documents /\ D[i].root = documents[i].root)
    BY <1>1, <2>2, <2>4, <2>5
  <2>15. IsPrefix(documents, D)
    <3>1. N <= Len(D)
      BY <1>1, <2>4
    <3>2. SubSeq(documents, 1, N) = [i \in 1 .. N |-> documents[i]]
      BY <1>1
    <3>3. SubSeq(D, 1, N) = [i \in 1 .. N |-> D[i]]
      BY <1>1
    <3>4. [i \in 1 .. N |-> documents[i]] = [i \in 1 .. N |-> D[i]]
      BY <2>4
    <3> QED
      BY <3>1, <3>2, <3>3, <3>4 DEF IsPrefix
  <2> QED
    BY <2>8, <2>13, <2>14, <2>15 DEF Roots, D, B, O
<1> QED
  BY <1>7, <1>8

LEMMA AddDocumentKeeps ==
    ASSUME DocInv, AddDocument
    PROVE  /\ DocInv' /\ Appends /\ notes' = notes
           /\ IsPrefix(documents, documents')
           /\ \A x \in DOMAIN byUri : byUri'[x] = byUri[x]
<1>1. PICK uri \in URIs \cup {NoUri}, shape \in {"empty", "text", "fragment"} :
        /\ FreshOf(tree, Documents) # {}
        /\ \E d \in {Pick(tree, Documents)} : \E o \in {Parse(tree, d, shape)} :
              o.res = "ok" /\ tree' = o.tree /\ AddRoot(uri, d)
        /\ notes' = notes /\ open' = open /\ held' = held
  BY DEF AddDocument
<1> DEFINE d == Pick(tree, Documents)
           u == Parse(tree, d, shape).tree
           E == Range(open)
<1>2. d \in Documents /\ tree.phase[d] = "fresh"
  BY <1>1, PickIs
<1>3. Parse(tree, d, shape).res = "ok" /\ tree' = u /\ AddRoot(uri, d)
  BY <1>1
<1>4. Good(tree) /\ Ordered(tree) /\ Fit(tree) /\ Outside(tree, E)
  BY DEF DocInv, OpenInv
<1> HIDE DEF d
<1>5. Grown(tree, u) /\ Live(u, d) /\ d \in Node
  BY <1>2, <1>3, <1>4, ParseIs, KindsApart
<1>6. Spares(tree, u, E, Node \ E)
  BY <1>5, GrownSpares
<1> HIDE DEF u
<1>7. Survives(tree, u, E) /\ Outside(u, E)
  BY <1>4, <1>6, SparesSurvives, OutsideStays
<1>8. OpenInv(u, open, held)
  BY <1>7 DEF DocInv, OpenInv, Survives
<1>9. ASSUME NEW r \in Documents, Live(tree, r) PROVE Live(u, r)
  <2>1. r \in Node
    BY KindsApart
  <2> QED
    BY <1>5, <1>9, <2>1 DEF Grown, Live
<1>10. TableInv(tree, documents, byUri, uriOf)
  BY DEF DocInv
<1>11. /\ TableInv(u, documents', byUri', uriOf')
       /\ \A r \in Roots' : r \in Roots \/ r = d
       /\ IsPrefix(documents, documents')
       /\ \A x \in DOMAIN byUri : byUri'[x] = byUri[x]
  BY <1>2, <1>3, <1>5, <1>9, <1>10, AddRootKeeps
<1>12. Notes(u, notes, E, Roots')
  <2> DEFINE Q == Roots'
  <2>1. \A e \in E : tree.parent[e] = NoNode
    BY OpenIs
  <2>2. \A r \in Roots : r \in Node \ E
    BY RootsAre
  <2>3. \A r \in Roots : Live(u, r) /\ tree.phase[r] # "fresh"
    BY <1>9, RootsAre DEF Live
  <2>4. \A x \in Subtree(u, d) : tree.phase[x] = "fresh"
    BY <1>2, <1>4, <1>5, NewTree
  <2>5. \A r \in Q : \/ r \in Roots /\ Live(u, r) /\ tree.phase[r] # "fresh"
                     \/ \A x \in Subtree(u, r) : tree.phase[x] = "fresh"
    BY <1>11, <2>3, <2>4
  <2>6. \A e \in E : e \in E \/ (e \in Node /\ tree.phase[e] = "fresh")
    OBVIOUS
  <2>7. Notes(tree, notes, E, Roots)
    BY DEF DocInv
  <2> HIDE DEF Q, E
  <2>8. Notes(u, notes, E, Q)
    BY <1>4, <1>7, <2>1, <2>2, <2>5, <2>6, <2>7, NotesKept
  <2> QED
    BY <2>8 DEF Q
<1>13. Good(u) /\ Ordered(u) /\ Fit(u)
  BY <1>5 DEF Grown
<1>14. DocInv'
  BY <1>1, <1>3, <1>8, <1>11, <1>12, <1>13 DEF DocInv
<1> QED
  BY <1>1, <1>3, <1>6, <1>11, <1>14 DEF Appends

\* Asking for an order numbers nodes, and changes nothing else.
LEMMA AskOrderKeeps ==
    ASSUME DocInv, AskOrder
    PROVE  /\ DocInv' /\ tree' = tree /\ documents' = documents /\ byUri' = byUri
           /\ panicked' = FALSE
           /\ \A x \in Node : Annotated(notes, x) => notes'.order[x] = notes.order[x]
<1>1. PICK n \in Reachable :
        /\ ~Annotated(notes, n)
        /\ notes' = GetOrder(tree, notes, n).notes
        /\ panicked' = (GetOrder(tree, notes, n).res = "panic")
        /\ tree' = tree /\ documents' = documents /\ byUri' = byUri
        /\ uriOf' = uriOf /\ open' = open /\ held' = held
  BY DEF AskOrder
<1> DEFINE o == GetOrder(tree, notes, n)
           found == FindAnnotated(tree, notes, n)
           E == Range(open)
<1>2. Good(tree) /\ Notes(tree, notes, E, Roots)
  BY DEF DocInv
<1>3. n \in Node /\ Live(tree, n) /\ Root(tree, n) \notin E
  BY ReachableIs
<1>4. notes \in Annotations /\ IdsGiven(tree, notes)
  BY <1>2 DEF Notes
<1>5. o.res = "ok" /\ Added(tree, notes, o.notes, found, n)
  BY <1>1, <1>2, <1>3, <1>4, GetOrderAdds
<1>6. Bare(tree, notes, n, found) /\ (Annotated(notes, found) \/ tree.parent[found] = NoNode)
  BY <1>2, <1>3, FindAnnotatedIs
<1>7. \A r \in Roots : r \in Node /\ tree.parent[r] = NoNode
  BY RootsAre
<1>8. notes' = o.notes /\ panicked' = (o.res = "panic")
  BY <1>1
<1> HIDE DEF o, found, E
<1>9. Notes(tree, o.notes, E, Roots)
  BY <1>1, <1>2, <1>3, <1>5, <1>6, <1>7, AddedNotes
<1>10. Roots' = Roots
  BY <1>1 DEF Roots
<1>11. DocInv'
  BY <1>1, <1>8, <1>9, <1>10 DEF DocInv, E
<1>12. \A x \in Node : Annotated(notes, x) => notes'.order[x] = notes.order[x]
  BY <1>5, <1>8 DEF Added
<1> QED
  BY <1>1, <1>5, <1>8, <1>11, <1>12

\* A clean-up takes out trees whole, and no element is open then.
LEMMA CleanupKeeps ==
    ASSUME DocInv, Cleanup
    PROVE  DocInv' /\ notes' = notes
<1>1. /\ open = <<>> /\ documents' = <<>> /\ byUri' = <<>> /\ held' = {}
      /\ notes' = notes /\ uriOf' = uriOf /\ open' = <<>>
      /\ tree' = LET done[i \in 0 .. Len(documents)] ==
                         IF i = 0 THEN tree
                         ELSE RemoveNode(done[i - 1], documents[i].root).tree
                 IN done[Len(documents)]
  BY DEF Cleanup
<1>2. Good(tree) /\ Ordered(tree) /\ Fit(tree) /\ Notes(tree, notes, Range(open), Roots)
  BY DEF DocInv
<1>3. Len(documents) \in Nat /\ \A i \in 1 .. Len(documents) : documents[i].root \in Documents
  BY EntriesAre DEF DocInv, TableInv
<1>4. Gone(tree, tree')
  BY <1>1, <1>2, <1>3, CleanupGone
<1> DEFINE u == tree'
           Q == {}
           S == Roots
<1>5. Good(u) /\ Ordered(u) /\ Fit(u) /\ Survives(tree, u, {})
  BY <1>2, <1>4, GoneSurvives DEF Gone
<1>6. Range(open) = {} /\ Range(<<>>) = {} /\ Roots' = {}
  BY <1>1 DEF Range, Roots
<1>7. Notes(tree, notes, {}, S) /\ \A r \in S : r \in Node \ {}
  BY <1>2, <1>6, RootsAre
<1> HIDE DEF u, S
<1>8. Notes(u, notes, {}, {})
  <2> DEFINE Z == {}
  <2>1. /\ Notes(tree, notes, Z, S) /\ Survives(tree, u, Z)
        /\ \A r \in S : r \in Node \ Z
        /\ \A e \in Z : tree.parent[e] = NoNode
        /\ \A e \in Z : e \in Z \/ (e \in Node /\ tree.phase[e] = "fresh")
        /\ \A r \in Z : \/ r \in S /\ Live(u, r) /\ tree.phase[r] # "fresh"
                        \/ \A x \in Subtree(u, r) : tree.phase[x] = "fresh"
    BY <1>5, <1>7
  <2> HIDE DEF Z
  <2>2. Notes(u, notes, Z, Z)
    BY <1>2, <2>1, NotesKept
  <2> QED
    BY <2>2 DEF Z
<1>9. OpenInv(u, <<>>, {})
  BY <1>6 DEF OpenInv, IsInjective, Outside
<1>10. TableInv(u, <<>>, <<>>, uriOf)
  BY DEF TableInv, Recorded
<1> QED
  BY <1>1, <1>5, <1>6, <1>8, <1>9, <1>10 DEF DocInv, u

LEMMA DocInitInv == DocInit => DocInv
<1> SUFFICES ASSUME DocInit PROVE DocInv
  OBVIOUS
<1>1. Good(tree) /\ Ordered(tree)
  BY InitOrdered DEF DocInit, OrderInv, Inv
<1>2. Fit(tree)
  BY DEF DocInit, Init, Fit, Spaced, Beside, NextTo
<1>3. Range(open) = {} /\ Roots = {}
  BY DEF DocInit, Range, Roots
<1>4. OpenInv(tree, open, held)
  BY <1>3 DEF DocInit, OpenInv, IsInjective, Outside
<1>5. TableInv(tree, documents, byUri, uriOf)
  BY DEF DocInit, TableInv, Recorded
<1>6. notes \in Annotations /\ \A n \in Node : ~Annotated(notes, n)
  BY DEF DocInit, NoAnnotations, Annotations, Annotated
<1>7. Notes(tree, notes, {}, {})
  BY <1>6 DEF Notes, IdsGiven, Housed, Gapped, OneId, Alike
<1> QED
  BY <1>1, <1>2, <1>3, <1>4, <1>5, <1>7 DEF DocInv

-----------------------------------------------------------------------------
(* Every step. *)

LEMMA StepKeeps ==
    ASSUME DocInv, [DocNext]_dvars
    PROVE  /\ DocInv'
           /\ \A x \in Node : Annotated(notes, x) => notes'.order[x] = notes.order[x]
           /\ \/ Cleanup
              \/ /\ Appends /\ IsPrefix(documents, documents')
                 /\ \A x \in DOMAIN byUri : byUri'[x] = byUri[x]
<1>1. IsPrefix(documents, documents)
  <2>1. Len(documents) \in Nat
    BY EntriesAre DEF DocInv, TableInv
  <2> QED
    BY <2>1 DEF IsPrefix
<1>2. tree' = tree => Appends
  <2>1. Spares(tree, tree, Range(open), Node \ Range(open))
    BY GrownSame, GrownSpares DEF DocInv
  <2> QED
    BY <2>1 DEF Appends
<1>3. CASE AddDocument
  BY <1>3, AddDocumentKeeps
<1>4. CASE Cleanup
  BY <1>4, CleanupKeeps
<1>5. CASE AskOrder
  BY <1>1, <1>2, <1>5, AskOrderKeeps
<1>6. CASE MakeLeaf \/ OpenElement \/ AppendLiteral \/ AppendContent \/ CloseElement \/ Copy
  <2>1. DocInv' /\ Appends /\ UNCHANGED <<notes, documents, byUri, uriOf>>
    BY <1>6, MakeLeafKeeps, OpenElementKeeps, AppendLiteralKeeps, AppendContentKeeps,
       CloseElementKeeps, CopyKeeps
  <2> QED
    BY <1>1, <2>1
<1>7. CASE UNCHANGED dvars
  <2>1. /\ tree' = tree /\ notes' = notes /\ documents' = documents /\ byUri' = byUri
        /\ uriOf' = uriOf /\ open' = open /\ held' = held
    BY <1>7 DEF dvars
  <2>2. Roots' = Roots
    BY <2>1 DEF Roots
  <2>3. DocInv'
    BY <2>1, <2>2 DEF DocInv
  <2> QED
    BY <1>1, <1>2, <2>1, <2>3
<1> QED
  BY <1>3, <1>4, <1>5, <1>6, <1>7 DEF DocNext

LEMMA DocInvariance == DocSpec => []DocInv
<1>1. DocInv /\ [DocNext]_dvars => DocInv'
  BY StepKeeps
<1> QED
  BY DocInitInv, <1>1, PTL DEF DocSpec

\* The tables of the collection agree, however documents come, are dropped for a
\* URI that is taken, and are cleaned up between programs.
THEOREM CollectionsAgree == DocSpec => []CollectionAgrees
<1>1. DocInv => CollectionAgrees
  <2> SUFFICES ASSUME DocInv PROVE CollectionAgrees
    OBVIOUS
  <2>1. /\ \A i \in DOMAIN documents : Live(tree, documents[i].root)
        /\ \A u \in DOMAIN byUri :
              /\ byUri[u] \in DOMAIN documents /\ documents[byUri[u]].uri = u
              /\ uriOf[documents[byUri[u]].root] = u
        /\ \A i \in DOMAIN documents : documents[i].uri # NoUri =>
              byUri[documents[i].uri] = i
    BY DEF DocInv, TableInv
  <2> QED
    BY <2>1 DEF CollectionAgrees
<1> QED
  BY <1>1, DocInvariance, PTL

\* A node keeps the order it was given, however often and in whatever order
\* nodes are asked for, and whatever becomes of its tree.
THEOREM OrdersStay == DocSpec => OrdersKept
<1>1. DocInv /\ [DocNext]_dvars =>
        \A n \in Node : Annotated(notes, n) => notes'.order[n] = notes.order[n]
  BY StepKeeps
<1> QED
  BY <1>1, DocInvariance, PTL DEF DocSpec, OrdersKept

\* What programs build leaves the documents of the collection as they are, node
\* for node, and the answers for their URIs.
THEOREM SourcesStay == DocSpec => SourcesUntouched
<1> DEFINE Untouched ==
        \/ Cleanup
        \/ /\ IsPrefix(documents, documents')
           /\ \A u \in DOMAIN byUri : byUri'[u] = byUri[u]
           /\ \A n \in UNION {Subtree(tree, r) : r \in Roots} :
                 /\ tree'.kids[n] = tree.kids[n]
                 /\ tree'.value[n] = tree.value[n]
<1>1. ASSUME DocInv, Appends, NEW r \in Roots, NEW n \in Subtree(tree, r)
      PROVE  tree'.kids[n] = tree.kids[n] /\ tree'.value[n] = tree.value[n]
  <2>1. Good(tree) /\ n \in Node
    BY <1>1 DEF DocInv, Subtree
  <2>2. /\ r \in Documents /\ r \in Node \ Range(open) /\ Live(tree, r)
        /\ tree.parent[r] = NoNode
    BY <1>1, RootsAre
  <2>3. n # r => tree.parent[n] \in Subtree(tree, r)
    BY <1>1, <2>1, <2>2, SubtreeHasParents
  <2>4. ASSUME NEW x \in Subtree(tree, r) PROVE x \in Node \ Range(open)
    <3>1. x # r => tree.parent[x] # NoNode
      BY <2>1, <2>2, <2>4, SubtreeHasParents, NoNodeIsNoNode DEF Subtree
    <3> QED
      BY <1>1, <2>2, <2>4, <3>1, OpenIs DEF Subtree
  <2>5. n # r => tree.parent[n] \notin Range(open) \cup {NoNode}
    BY <2>3, <2>4, NoNodeIsNoNode
  <2>6. tree.phase[n] # "fresh"
    BY <2>1, <2>2, <2>5 DEF Good, Forest, ParentsAreContainers, Live
  <2>7. n # r \/ n \notin Texts \cup Abnormal
    BY <2>2, KindsApart
  <2> QED
    BY <1>1, <2>1, <2>4, <2>5, <2>6, <2>7 DEF Appends, Spares
<1>2. DocInv /\ [DocNext]_dvars => Untouched
  BY <1>1, StepKeeps
<1> QED
  BY <1>2, DocInvariance, PTL DEF DocSpec, SourcesUntouched

\* No instruction of a careful program panics: the walk that numbers nodes meets
\* the node asked for, and appending never meets a freed handle.
LEMMA NeverPanics ==
    ASSUME ~AnyCall
    PROVE  DocSpec => [](DocInv /\ ~panicked)
<1>1. ASSUME DocInv, ~panicked, [DocNext]_dvars PROVE ~panicked'
  <2>1. CASE AddDocument \/ Cleanup
    BY <1>1, <2>1 DEF AddDocument, Cleanup
  <2>2. CASE AskOrder
    BY <1>1, <2>2, AskOrderKeeps
  <2>3. \A o, items : Program(o, items) => panicked' = (o.res = "panic")
    BY DEF Program
  <2>4. \A t : Ok(t).res = "ok"
    BY DEF Ok
  <2>5. CASE MakeLeaf \/ OpenElement \/ CloseElement
    BY <2>3, <2>4, <2>5 DEF MakeLeaf, OpenElement, CloseElement
  <2>6. CASE AppendLiteral
    <3>1. PICK K \in Kinds :
            /\ open # <<>> /\ FreshOf(tree, K) # {}
            /\ Program(XmlAppend(NewNode(tree, Pick(tree, K)), Last(open), <<Pick(tree, K)>>), {})
      BY <2>6 DEF AppendLiteral
    <3> DEFINE a == Pick(tree, K)
               u == NewNode(tree, a)
               value == <<a>>
    <3>2. a \in Node /\ tree.phase[a] = "fresh"
      BY <3>1, PickIs, KindsAreNodes
    <3>3. Program(XmlAppend(u, Last(open), value), {})
      BY <3>1
    <3> HIDE DEF a
    <3>4. Grown(tree, u) /\ a \notin Range(open) /\ Live(u, a)
          /\ Spares(tree, u, Range(open), Node \ Range(open))
      BY <1>1, <3>2, NewSpares DEF Ok
    <3>5. Opened(u, Range(open), Last(open))
      BY <1>1, <3>1, <3>4, OutsideStays, OpenIs DEF Opened, Grown, DocInv, OpenInv
    <3>6. /\ Len(value) \in Nat
          /\ \A i \in 1 .. Len(value) : value[i] \in (Node \ Range(open)) \cup {String}
      BY <3>2, <3>4
    <3>7. Steady(u, value)
      BY <3>4 DEF Steady
    <3> HIDE DEF u, value
    <3>8. XmlAppend(u, Last(open), value).res # "panic"
      BY <3>5, <3>6, <3>7, XmlAppendIs
    <3> QED
      BY <2>3, <3>3, <3>8
  <2>7. CASE AppendContent
    <3>1. PICK value \in Values :
            /\ open # <<>> /\ Careful(value)
            /\ \E items : Program(XmlAppend(tree, Last(open), value), items)
      BY <2>7 DEF AppendContent
    <3>2. /\ Len(value) \in Nat
          /\ \A i \in 1 .. Len(value) : value[i] \in (Node \ Range(open)) \cup {String}
          /\ Steady(tree, value)
      BY <1>1, <3>1, ValueIs
    <3>3. Opened(tree, Range(open), Last(open))
      BY <1>1, <3>1, OpenIs DEF Opened, DocInv, OpenInv
    <3>4. XmlAppend(tree, Last(open), value).res # "panic"
      BY <3>2, <3>3, XmlAppendIs
    <3> QED
      BY <2>3, <3>1, <3>4
  <2>8. CASE Copy
    <3>1. PICK n \in Reachable :
             \E c \in {CloneNode(tree, n), ShallowCopy(tree, n)} : Program(c, {c.node})
      BY <2>8 DEF Copy
    <3>0. PICK c \in {CloneNode(tree, n), ShallowCopy(tree, n)} : Program(c, {c.node})
      BY <3>1
    <3>2. Clones(tree, n, c)
      BY <1>1, <3>0, ReachableIs, ClonesIs DEF DocInv
    <3> QED
      BY <2>3, <3>0, <3>2 DEF Clones
  <2>9. CASE UNCHANGED dvars
    BY <1>1, <2>9 DEF dvars
  <2> QED
    BY <1>1, <2>1, <2>2, <2>5, <2>6, <2>7, <2>8, <2>9 DEF DocNext
<1>2. DocInit => ~panicked
  BY DEF DocInit, Init
<1> QED
  BY <1>1, <1>2, DocInvariance, PTL DEF DocSpec

\* The order of nodes is the order of the trees they are in, whenever and in
\* whatever order they were asked for, while the trees grow and are put into
\* others; a document has one id; and no program that is careful with its nodes
\* panics, on the walk that numbers them or in an append.
THEOREM OrdersAgree ==
    ASSUME ~AnyCall
    PROVE  DocSpec => []OrderAgrees
<1>1. DocInv /\ ~panicked => OrderAgrees
  <2> SUFFICES ASSUME DocInv, ~panicked PROVE OrderAgrees
    OBVIOUS
  <2>1. Good(tree) /\ Notes(tree, notes, Range(open), Roots)
    BY DEF DocInv
  <2>2. ASSUME NEW m \in LiveAnnotated, NEW n \in LiveAnnotated, m # n,
               notes.order[m][1] = notes.order[n][1]
        PROVE  /\ SameTree(tree, m, n)
               /\ Less(notes.order[m], notes.order[n]) <=> Before(tree, m, n)
    <3>1. m \in Node /\ n \in Node /\ Alike(tree, notes, m, n)
      BY <2>2 DEF LiveAnnotated, LiveNodes, Alike
    <3> QED
      BY <2>1, <2>2, <3>1, NotesAgree
  <2>3. ASSUME NEW r \in Roots, NEW m \in Subtree(tree, r) \cap LiveAnnotated,
               NEW n \in Subtree(tree, r) \cap LiveAnnotated
        PROVE  notes.order[m][1] = notes.order[n][1]
    BY <2>1, <2>3 DEF Notes, OneId, LiveAnnotated
  <2> QED
    BY <2>2, <2>3 DEF OrderAgrees
<1> QED
  BY <1>1, NeverPanics, PTL
=============================================================================
