-------------------------- MODULE DocumentOrder_proofs --------------------------
(***************************************************************************)
(* That the numbers of nodes can be trusted on one tree: document order is *)
(* a total order on the nodes of a tree, the recursive walks of the source *)
(* follow it, and the walk that numbers nodes meets the node it was asked  *)
(* for and gives numbers that grow on the way.                             *)
(*                                                                         *)
(* The walks are recursive functions with as many steps as there are       *)
(* nodes.  What they compute is proved with the least step that is an      *)
(* exception (Least, Counting, Iteration), and that the steps suffice with *)
(* the rank of a node, the number of nodes before it.                      *)
(***************************************************************************)
EXTENDS DocumentOrder, XotTree_proofs, FiniteSetTheorems

-----------------------------------------------------------------------------
(* Ancestors. *)

\* What is above a node is in every set that has its parent and is closed
\* under parents.
LEMMA AncestorsLeast ==
    ASSUME NEW t, NEW n \in Node, NEW S \in SUBSET Container,
           t.parent[n] \in S \cup {NoNode},
           \A m \in S : t.parent[m] \in S \cup {NoNode}
    PROVE  Ancestors(t, n) \subseteq S
  BY DEF Ancestors

\* Every set of nodes has one whose parent is not in it.
LEMMA TopMost ==
    ASSUME NEW t, Good(t), NEW S \in SUBSET Node, S # {}
    PROVE  \E x \in S : t.parent[x] \notin S
<1>1. \A x \in Node : t.parent[x] \in Container \cup {NoNode}
  BY DEF Good, Forest, ParentsAreContainers
<1>2. CASE S \cap Container = {}
  BY <1>1, <1>2, NoNodeIsNoNode
<1>3. CASE S \cap Container # {}
  <2>1. PICK x \in S \cap Container : t.parent[x] \notin S \cap Container
    BY <1>3 DEF Good, Forest, Acyclic
  <2> QED
    BY <1>1, <2>1, NoNodeIsNoNode
<1> QED
  BY <1>2, <1>3

\* The parent is above a node, and with it what is above the parent.
LEMMA AboveParent ==
    ASSUME NEW t, Good(t), NEW n \in Node
    PROVE  /\ t.parent[n] \in Container \cup {NoNode}
           /\ t.parent[n] = NoNode => Ancestors(t, n) = {}
           /\ t.parent[n] # NoNode => /\ Ancestors(t, n) = AncestorsOrSelf(t, t.parent[n])
                                      /\ t.parent[n] \in Ancestors(t, n)
<1>1. t.parent[n] \in Container \cup {NoNode}
  BY DEF Good, Forest, ParentsAreContainers
<1>2. t.parent[n] = NoNode => Ancestors(t, n) = {}
  BY RootsHaveNone
<1>3. t.parent[n] # NoNode => Ancestors(t, n) = AncestorsOrSelf(t, t.parent[n])
  BY <1>1, AncestorsStep
<1> QED
  BY <1>1, <1>2, <1>3 DEF AncestorsOrSelf

\* Being above is an order.
LEMMA AboveOrder ==
    ASSUME NEW t, Good(t)
    PROVE  /\ \A n \in Node : Ancestors(t, n) \subseteq Container /\ n \notin Ancestors(t, n)
           /\ \A a, b, c \in Node : a \in AncestorsOrSelf(t, b) /\ b \in AncestorsOrSelf(t, c)
                 => a \in AncestorsOrSelf(t, c)
           /\ \A a, b, c \in Node : a \in Ancestors(t, b) /\ b \in AncestorsOrSelf(t, c)
                 => a \in Ancestors(t, c)
           /\ \A a, b, c \in Node : a \in AncestorsOrSelf(t, b) /\ b \in Ancestors(t, c)
                 => a \in Ancestors(t, c)
           /\ \A a, b \in Node : a \in AncestorsOrSelf(t, b) => b \notin Ancestors(t, a)
<1>1. ASSUME NEW n \in Node
      PROVE  Ancestors(t, n) \subseteq Container /\ n \notin Ancestors(t, n)
  <2>1. Ancestors(t, n) \subseteq Container
    BY DEF Ancestors
  <2>2. CASE t.parent[n] = NoNode
    BY <2>1, <2>2, AboveParent
  <2>3. CASE t.parent[n] # NoNode
    <3>1. t.parent[n] \notin Subtree(t, n)
      BY <2>3, ParentOutside
    <3>2. t.parent[n] \in Node
      BY <2>3, AboveParent DEF Container, Node, Normal
    <3> QED
      BY <2>1, <2>3, <3>1, <3>2, AboveParent DEF Subtree
  <2> QED
    BY <2>2, <2>3
<1>2. ASSUME NEW b \in Node, NEW c \in Node, b \in Ancestors(t, c)
      PROVE  Ancestors(t, b) \subseteq Ancestors(t, c)
  <2>1. \A m \in Ancestors(t, c) : t.parent[m] \in Ancestors(t, c) \cup {NoNode}
    <3> TAKE m \in Ancestors(t, c)
    <3>1. m \in Node
      BY <1>1 DEF Container, Node, Normal
    <3>2. CASE t.parent[m] = NoNode
      BY <3>2
    <3>3. CASE t.parent[m] # NoNode
      BY <3>1, <3>3, AboveParent, AncestorsClosed DEF AncestorsOrSelf
    <3> QED
      BY <3>2, <3>3
  <2>2. Ancestors(t, c) \in SUBSET Container
    BY <1>1
  <2> QED
    BY <1>2, <2>1, <2>2, AncestorsLeast
<1>3. \A a, b, c \in Node :
         /\ a \in AncestorsOrSelf(t, b) /\ b \in AncestorsOrSelf(t, c)
               => a \in AncestorsOrSelf(t, c)
         /\ a \in Ancestors(t, b) /\ b \in AncestorsOrSelf(t, c) => a \in Ancestors(t, c)
         /\ a \in AncestorsOrSelf(t, b) /\ b \in Ancestors(t, c) => a \in Ancestors(t, c)
  BY <1>2 DEF AncestorsOrSelf
<1>4. \A a, b \in Node : a \in AncestorsOrSelf(t, b) => b \notin Ancestors(t, a)
  BY <1>1, <1>3
<1> QED
  BY <1>1, <1>3, <1>4

\* Two nodes above or at a third are above or at one another.
LEMMA AboveChain ==
    ASSUME NEW t, Good(t), NEW a \in Node, NEW b \in Node, NEW c \in Node,
           a \in AncestorsOrSelf(t, c), b \in AncestorsOrSelf(t, c)
    PROVE  a \in AncestorsOrSelf(t, b) \/ b \in Ancestors(t, a)
<1>1. CASE b = c
  BY <1>1
<1>2. CASE b \in Ancestors(t, c)
  <2> DEFINE S == {x \in Container : b \in AncestorsOrSelf(t, x) \/ x \in Ancestors(t, b)}
  <2>1. t.parent[c] \in S
    <3>1. t.parent[c] # NoNode /\ t.parent[c] \in Container
      BY <1>2, AboveParent
    <3> QED
      BY <1>2, <3>1, AboveParent
  <2>2. ASSUME NEW x \in S PROVE t.parent[x] \in S \cup {NoNode}
    <3>1. x \in Node
      BY DEF Container, Node, Normal
    <3>2. SUFFICES ASSUME t.parent[x] # NoNode PROVE t.parent[x] \in S
      OBVIOUS
    <3>3. t.parent[x] \in Container /\ t.parent[x] \in Node /\ t.parent[x] \in Ancestors(t, x)
      BY <3>1, <3>2, AboveParent DEF Container, Node, Normal
    <3>4. CASE b \in Ancestors(t, x)
      BY <3>1, <3>2, <3>3, <3>4, AboveParent
    <3>5. CASE x \in AncestorsOrSelf(t, b)
      BY <3>1, <3>3, <3>5, AboveOrder
    <3> QED
      BY <3>4, <3>5 DEF AncestorsOrSelf
  <2>3. Ancestors(t, c) \subseteq S
    <3> HIDE DEF S
    <3>1. S \in SUBSET Container
      BY DEF S
    <3> QED
      BY <2>1, <2>2, <3>1, AncestorsLeast
  <2>4. CASE a = c
    BY <1>2, <2>4
  <2>5. CASE a \in Ancestors(t, c)
    BY <2>3, <2>5 DEF AncestorsOrSelf
  <2> QED
    BY <2>4, <2>5 DEF AncestorsOrSelf
<1> QED
  BY <1>1, <1>2 DEF AncestorsOrSelf

-----------------------------------------------------------------------------
(* Siblings. *)

\* A child is a node; what is above it is its parent and what is above that.
LEMMA KidsBelow ==
    ASSUME NEW t, Good(t), NEW p \in Node, NEW i \in DOMAIN t.kids[p]
    PROVE  LET x == t.kids[p][i]
           IN /\ x \in Node /\ t.parent[x] = p /\ p \in Container
              /\ Ancestors(t, x) = AncestorsOrSelf(t, p) /\ p \in Ancestors(t, x)
              /\ i \in 1 .. Len(t.kids[p]) /\ t.kids[p] \in Seq(Node)
<1>1. t.kids[p][i] \in Node /\ t.parent[t.kids[p][i]] = p /\ p \in Container
  BY ParentsHaveKids
<1>2. t.kids[p] \in Seq(Node)
  BY DEF Good, Tree
<1> QED
  BY <1>1, <1>2, AboveParent, NoNodeIsNoNode

\* A node stands once among the children of its parent.
LEMMA KidListed ==
    ASSUME NEW t, Good(t), NEW n \in Node, t.parent[n] # NoNode
    PROVE  LET p == t.parent[n]
           IN /\ p \in Container /\ p \in Node
              /\ Position(t, n) \in DOMAIN t.kids[p]
              /\ t.kids[p][Position(t, n)] = n
              /\ \A i \in DOMAIN t.kids[p] : t.kids[p][i] = n => i = Position(t, n)
<1>1. LET s == t.kids[t.parent[n]]
      IN /\ t.parent[n] \in Container
         /\ s \in Seq(Node) /\ IsInjective(s)
         /\ Position(t, n) \in 1 .. Len(s) /\ s[Position(t, n)] = n
  BY PositionListed
<1>2. t.parent[n] \in Node
  BY <1>1 DEF Container, Node, Normal
<1> QED
  BY <1>1, <1>2 DEF IsInjective

\* Two children of one node are not above or at the same node.
LEMMA KidsApart ==
    ASSUME NEW t, Good(t), NEW p \in Node, NEW n \in Node,
           NEW i \in DOMAIN t.kids[p], NEW j \in DOMAIN t.kids[p],
           t.kids[p][i] \in AncestorsOrSelf(t, n), t.kids[p][j] \in AncestorsOrSelf(t, n)
    PROVE  i = j
<1> DEFINE x == t.kids[p][i]
           y == t.kids[p][j]
<1>1. /\ x \in Node /\ Ancestors(t, x) = AncestorsOrSelf(t, p) /\ p \in Ancestors(t, x)
      /\ y \in Node /\ Ancestors(t, y) = AncestorsOrSelf(t, p) /\ p \in Ancestors(t, y)
      /\ t.parent[x] = p /\ t.parent[y] = p
  BY KidsBelow
<1>2. x = y
  <2>1. x \notin AncestorsOrSelf(t, p) /\ y \notin AncestorsOrSelf(t, p)
    BY <1>1, AboveOrder
  <2> QED
    BY <1>1, <2>1, AboveChain DEF AncestorsOrSelf
<1> QED
  BY <1>1, <1>2, KidListed, NoNodeIsNoNode

\* What is above a node has a child that is above or at it.
LEMMA KidToward ==
    ASSUME NEW t, Good(t), NEW n \in Node, NEW p \in Ancestors(t, n)
    PROVE  p \in Node /\ \E i \in DOMAIN t.kids[p] : t.kids[p][i] \in AncestorsOrSelf(t, n)
<1> DEFINE S == {x \in Ancestors(t, n) :
                   \E i \in DOMAIN t.kids[x] : t.kids[x][i] \in AncestorsOrSelf(t, n)}
<1>1. S \in SUBSET Container
  BY AboveOrder
<1>2. ASSUME NEW x \in AncestorsOrSelf(t, n), t.parent[x] # NoNode
      PROVE  t.parent[x] \in S
  <2>1. x \in Node
    BY AboveOrder DEF AncestorsOrSelf, Container, Node, Normal
  <2>2. t.parent[x] \in Ancestors(t, x) /\ t.parent[x] \in Node
    BY <1>2, <2>1, AboveParent, KidListed
  <2>3. t.parent[x] \in Ancestors(t, n)
    BY <2>1, <2>2, AboveOrder
  <2> QED
    BY <1>2, <2>1, <2>3, KidListed
<1>3. Ancestors(t, n) \subseteq S
  <2>1. t.parent[n] \in S \cup {NoNode}
    BY <1>2 DEF AncestorsOrSelf
  <2>2. \A m \in S : t.parent[m] \in S \cup {NoNode}
    BY <1>2 DEF AncestorsOrSelf
  <2> QED
    BY <1>1, <2>1, <2>2, AncestorsLeast
<1> QED
  BY <1>1, <1>3 DEF Container, Node, Normal

\* Where two nodes are under different children of p, whatever is above or at
\* both is above or at p.
LEMMA Fork ==
    ASSUME NEW t, Good(t), NEW p \in Node, NEW m \in Node, NEW n \in Node,
           NEW i \in DOMAIN t.kids[p], NEW j \in DOMAIN t.kids[p], i # j,
           t.kids[p][i] \in AncestorsOrSelf(t, m), t.kids[p][j] \in AncestorsOrSelf(t, n),
           NEW q \in Node, q \in AncestorsOrSelf(t, m), q \in AncestorsOrSelf(t, n)
    PROVE  q \in AncestorsOrSelf(t, p)
<1>1. p \in AncestorsOrSelf(t, m)
  BY KidsBelow, AboveOrder DEF AncestorsOrSelf
<1>2. SUFFICES ASSUME p \in Ancestors(t, q) PROVE FALSE
  BY <1>1, AboveChain
<1>3. PICK k \in DOMAIN t.kids[p] : t.kids[p][k] \in AncestorsOrSelf(t, q)
  BY <1>2, KidToward
<1>4. t.kids[p][k] \in Node
  BY KidsBelow
<1>5. t.kids[p][k] \in AncestorsOrSelf(t, m) /\ t.kids[p][k] \in AncestorsOrSelf(t, n)
  BY <1>3, <1>4, AboveOrder
<1> QED
  BY <1>5, KidsApart

-----------------------------------------------------------------------------
(* Document order is an order, and total on every tree. *)

\* The places that document order is read from: m is in an earlier child of p
\* than n is.
Beyond(t, p, i, j, m, n) ==
    /\ p \in Node /\ i \in DOMAIN t.kids[p] /\ j \in DOMAIN t.kids[p] /\ i < j
    /\ t.kids[p][i] \in AncestorsOrSelf(t, m)
    /\ t.kids[p][j] \in AncestorsOrSelf(t, n)

LEMMA BeforeCases ==
    ASSUME NEW t, Good(t), NEW m \in Node, NEW n \in Node
    PROVE  Before(t, m, n) <=>
              m \in Ancestors(t, n) \/ \E p \in Node, i, j \in Int : Beyond(t, p, i, j, m, n)
<1>1. \A p \in Node : \A i \in DOMAIN t.kids[p] : i \in Int /\ p \in Container
  BY KidsBelow
<1>2. Container \subseteq Node
  BY DEF Container, Node, Normal
<1>3. ASSUME NEW p \in Node, NEW i \in Int, NEW j \in Int, Beyond(t, p, i, j, m, n)
      PROVE  Before(t, m, n)
  BY <1>1, <1>3 DEF Beyond, Before
<1>4. ASSUME Before(t, m, n), m \notin Ancestors(t, n)
      PROVE  \E p \in Node, i, j \in Int : Beyond(t, p, i, j, m, n)
  <2>1. PICK p \in Container : \E i, j \in DOMAIN t.kids[p] :
          /\ i < j
          /\ t.kids[p][i] \in AncestorsOrSelf(t, m)
          /\ t.kids[p][j] \in AncestorsOrSelf(t, n)
    BY <1>4 DEF Before
  <2>2. PICK i \in DOMAIN t.kids[p], j \in DOMAIN t.kids[p] :
          /\ i < j
          /\ t.kids[p][i] \in AncestorsOrSelf(t, m)
          /\ t.kids[p][j] \in AncestorsOrSelf(t, n)
    BY <2>1
  <2> QED
    BY <1>1, <1>2, <2>2 DEF Beyond
<1> QED
  BY <1>3, <1>4 DEF Before

\* What the two nodes have above them there.
LEMMA BeyondAbove ==
    ASSUME NEW t, Good(t), NEW p \in Node, NEW i \in Int, NEW j \in Int, NEW m \in Node, NEW n \in Node,
           Beyond(t, p, i, j, m, n)
    PROVE  /\ p \in Node /\ p \in Container
           /\ i \in 1 .. Len(t.kids[p]) /\ j \in 1 .. Len(t.kids[p]) /\ i < j
           /\ t.kids[p][i] \in Node /\ t.kids[p][j] \in Node
           /\ p \in Ancestors(t, m) /\ p \in Ancestors(t, n)
           /\ \A k \in DOMAIN t.kids[p] :
                 /\ t.kids[p][k] \in AncestorsOrSelf(t, m) => k = i
                 /\ t.kids[p][k] \in AncestorsOrSelf(t, n) => k = j
<1>1. /\ p \in Node /\ i \in DOMAIN t.kids[p] /\ j \in DOMAIN t.kids[p] /\ i < j
      /\ t.kids[p][i] \in AncestorsOrSelf(t, m) /\ t.kids[p][j] \in AncestorsOrSelf(t, n)
  BY DEF Beyond
<1>2. /\ t.kids[p][i] \in Node /\ t.kids[p][j] \in Node /\ p \in Container
      /\ i \in 1 .. Len(t.kids[p]) /\ j \in 1 .. Len(t.kids[p])
      /\ p \in Ancestors(t, t.kids[p][i]) /\ p \in Ancestors(t, t.kids[p][j])
  BY <1>1, KidsBelow
<1>3. p \in Ancestors(t, m) /\ p \in Ancestors(t, n)
  BY <1>1, <1>2, AboveOrder
<1> QED
  BY <1>1, <1>2, <1>3, KidsApart

\* Between the child of p toward m and p itself nothing else of m is above.
LEMMA BeyondHigher ==
    ASSUME NEW t, Good(t), NEW p \in Node, NEW i \in Int, NEW j \in Int, NEW m \in Node, NEW n \in Node,
           Beyond(t, p, i, j, m, n), NEW q \in Node
    PROVE  /\ q \in AncestorsOrSelf(t, m) =>
                 q \in AncestorsOrSelf(t, p) \/ t.kids[p][i] \in AncestorsOrSelf(t, q)
           /\ q \in AncestorsOrSelf(t, n) =>
                 q \in AncestorsOrSelf(t, p) \/ t.kids[p][j] \in AncestorsOrSelf(t, q)
<1>1. /\ p \in Node /\ p \in Ancestors(t, m) /\ p \in Ancestors(t, n)
      /\ \A k \in DOMAIN t.kids[p] :
            /\ t.kids[p][k] \in AncestorsOrSelf(t, m) => k = i
            /\ t.kids[p][k] \in AncestorsOrSelf(t, n) => k = j
  BY BeyondAbove
<1>2. ASSUME NEW x \in {m, n}, q \in AncestorsOrSelf(t, x), q \notin AncestorsOrSelf(t, p)
      PROVE  \E k \in DOMAIN t.kids[p] : /\ t.kids[p][k] \in AncestorsOrSelf(t, q)
                                         /\ t.kids[p][k] \in AncestorsOrSelf(t, x)
  <2>1. x \in Node /\ p \in AncestorsOrSelf(t, x)
    BY <1>1 DEF AncestorsOrSelf
  <2>2. p \in Ancestors(t, q)
    BY <1>1, <1>2, <2>1, AboveChain
  <2>3. PICK k \in DOMAIN t.kids[p] : t.kids[p][k] \in AncestorsOrSelf(t, q)
    BY <2>2, KidToward
  <2>4. t.kids[p][k] \in Node
    BY <1>1, KidsBelow
  <2> QED
    BY <1>2, <2>1, <2>3, <2>4, AboveOrder
<1> QED
  BY <1>1, <1>2

\* A node is not before one that is before it, or before itself.
LEMMA BeforeAsymmetric ==
    ASSUME NEW t, Good(t), NEW m \in Node, NEW n \in Node,
           Before(t, m, n), Before(t, n, m)
    PROVE  FALSE
<1>1. ASSUME NEW x \in Node, NEW y \in Node, x \in Ancestors(t, y), Before(t, y, x)
      PROVE  FALSE
  <2>1. y \notin Ancestors(t, x)
    BY <1>1, AboveOrder DEF AncestorsOrSelf
  <2>2. PICK p \in Node, i \in Int, j \in Int : Beyond(t, p, i, j, y, x)
    BY <1>1, <2>1, BeforeCases
  <2>3. /\ i # j /\ t.kids[p][j] \in Node /\ t.kids[p][j] \in AncestorsOrSelf(t, x)
        /\ i \in DOMAIN t.kids[p] /\ j \in DOMAIN t.kids[p]
        /\ t.kids[p][i] \in AncestorsOrSelf(t, y)
    BY <2>2, KidsBelow DEF Beyond
  <2>4. t.kids[p][j] \in AncestorsOrSelf(t, y)
    BY <1>1, <2>3, AboveOrder DEF AncestorsOrSelf
  <2> QED
    BY <2>2, <2>3, <2>4, KidsApart
<1>2. PICK p \in Node, i \in Int, j \in Int : Beyond(t, p, i, j, m, n)
  BY <1>1, BeforeCases
<1>3. PICK q \in Node, k \in Int, l \in Int : Beyond(t, q, k, l, n, m)
  BY <1>1, BeforeCases
<1>4. /\ p \in Ancestors(t, m) /\ p \in Ancestors(t, n)
      /\ q \in Ancestors(t, m) /\ q \in Ancestors(t, n)
      /\ i # j /\ k # l
  BY <1>2, <1>3, BeyondAbove
<1>5. q \in AncestorsOrSelf(t, p) /\ p \in AncestorsOrSelf(t, q)
  <2>1. /\ q \in AncestorsOrSelf(t, m) /\ q \in AncestorsOrSelf(t, n)
        /\ p \in AncestorsOrSelf(t, m) /\ p \in AncestorsOrSelf(t, n)
    BY <1>4 DEF AncestorsOrSelf
  <2>2. q \in AncestorsOrSelf(t, p)
    BY <1>2, <1>4, <2>1, Fork DEF Beyond
  <2>3. p \in AncestorsOrSelf(t, q)
    BY <1>3, <1>4, <2>1, Fork DEF Beyond
  <2> QED
    BY <2>2, <2>3
<1>6. p = q
  BY <1>5, AboveOrder DEF AncestorsOrSelf
<1>7. i = l /\ j = k
  BY <1>2, <1>3, <1>6, KidsApart DEF Beyond
<1> QED
  BY <1>2, <1>3, <1>7 DEF Beyond

LEMMA BeforeTransitive ==
    ASSUME NEW t, Good(t), NEW a \in Node, NEW b \in Node, NEW c \in Node,
           Before(t, a, b), Before(t, b, c)
    PROVE  Before(t, a, c)
<1>1. CASE a \in Ancestors(t, b) /\ b \in Ancestors(t, c)
  BY <1>1, AboveOrder, BeforeCases DEF AncestorsOrSelf
<1>2. ASSUME a \in Ancestors(t, b),
             NEW p \in Node, NEW i \in Int, NEW j \in Int, Beyond(t, p, i, j, b, c)
      PROVE  Before(t, a, c)
  <2>1. CASE a \in AncestorsOrSelf(t, p)
    BY <1>2, <2>1, BeyondAbove, AboveOrder, BeforeCases
  <2>2. CASE t.kids[p][i] \in AncestorsOrSelf(t, a)
    BY <1>2, <2>2, BeforeCases DEF Beyond
  <2> QED
    BY <1>2, <2>1, <2>2, BeyondHigher DEF AncestorsOrSelf
<1>3. ASSUME b \in Ancestors(t, c),
             NEW p \in Node, NEW i \in Int, NEW j \in Int, Beyond(t, p, i, j, a, b)
      PROVE  Before(t, a, c)
  <2>1. t.kids[p][j] \in AncestorsOrSelf(t, c)
    BY <1>3, BeyondAbove, AboveOrder DEF Beyond, AncestorsOrSelf
  <2> QED
    BY <1>3, <2>1, BeforeCases DEF Beyond
<1>4. ASSUME NEW p \in Node, NEW i \in Int, NEW j \in Int, Beyond(t, p, i, j, a, b),
             NEW q \in Node, NEW k \in Int, NEW l \in Int, Beyond(t, q, k, l, b, c)
      PROVE  Before(t, a, c)
  <2>1. p \in Ancestors(t, b) /\ q \in Ancestors(t, b) /\ p \in Ancestors(t, a)
        /\ q \in Ancestors(t, c)
    BY <1>4, BeyondAbove
  <2>8. t.kids[p][j] \in Node /\ t.kids[q][k] \in Node
    BY <1>4, BeyondAbove
  <2>2. CASE p = q
    <3>1. j = k
      BY <1>4, <2>2, KidsApart DEF Beyond
    <3> QED
      BY <1>4, <2>2, <3>1, BeforeCases DEF Beyond
  <2>3. CASE t.kids[p][j] \in AncestorsOrSelf(t, q)
    <3>1. t.kids[p][j] \in AncestorsOrSelf(t, c)
      <4>1. t.kids[p][j] \in Ancestors(t, c)
        BY <2>1, <2>3, <2>8, AboveOrder
      <4> QED
        BY <4>1 DEF AncestorsOrSelf
    <3> QED
      BY <1>4, <3>1, BeforeCases DEF Beyond
  <2>4. CASE t.kids[q][k] \in AncestorsOrSelf(t, p)
    <3>1. t.kids[q][k] \in AncestorsOrSelf(t, a)
      <4>1. t.kids[q][k] \in Ancestors(t, a)
        BY <2>1, <2>4, <2>8, AboveOrder
      <4> QED
        BY <4>1 DEF AncestorsOrSelf
    <3> QED
      BY <1>4, <3>1, BeforeCases DEF Beyond
  <2>5. q \in AncestorsOrSelf(t, p) \/ t.kids[p][j] \in AncestorsOrSelf(t, q)
    BY <1>4, <2>1, BeyondHigher DEF AncestorsOrSelf
  <2>6. p \in AncestorsOrSelf(t, q) \/ t.kids[q][k] \in AncestorsOrSelf(t, p)
    BY <1>4, <2>1, BeyondHigher DEF AncestorsOrSelf
  <2>7. p \in AncestorsOrSelf(t, q) /\ q \in AncestorsOrSelf(t, p) => p = q
    BY AboveOrder DEF AncestorsOrSelf
  <2> QED
    BY <2>2, <2>3, <2>4, <2>5, <2>6, <2>7
<1> QED
  BY <1>1, <1>2, <1>3, <1>4, BeforeCases

\* Of two nodes with a node above or at both, one is before the other.
LEMMA BeforeTotal ==
    ASSUME NEW t, Good(t), NEW m \in Node, NEW n \in Node, m # n,
           NEW s \in Node, s \in AncestorsOrSelf(t, m), s \in AncestorsOrSelf(t, n)
    PROVE  Before(t, m, n) \/ Before(t, n, m)
<1>1. SUFFICES ASSUME m \notin Ancestors(t, n), n \notin Ancestors(t, m)
               PROVE  Before(t, m, n) \/ Before(t, n, m)
  BY BeforeCases
<1> DEFINE S == {x \in Node : x \in AncestorsOrSelf(t, m) /\ x \notin AncestorsOrSelf(t, n)}
<1>2. m \in S
  BY <1>1 DEF AncestorsOrSelf
<1>3. PICK x \in S : t.parent[x] \notin S
  <2> HIDE DEF S
  <2>1. S \in SUBSET Node /\ S # {}
    BY <1>2 DEF S
  <2> QED
    BY <2>1, TopMost
<1> DEFINE p == t.parent[x]
<1>4. p # NoNode
  <2>1. ASSUME p = NoNode PROVE FALSE
    <3>1. Ancestors(t, x) = {}
      BY <2>1, AboveParent
    <3>2. x \in AncestorsOrSelf(t, s)
      BY <3>1, AboveChain DEF AncestorsOrSelf
    <3> QED
      BY <3>2, AboveOrder
  <2> QED
    BY <2>1
<1>5. p \in Node /\ p \in Ancestors(t, x)
  BY <1>4, KidListed, AboveParent
<1>6. p \in Ancestors(t, m)
  BY <1>5, AboveOrder
<1>7. p \in Ancestors(t, n)
  BY <1>1, <1>3, <1>5, <1>6 DEF AncestorsOrSelf
<1>8. PICK j \in DOMAIN t.kids[p] : t.kids[p][j] \in AncestorsOrSelf(t, n)
  BY <1>7, KidToward
<1>9. PICK i \in DOMAIN t.kids[p] : t.kids[p][i] = x
  BY <1>4, KidListed
<1>10. i \in Int /\ j \in Int /\ i # j
  BY <1>3, <1>5, <1>8, <1>9, KidsBelow
<1>11. Beyond(t, p, i, j, m, n) \/ Beyond(t, p, j, i, n, m)
  <2>1. x \in AncestorsOrSelf(t, m)
    BY <1>3
  <2> HIDE DEF p, S
  <2> QED
    BY <1>5, <1>8, <1>9, <1>10, <2>1 DEF Beyond
<1> QED
  BY <1>5, <1>10, <1>11, BeforeCases

\* One node is before another only where something is above or at both.
LEMMA BeforeMeets ==
    ASSUME NEW t, Good(t), NEW m \in Node, NEW n \in Node, Before(t, m, n)
    PROVE  \E s \in Node : s \in AncestorsOrSelf(t, m) /\ s \in AncestorsOrSelf(t, n)
<1>1. CASE m \in Ancestors(t, n)
  BY <1>1 DEF AncestorsOrSelf
<1>2. ASSUME NEW p \in Node, NEW i \in Int, NEW j \in Int, Beyond(t, p, i, j, m, n)
      PROVE  p \in AncestorsOrSelf(t, m) /\ p \in AncestorsOrSelf(t, n)
  BY <1>2, BeyondAbove DEF AncestorsOrSelf
<1> QED
  BY <1>1, <1>2, BeforeCases

\* What lies between two nodes of a subtree is in the subtree.
LEMMA BetweenInside ==
    ASSUME NEW t, Good(t), NEW m \in Node, NEW n \in Node, NEW z \in Node, NEW s \in Node,
           s \in AncestorsOrSelf(t, m), s \in AncestorsOrSelf(t, n),
           Before(t, m, z), Before(t, z, n)
    PROVE  s \in AncestorsOrSelf(t, z)
<1>1. CASE m \in Ancestors(t, z)
  BY <1>1, AboveOrder DEF AncestorsOrSelf
<1>2. ASSUME NEW p \in Node, NEW i \in Int, NEW j \in Int, Beyond(t, p, i, j, m, z)
      PROVE  s \in AncestorsOrSelf(t, z)
  <2>1. CASE s \in AncestorsOrSelf(t, p)
    BY <1>2, <2>1, BeyondAbove, AboveOrder DEF AncestorsOrSelf
  <2>2. CASE t.kids[p][i] \in AncestorsOrSelf(t, s)
    <3>1. t.kids[p][i] \in AncestorsOrSelf(t, n)
      BY <1>2, <2>2, BeyondAbove, AboveOrder
    <3>2. Before(t, n, z)
      BY <1>2, <3>1, BeforeCases DEF Beyond
    <3> QED
      BY <3>2, BeforeAsymmetric
  <2> QED
    BY <1>2, <2>1, <2>2, BeyondHigher
<1> QED
  BY <1>1, <1>2, BeforeCases

-----------------------------------------------------------------------------
(* Walks. *)

\* A function exists that takes one and the same step again and again.
LEMMA Walk ==
    ASSUME NEW X, NEW b \in X, NEW F \in [X -> X]
    PROVE  \E g \in [Steps -> X] :
              g[0] = b /\ \A k \in Steps : k # 0 => g[k - 1] \in X /\ g[k] = F[g[k - 1]]
<1> DEFINE N == Cardinality(Node)
           G == [i \in 1 .. N |-> F]
<1>1. N \in Nat
  BY NodesAreFinite, FS_CardinalityType
<1> HIDE DEF N
<1>2. G \in StepsIn(N, X)
  BY DEF StepsIn
<1>3. \A i \in 1 .. N : \A x \in X : G[i][x] = F[x]
  OBVIOUS
<1>4. PICK g \in [0 .. N -> X] :
        g[0] = b /\ \A i \in 1 .. N : g[i - 1] \in X /\ g[i] = G[i][g[i - 1]]
  <2> HIDE DEF G
  <2> QED
    BY <1>1, <1>2, Iteration, SMTT(30)
<1> HIDE DEF G
<1>5. Steps = 0 .. N
  BY DEF Steps, N
<1>6. g \in [Steps -> X]
  BY <1>5
<1>7. ASSUME NEW k \in Steps, k # 0 PROVE g[k - 1] \in X /\ g[k] = F[g[k - 1]]
  <2>1. k \in 1 .. N
    BY <1>1, <1>5, <1>7
  <2> QED
    BY <1>3, <1>4, <2>1
<1> QED
  BY <1>4, <1>6, <1>7

LEMMA ZeroStep == 0 \in Steps
<1>1. Cardinality(Node) \in Nat
  BY NodesAreFinite, FS_CardinalityType
<1> QED
  BY <1>1 DEF Steps

\* Every walk stays where its steps do.
LEMMA WalkStays ==
    ASSUME NEW X, NEW f, f = [k \in Steps |-> f[k]], f[0] \in X,
           \A k \in Steps : k # 0 /\ f[k - 1] \in X => f[k] \in X
    PROVE  f \in [Steps -> X]
<1> DEFINE N == Cardinality(Node)
           T == {k \in 0 .. N : f[k] \in X}
<1>1. N \in Nat /\ Steps = 0 .. N
  BY NodesAreFinite, FS_CardinalityType DEF Steps
<1> HIDE DEF N
<1>2. 0 \in T
  BY <1>1
<1>3. ASSUME NEW k \in 1 .. N, k - 1 \in T PROVE k \in T
  <2>1. k \in Steps /\ k # 0 /\ f[k - 1] \in X /\ k \in 0 .. N
    BY <1>1, <1>3
  <2> QED
    BY <2>1
<1> HIDE DEF T
<1>4. \A k \in 0 .. N : k \in T
  BY <1>1, <1>2, <1>3, Counting
<1>5. \A k \in Steps : f[k] \in X
  BY <1>1, <1>4 DEF T
<1> QED
  BY <1>5

-----------------------------------------------------------------------------
(* The path from a node up to the root. *)

LEMMA FiniteNodes ==
    /\ IsFiniteSet(Node) /\ IsFiniteSet(Container)
    /\ Cardinality(Node) \in Nat /\ Cardinality(Container) \in Nat
    /\ Cardinality(Container) \in Steps /\ Cardinality(Node) \in Steps
    /\ Steps \subseteq Nat
    /\ \A S \in SUBSET Node : /\ IsFiniteSet(S) /\ Cardinality(S) \in Nat
                              /\ Cardinality(S) <= Cardinality(Node)
    /\ \A S \in SUBSET Container : Cardinality(S) <= Cardinality(Container)
<1>1. Container \subseteq Node
  BY DEF Container, Node, Normal
<1>2. /\ IsFiniteSet(Node) /\ IsFiniteSet(Container)
      /\ \A S \in SUBSET Node : IsFiniteSet(S) /\ Cardinality(S) <= Cardinality(Node)
      /\ \A S \in SUBSET Container : Cardinality(S) <= Cardinality(Container)
  BY <1>1, NodesAreFinite, FS_Subset
<1>3. /\ Cardinality(Node) \in Nat /\ Cardinality(Container) \in Nat
      /\ \A S \in SUBSET Node : Cardinality(S) \in Nat
  BY <1>2, FS_CardinalityType
<1>4. Cardinality(Container) <= Cardinality(Node)
  BY <1>1, <1>2
<1> QED
  BY <1>2, <1>3, <1>4 DEF Steps

\* A path up: the first is n, each next one the parent of the one before.
Upward(t, n, s) ==
    /\ s \in Seq(Node) /\ Len(s) > 0 /\ s[1] = n
    /\ \A k \in 1 .. Len(s) - 1 : t.parent[s[k]] = s[k + 1]

LEMMA UpwardNext ==
    ASSUME NEW t, Good(t), NEW n \in Node, NEW s, Upward(t, n, s)
    PROVE  /\ Last(s) \in Node /\ Last(s) = s[Len(s)]
           /\ t.parent[Last(s)] # NoNode => Upward(t, n, Append(s, t.parent[Last(s)]))
<1>1. Last(s) = s[Len(s)] /\ Last(s) \in Node
  BY DEF Upward, Last
<1>2. ASSUME t.parent[Last(s)] # NoNode
      PROVE  Upward(t, n, Append(s, t.parent[Last(s)]))
  <2>1. t.parent[Last(s)] \in Node
    BY <1>1, <1>2, KidListed
  <2> QED
    BY <1>1, <2>1 DEF Upward
<1> QED
  BY <1>1, <1>2

\* The recursion of UpFrom.
LEMMA UpFromSteps ==
    ASSUME NEW t, Good(t), NEW n \in Node
    PROVE  \E up \in [Steps -> {s \in Seq(Node) : Upward(t, n, s)}] :
             /\ UpFrom(t, n) = up[Cardinality(Container)]
             /\ up[0] = <<n>>
             /\ \A k \in Steps : k # 0 =>
                   up[k] = IF t.parent[Last(up[k - 1])] = NoNode THEN up[k - 1]
                           ELSE Append(up[k - 1], t.parent[Last(up[k - 1])])
<1> DEFINE X == {s \in Seq(Node) : Upward(t, n, s)}
           Advance(s) == IF t.parent[Last(s)] = NoNode THEN s
                      ELSE Append(s, t.parent[Last(s)])
           F == [s \in X |-> Advance(s)]
           Is(f) == f = [k \in Steps |-> IF k = 0 THEN <<n>> ELSE Advance(f[k - 1])]
<1>1. <<n>> \in X
  BY DEF Upward
<1>2. ASSUME NEW s \in X PROVE Advance(s) \in X
  <2>1. Upward(t, n, s)
    OBVIOUS
  <2>2. \A r : Upward(t, n, r) => r \in Seq(Node)
    BY DEF Upward
  <2> QED
    BY <2>1, <2>2, UpwardNext
<1> HIDE DEF X, Advance
<1>3. F \in [X -> X]
  BY <1>2
<1>4. PICK g \in [Steps -> X] :
        g[0] = <<n>> /\ \A k \in Steps : k # 0 => g[k - 1] \in X /\ g[k] = F[g[k - 1]]
  <2> HIDE DEF F
  <2> QED
    BY <1>1, <1>3, Walk
<1>5. Is(g)
  BY <1>4
<1> DEFINE up == CHOOSE f : Is(f)
<1>6. Is(up)
  <2> HIDE DEF Is
  <2> QED
    BY <1>5
<1>7. UpFrom(t, n) = up[Cardinality(Container)]
  BY DEF UpFrom, Advance
<1> HIDE DEF up
<1>8. up \in [Steps -> X]
  <2>1. /\ up = [k \in Steps |-> up[k]] /\ up[0] = <<n>>
        /\ \A k \in Steps : k # 0 => up[k] = Advance(up[k - 1])
    BY <1>6, ZeroStep
  <2> QED
    BY <1>1, <1>2, <2>1, WalkStays
<1> QED
  BY <1>6, <1>7, <1>8, ZeroStep DEF X, Advance

\* A node has one node more above it than its parent has.
LEMMA DepthGrows ==
    ASSUME NEW t, Good(t), NEW n \in Node
    PROVE  /\ Cardinality(Ancestors(t, n)) \in 0 .. Cardinality(Container)
           /\ t.parent[n] # NoNode =>
                 Cardinality(Ancestors(t, n)) = Cardinality(Ancestors(t, t.parent[n])) + 1
<1>1. ASSUME NEW x \in Node
      PROVE  /\ IsFiniteSet(Ancestors(t, x)) /\ Ancestors(t, x) \in SUBSET Container
             /\ Cardinality(Ancestors(t, x)) \in 0 .. Cardinality(Container)
  <2>1. Ancestors(t, x) \in SUBSET Container
    BY AboveOrder
  <2>2. Container \subseteq Node
    BY DEF Container, Node, Normal
  <2> QED
    BY <2>1, <2>2, FiniteNodes
<1>2. ASSUME t.parent[n] # NoNode
      PROVE  Cardinality(Ancestors(t, n)) = Cardinality(Ancestors(t, t.parent[n])) + 1
  <2> DEFINE p == t.parent[n]
  <2>1. p \in Node /\ p \notin Ancestors(t, p)
    BY <1>2, KidListed, AboveOrder
  <2>2. Ancestors(t, n) = Ancestors(t, p) \cup {p}
    BY <1>2, AboveParent DEF AncestorsOrSelf
  <2> QED
    BY <1>1, <2>1, <2>2, FS_AddElement
<1> QED
  BY <1>1, <1>2

\* UpFrom lists a node and what is above it, from below, and ends at the root.
LEMMA UpFromPath ==
    ASSUME NEW t, Good(t), NEW n \in Node
    PROVE  LET path == UpFrom(t, n)
           IN /\ Upward(t, n, path)
              /\ t.parent[Last(path)] = NoNode
              /\ \A j, k \in 1 .. Len(path) : j < k => path[k] \in Ancestors(t, path[j])
              /\ \A x : x \in AncestorsOrSelf(t, n) <=> \E k \in 1 .. Len(path) : path[k] = x
<1> DEFINE path == UpFrom(t, n)
           C == Cardinality(Container)
<1>1. PICK up \in [Steps -> {s \in Seq(Node) : Upward(t, n, s)}] :
             /\ UpFrom(t, n) = up[Cardinality(Container)]
             /\ up[0] = <<n>>
             /\ \A k \in Steps : k # 0 =>
                   up[k] = IF t.parent[Last(up[k - 1])] = NoNode THEN up[k - 1]
                           ELSE Append(up[k - 1], t.parent[Last(up[k - 1])])
  BY UpFromSteps
<1>2. \A k \in Steps : Upward(t, n, up[k]) /\ Last(up[k]) \in Node
  <2>1. \A k \in Steps : Upward(t, n, up[k])
    BY <1>1
  <2> QED
    BY <2>1, UpwardNext
<1>3. C \in Nat /\ 0 .. C \subseteq Steps
  BY FiniteNodes DEF Steps
<1>4. Upward(t, n, path)
  BY <1>1, <1>2, <1>3
<1>5. t.parent[Last(path)] = NoNode
  <2> DEFINE Deep(k) == t.parent[Last(up[k])] = NoNode
                        \/ Cardinality(Ancestors(t, Last(up[k]))) + k <= C
             T == {k \in 0 .. C : Deep(k)}
  <2>1. Deep(0)
    <3>1. Last(up[0]) \in Node
      BY <1>2, <1>3
    <3> QED
      BY <3>1, DepthGrows, FiniteNodes
  <2>2. ASSUME NEW k \in 1 .. C, Deep(k - 1) PROVE Deep(k)
    <3> DEFINE x == Last(up[k - 1])
    <3>0. k \in 0 .. C /\ k - 1 \in 0 .. C /\ k # 0 /\ k \in Int
      BY <1>3
    <3>1. k \in Steps /\ k - 1 \in Steps /\ k # 0 /\ k \in Int /\ x \in Node
      BY <1>2, <1>3, <3>0
    <3>2. CASE t.parent[x] = NoNode
      BY <1>1, <3>1, <3>2
    <3>3. CASE t.parent[x] # NoNode
      <4>1. up[k] = Append(up[k - 1], t.parent[x])
        BY <1>1, <3>1, <3>3
      <4>2. Upward(t, n, up[k - 1])
        BY <1>2, <3>1
      <4>3. up[k - 1] \in Seq(Node) /\ t.parent[x] \in Node
        BY <3>1, <3>3, <4>2, KidListed DEF Upward
      <4>4. Last(up[k]) = t.parent[x]
        BY <4>1, <4>3 DEF Last
      <4>5. /\ Cardinality(Ancestors(t, x)) = Cardinality(Ancestors(t, t.parent[x])) + 1
            /\ Cardinality(Ancestors(t, t.parent[x])) \in Nat
        BY <3>1, <3>3, <4>3, DepthGrows, FiniteNodes
      <4> QED
        BY <1>3, <2>2, <3>3, <4>4, <4>5
    <3> QED
      BY <3>2, <3>3
  <2> HIDE DEF Deep
  <2>3. 0 \in T
    BY <1>3, <2>1
  <2>4. \A k \in 1 .. C : k - 1 \in T => k \in T
    BY <2>2
  <2>5. Deep(C)
    <3> HIDE DEF T, C
    <3>1. \A k \in 0 .. C : k \in T
      BY <1>3, <2>3, <2>4, Counting
    <3>2. C \in T
      BY <1>3, <3>1
    <3> QED
      BY <3>2 DEF T
  <2> DEFINE x == Last(up[C])
  <2>6. x \in Node
    BY <1>2, <1>3
  <2>7. ASSUME t.parent[x] # NoNode PROVE FALSE
    <3>1. /\ Cardinality(Ancestors(t, x)) = Cardinality(Ancestors(t, t.parent[x])) + 1
          /\ Cardinality(Ancestors(t, t.parent[x])) \in Nat
      BY <2>6, <2>7, KidListed, DepthGrows, FiniteNodes
    <3> QED
      BY <1>3, <2>5, <2>7, <3>1 DEF Deep
  <2> QED
    BY <1>1, <2>7
<1> HIDE DEF path
<1>6. /\ path \in Seq(Node) /\ Len(path) \in Nat /\ Len(path) > 0 /\ path[1] = n
      /\ Last(path) = path[Len(path)]
      /\ \A k \in 1 .. Len(path) : path[k] \in Node
      /\ \A k \in 1 .. Len(path) - 1 : t.parent[path[k]] = path[k + 1]
  BY <1>4, UpwardNext DEF Upward
<1>7. ASSUME NEW j \in 1 .. Len(path), NEW k \in 1 .. Len(path), j < k
      PROVE  path[k] \in Ancestors(t, path[j])
  <2> DEFINE N == Len(path)
             T == {i \in 0 .. N : i <= j \/ path[i] \in Ancestors(t, path[j])}
  <2>1. 0 \in T
    BY <1>6
  <2>2. ASSUME NEW i \in 1 .. N, i - 1 \in T PROVE i \in T
    <3>1. CASE i <= j
      BY <3>1
    <3>2. CASE i > j
      <4>1. i - 1 \in 1 .. N - 1 /\ i - 1 \in 1 .. N /\ i - 1 >= j /\ i - 1 + 1 = i
        BY <1>6, <3>2
      <4>2. t.parent[path[i - 1]] = path[i] /\ path[i - 1] \in Node /\ path[i] \in Node
        BY <1>6, <4>1
      <4>3. path[i] \in Ancestors(t, path[i - 1])
        BY <4>2, AboveParent, NoNodeIsNoNode
      <4>4. path[i - 1] \in AncestorsOrSelf(t, path[j])
        BY <2>2, <4>1 DEF AncestorsOrSelf
      <4>5. path[i] \in Ancestors(t, path[j])
        BY <1>6, <4>2, <4>3, <4>4, AboveOrder
      <4> QED
        BY <4>5
    <3> QED
      BY <3>1, <3>2
  <2>3. k \in T
    <3>1. N \in Nat /\ \A i \in 1 .. N : i - 1 \in T => i \in T
      BY <1>6, <2>2
    <3> HIDE DEF T, N
    <3>2. \A i \in 0 .. N : i \in T
      BY <2>1, <3>1, Counting
    <3>3. k \in 0 .. N
      BY <1>6 DEF N
    <3> QED
      BY <3>2, <3>3
  <2> QED
    BY <1>7, <2>3
<1>8. ASSUME NEW x, x \in AncestorsOrSelf(t, n)
      PROVE  \E k \in 1 .. Len(path) : path[k] = x
  <2> DEFINE S == {y \in Container : \E k \in 1 .. Len(path) : path[k] = y}
  <2>1. ASSUME NEW k \in 1 .. Len(path)
        PROVE  t.parent[path[k]] \in S \cup {NoNode}
    <3>1. CASE k = Len(path)
      BY <1>5, <1>6, <3>1
    <3>2. CASE k # Len(path)
      <4>1. k + 1 \in 1 .. Len(path) /\ t.parent[path[k]] = path[k + 1]
        BY <1>6, <3>2
      <4>2. t.parent[path[k]] \in Container \cup {NoNode}
        BY <1>6, AboveParent
      <4> QED
        BY <4>1, <4>2
    <3> QED
      BY <3>1, <3>2
  <2>2. t.parent[n] \in S \cup {NoNode}
    BY <1>6, <2>1
  <2>3. \A m \in S : t.parent[m] \in S \cup {NoNode}
    BY <2>1
  <2>4. Ancestors(t, n) \subseteq S
    <3>1. S \in SUBSET Container
      OBVIOUS
    <3> HIDE DEF S
    <3> QED
      BY <2>2, <2>3, <3>1, AncestorsLeast
  <2>5. x = n \/ x \in S
    BY <1>8, <2>4 DEF AncestorsOrSelf
  <2> QED
    BY <1>6, <2>5
<1>9. ASSUME NEW k \in 1 .. Len(path) PROVE path[k] \in AncestorsOrSelf(t, n)
  BY <1>6, <1>7 DEF AncestorsOrSelf
<1> QED
  BY <1>4, <1>5, <1>7, <1>8, <1>9 DEF path

\* The root of a node is the one node above or at it that has no parent.
LEMMA RootIs ==
    ASSUME NEW t, Good(t), NEW n \in Node
    PROVE  /\ Root(t, n) \in Node /\ Root(t, n) \in AncestorsOrSelf(t, n)
           /\ t.parent[Root(t, n)] = NoNode
           /\ \A r \in Node : r \in AncestorsOrSelf(t, n) =>
                 /\ Root(t, r) = Root(t, n)
                 /\ t.parent[r] = NoNode => r = Root(t, n)
<1>1. ASSUME NEW x \in Node
      PROVE  /\ Root(t, x) \in Node /\ Root(t, x) \in AncestorsOrSelf(t, x)
             /\ t.parent[Root(t, x)] = NoNode
  <2>1. Upward(t, x, UpFrom(t, x)) /\ t.parent[Last(UpFrom(t, x))] = NoNode
    BY UpFromPath
  <2>2. Last(UpFrom(t, x)) = UpFrom(t, x)[Len(UpFrom(t, x))] /\ Last(UpFrom(t, x)) \in Node
    BY <2>1, UpwardNext
  <2>3. Len(UpFrom(t, x)) \in 1 .. Len(UpFrom(t, x))
    BY <2>1 DEF Upward
  <2> QED
    BY <2>1, <2>2, <2>3, UpFromPath DEF Root
<1>2. ASSUME NEW r \in Node, NEW q \in Node, t.parent[r] = NoNode, t.parent[q] = NoNode,
             r \in AncestorsOrSelf(t, n), q \in AncestorsOrSelf(t, n)
      PROVE  r = q
  <2>1. Ancestors(t, r) = {} /\ Ancestors(t, q) = {}
    BY <1>2, AboveParent
  <2> QED
    BY <1>2, <2>1, AboveChain DEF AncestorsOrSelf
<1>3. ASSUME NEW r \in Node, r \in AncestorsOrSelf(t, n) PROVE Root(t, r) = Root(t, n)
  <2>1. Root(t, r) \in AncestorsOrSelf(t, n)
    BY <1>1, <1>3, AboveOrder
  <2> QED
    BY <1>1, <1>2, <2>1
<1> QED
  BY <1>1, <1>2, <1>3

\* Nodes are in one tree where something is above or at both.
LEMMA SameTreeMeets ==
    ASSUME NEW t, Good(t), NEW m \in Node, NEW n \in Node
    PROVE  SameTree(t, m, n) <=>
             \E s \in Node : s \in AncestorsOrSelf(t, m) /\ s \in AncestorsOrSelf(t, n)
<1>1. ASSUME SameTree(t, m, n)
      PROVE  \E s \in Node : s \in AncestorsOrSelf(t, m) /\ s \in AncestorsOrSelf(t, n)
  BY <1>1, RootIs DEF SameTree
<1>2. ASSUME NEW s \in Node, s \in AncestorsOrSelf(t, m), s \in AncestorsOrSelf(t, n)
      PROVE  Root(t, m) = Root(t, n)
  <2>1. Root(t, s) = Root(t, m)
    BY <1>2, RootIs
  <2>2. Root(t, s) = Root(t, n)
    BY <1>2, RootIs
  <2> QED
    BY <2>1, <2>2
<1> QED
  BY <1>1, <1>2 DEF SameTree

-----------------------------------------------------------------------------
(* One step back: the node that comes next before a node. *)

\* The siblings of a node, by place.
LEMMA SiblingIs ==
    ASSUME NEW t, Good(t), NEW p \in Node, NEW i \in Int, i \in DOMAIN t.kids[p],
           NEW offset \in {1, -1}
    PROVE  /\ Sibling(t, t.kids[p][i], offset) =
                IF i + offset \in DOMAIN t.kids[p] THEN t.kids[p][i + offset] ELSE NoNode
           /\ Sibling(t, t.kids[p][i], offset) # NoNode => i + offset \in DOMAIN t.kids[p]
<1> DEFINE n == t.kids[p][i]
<1>1. n \in Node /\ t.parent[n] = p /\ p # NoNode
  BY KidsBelow, NoNodeIsNoNode
<1>2. Position(t, n) = i
  BY <1>1, KidListed
<1>3. Sibling(t, n, offset) = SiblingAt(t.kids[p], i + offset)
  BY <1>1, <1>2 DEF Sibling
<1> QED
  BY <1>3 DEF SiblingAt

\* x is reached from s by going to the last child again and again.
OnLastLine(t, s, x) ==
    /\ x \in Node /\ s \in AncestorsOrSelf(t, x)
    /\ \A p \in Node : s \in AncestorsOrSelf(t, p) /\ p \in Ancestors(t, x) =>
          t.kids[p] # <<>> /\ Last(t.kids[p]) \in AncestorsOrSelf(t, x)

LEMMA LastLineNext ==
    ASSUME NEW t, Good(t), NEW s \in Node, NEW x \in Node, OnLastLine(t, s, x),
           t.kids[x] # <<>>
    PROVE  /\ OnLastLine(t, s, Last(t.kids[x]))
           /\ t.parent[Last(t.kids[x])] = x /\ Last(t.kids[x]) \in Node
<1> DEFINE y == Last(t.kids[x])
<1>1. t.kids[x] \in Seq(Node)
  BY DEF Good, Tree
<1>2. Len(t.kids[x]) \in DOMAIN t.kids[x] /\ y = t.kids[x][Len(t.kids[x])]
  BY <1>1 DEF Last
<1>3. y \in Node /\ t.parent[y] = x /\ Ancestors(t, y) = AncestorsOrSelf(t, x)
  BY <1>2, KidsBelow
<1>4. s \in AncestorsOrSelf(t, y)
  BY <1>3 DEF OnLastLine, AncestorsOrSelf
<1>5. ASSUME NEW p \in Node, s \in AncestorsOrSelf(t, p), p \in Ancestors(t, y)
      PROVE  t.kids[p] # <<>> /\ Last(t.kids[p]) \in AncestorsOrSelf(t, y)
  <2>1. CASE p = x
    BY <2>1 DEF AncestorsOrSelf
  <2>2. CASE p \in Ancestors(t, x)
    <3>1. t.kids[p] # <<>> /\ Last(t.kids[p]) \in AncestorsOrSelf(t, x)
      BY <1>5, <2>2 DEF OnLastLine
    <3> QED
      BY <1>3, <3>1 DEF AncestorsOrSelf
  <2> QED
    BY <1>3, <1>5, <2>1, <2>2 DEF AncestorsOrSelf
<1> QED
  BY <1>3, <1>4, <1>5 DEF OnLastLine

\* DeepestLast follows this line to its end.
LEMMA DeepestLastIs ==
    ASSUME NEW t, Good(t), NEW s \in Node
    PROVE  OnLastLine(t, s, DeepestLast(t, s)) /\ t.kids[DeepestLast(t, s)] = <<>>
<1> DEFINE X == {x \in Node : OnLastLine(t, s, x)}
           Advance(x) == IF t.kids[x] = <<>> THEN x ELSE Last(t.kids[x])
           F == [x \in X |-> Advance(x)]
           Is(f) == f = [k \in Steps |-> IF k = 0 THEN s ELSE Advance(f[k - 1])]
           C == Cardinality(Container)
<1>1. s \in X
  <2>1. s \in AncestorsOrSelf(t, s)
    BY DEF AncestorsOrSelf
  <2>2. \A p \in Node : s \in AncestorsOrSelf(t, p) => p \notin Ancestors(t, s)
    BY AboveOrder
  <2> QED
    BY <2>1, <2>2 DEF OnLastLine
<1>2. ASSUME NEW x \in X PROVE Advance(x) \in X
  BY LastLineNext
<1> HIDE DEF Advance
<1>3. F \in [X -> X]
  BY <1>2
<1>4. PICK g \in [Steps -> X] :
        g[0] = s /\ \A k \in Steps : k # 0 => g[k - 1] \in X /\ g[k] = F[g[k - 1]]
  <2> HIDE DEF F, X
  <2> QED
    BY <1>1, <1>3, Walk
<1>5. Is(g)
  <2> HIDE DEF X
  <2> QED
    BY <1>4
<1> DEFINE deep == CHOOSE f : Is(f)
<1>6. Is(deep)
  <2> HIDE DEF Is
  <2> QED
    BY <1>5
<1>7. DeepestLast(t, s) = deep[C]
  BY DEF DeepestLast, Advance
<1> HIDE DEF deep, X, C
<1>8. /\ deep = [k \in Steps |-> deep[k]] /\ deep[0] = s
      /\ \A k \in Steps : k # 0 => deep[k] = Advance(deep[k - 1])
  BY <1>6, ZeroStep
<1>9. deep \in [Steps -> X]
  BY <1>1, <1>2, <1>8, WalkStays
<1>10. C \in Nat /\ 0 .. C \subseteq Steps
  BY FiniteNodes DEF Steps, C
<1>11. \A k \in Steps : deep[k] \in Node
  BY <1>9 DEF X
<1> DEFINE Deep(k) == t.kids[deep[k]] = <<>> \/ Cardinality(Ancestors(t, deep[k])) >= k
           T == {k \in 0 .. C : Deep(k)}
<1>12. ASSUME NEW k \in 1 .. C, Deep(k - 1) PROVE Deep(k)
  <2> DEFINE x == deep[k - 1]
  <2>1. k \in 0 .. C /\ k - 1 \in 0 .. C /\ k # 0
    BY <1>10
  <2>2. x \in X /\ x \in Node /\ deep[k] = Advance(x)
    BY <1>8, <1>9, <1>10, <1>11, <2>1
  <2>3. CASE t.kids[x] = <<>>
    BY <2>2, <2>3 DEF Advance
  <2>4. CASE t.kids[x] # <<>>
    <3>1. deep[k] = Last(t.kids[x])
      BY <2>2, <2>4 DEF Advance
    <3>2. t.parent[deep[k]] = x /\ deep[k] \in Node
      BY <2>2, <2>4, <3>1, LastLineNext DEF X
    <3>3. Cardinality(Ancestors(t, deep[k])) = Cardinality(Ancestors(t, x)) + 1
          /\ Cardinality(Ancestors(t, x)) \in Nat
      BY <2>2, <3>2, DepthGrows, NoNodeIsNoNode, FiniteNodes
    <3> QED
      BY <1>12, <2>1, <2>4, <3>3
  <2> QED
    BY <2>3, <2>4
<1>13. Deep(0)
  <2>1. deep[0] \in Node
    BY <1>8
  <2> QED
    BY <2>1, DepthGrows, FiniteNodes
<1>14. Deep(C)
  <2> HIDE DEF Deep
  <2>1. 0 \in T /\ \A k \in 1 .. C : k - 1 \in T => k \in T
    BY <1>10, <1>12, <1>13
  <2> HIDE DEF T
  <2>2. \A k \in 0 .. C : k \in T
    BY <1>10, <2>1, Counting
  <2>3. C \in T
    BY <1>10, <2>2
  <2> QED
    BY <2>3 DEF T
<1>15. deep[C] \in Node /\ OnLastLine(t, s, deep[C])
  BY <1>9, <1>10 DEF X
<1>16. ASSUME t.kids[deep[C]] # <<>> PROVE FALSE
  <2> DEFINE y == Last(t.kids[deep[C]])
  <2>1. t.parent[y] = deep[C] /\ y \in Node
    BY <1>15, <1>16, LastLineNext
  <2>2. /\ Cardinality(Ancestors(t, y)) = Cardinality(Ancestors(t, deep[C])) + 1
        /\ Cardinality(Ancestors(t, y)) \in 0 .. C
        /\ Cardinality(Ancestors(t, deep[C])) \in Nat
    BY <1>15, <2>1, DepthGrows, NoNodeIsNoNode, FiniteNodes DEF C
  <2> QED
    BY <1>10, <1>14, <1>16, <2>2
<1> QED
  BY <1>7, <1>15, <1>16

\* It is the last node of the subtree.
LEMMA DeepestLastIsLast ==
    ASSUME NEW t, Good(t), NEW s \in Node, NEW z \in Node, s \in AncestorsOrSelf(t, z)
    PROVE  LET x == DeepestLast(t, s)
           IN x \in Node /\ s \in AncestorsOrSelf(t, x) /\ (z = x \/ Before(t, z, x))
<1> DEFINE x == DeepestLast(t, s)
<1>1. OnLastLine(t, s, x) /\ t.kids[x] = <<>>
  BY DeepestLastIs
<1>2. x \in Node /\ s \in AncestorsOrSelf(t, x)
  BY <1>1 DEF OnLastLine
<1> HIDE DEF x
<1>3. ASSUME Before(t, x, z) PROVE FALSE
  <2>1. x \notin Ancestors(t, z)
    <3>1. ASSUME x \in Ancestors(t, z) PROVE FALSE
      <4>1. PICK i \in DOMAIN t.kids[x] : TRUE
        BY <3>1, KidToward
      <4> QED
        BY <1>1, <4>1
    <3> QED
      BY <3>1
  <2>2. PICK p \in Node, i \in Int, j \in Int : Beyond(t, p, i, j, x, z)
    BY <1>2, <1>3, <2>1, BeforeCases
  <2>3. /\ p \in Ancestors(t, x) /\ i \in 1 .. Len(t.kids[p]) /\ j \in 1 .. Len(t.kids[p])
        /\ i < j
        /\ \A k \in DOMAIN t.kids[p] : t.kids[p][k] \in AncestorsOrSelf(t, x) => k = i
    BY <1>2, <2>2, BeyondAbove
  <2>4. s \in AncestorsOrSelf(t, p)
    BY <1>2, <2>2, <2>3, Fork DEF Beyond
  <2>5. Last(t.kids[p]) \in AncestorsOrSelf(t, x)
    BY <1>1, <2>3, <2>4 DEF OnLastLine
  <2>6. t.kids[p] \in Seq(Node)
    BY DEF Good, Tree
  <2>7. Last(t.kids[p]) = t.kids[p][Len(t.kids[p])] /\ Len(t.kids[p]) \in DOMAIN t.kids[p]
    BY <2>3, <2>6 DEF Last
  <2> QED
    BY <2>3, <2>5, <2>6, <2>7
<1> QED
  BY <1>2, <1>3, BeforeTotal DEF x

\* Where the node is not a root, StepBack gives the last of the nodes before it.
LEMMA StepBackIs ==
    ASSUME NEW t, Good(t), NEW x \in Node
    PROVE  LET y == StepBack(t, x)
           IN /\ y = NoNode <=> t.parent[x] = NoNode
              /\ t.parent[x] # NoNode =>
                   /\ y \in Node /\ Before(t, y, x)
                   /\ \A z \in Node : Before(t, z, x) => z = y \/ Before(t, z, y)
<1>1. CASE t.parent[x] = NoNode
  BY <1>1 DEF StepBack, Sibling
<1>2. CASE t.parent[x] # NoNode
  <2> DEFINE p == t.parent[x]
             i == Position(t, x)
             y == StepBack(t, x)
  <2>1. /\ p \in Node /\ i \in DOMAIN t.kids[p] /\ i \in Int /\ t.kids[p][i] = x
        /\ t.kids[p] \in Seq(Node) /\ i \in 1 .. Len(t.kids[p])
        /\ Ancestors(t, x) = AncestorsOrSelf(t, p) /\ p \in Ancestors(t, x)
    <3>1. p \in Node /\ i \in DOMAIN t.kids[p] /\ t.kids[p][i] = x
      BY <1>2, KidListed
    <3> QED
      BY <3>1, KidsBelow
  <2>2. /\ Sibling(t, x, -1) = IF i - 1 \in DOMAIN t.kids[p] THEN t.kids[p][i - 1] ELSE NoNode
        /\ Sibling(t, x, -1) # NoNode => i - 1 \in DOMAIN t.kids[p]
    <3> HIDE DEF p, i
    <3>1. i + (-1) = i - 1
      BY <2>1
    <3>2. /\ Sibling(t, t.kids[p][i], -1) =
               IF i + (-1) \in DOMAIN t.kids[p] THEN t.kids[p][i + (-1)] ELSE NoNode
          /\ Sibling(t, t.kids[p][i], -1) # NoNode => i + (-1) \in DOMAIN t.kids[p]
      BY <2>1, SiblingIs
    <3> QED
      BY <2>1, <3>1, <3>2
  <2> HIDE DEF p, i
  \* What is before x, from higher up, is before p.
  <2>3. ASSUME NEW z \in Node, Before(t, z, x)
        PROVE  \/ z = p \/ Before(t, z, p)
               \/ \E k \in DOMAIN t.kids[p] : k < i /\ t.kids[p][k] \in AncestorsOrSelf(t, z)
    <3>1. CASE z \in Ancestors(t, x)
      BY <2>1, <3>1, BeforeCases DEF AncestorsOrSelf
    <3>2. ASSUME NEW q \in Node, NEW k \in Int, NEW l \in Int, Beyond(t, q, k, l, z, x)
          PROVE  \/ Before(t, z, p)
                 \/ \E j \in DOMAIN t.kids[p] : j < i /\ t.kids[p][j] \in AncestorsOrSelf(t, z)
      <4>1. /\ q \in AncestorsOrSelf(t, p)
            /\ \A j \in DOMAIN t.kids[q] : t.kids[q][j] \in AncestorsOrSelf(t, x) => j = l
        BY <2>1, <3>2, BeyondAbove
      <4>2. CASE q = p
        <5>1. t.kids[p][i] \in AncestorsOrSelf(t, x)
          BY <2>1 DEF AncestorsOrSelf
        <5>2. i = l
          BY <2>1, <4>1, <4>2, <5>1
        <5> QED
          BY <3>2, <4>2, <5>2 DEF Beyond
      <4>3. CASE q \in Ancestors(t, p)
        <5>1. PICK j \in DOMAIN t.kids[q] : t.kids[q][j] \in AncestorsOrSelf(t, p)
          BY <2>1, <4>3, KidToward
        <5>2. t.kids[q][j] \in Node
          BY KidsBelow
        <5>3. j = l
          BY <2>1, <4>1, <5>1, <5>2, AboveOrder DEF AncestorsOrSelf
        <5>4. Beyond(t, q, k, l, z, p)
          BY <3>2, <5>1, <5>3 DEF Beyond
        <5> QED
          BY <2>1, <5>4, BeforeCases
      <4> QED
        BY <4>1, <4>2, <4>3 DEF AncestorsOrSelf
    <3> QED
      BY <2>3, <3>1, <3>2, BeforeCases
  <2>4. CASE Sibling(t, x, -1) = NoNode
    <3>1. y = p
      BY <2>4 DEF StepBack, p
    <3>2. ~(\E k \in DOMAIN t.kids[p] : k < i)
      <4>1. i - 1 \notin DOMAIN t.kids[p]
        <5>1. \A k \in DOMAIN t.kids[p] : t.kids[p][k] # NoNode
          BY <2>1, KidsBelow, NoNodeIsNoNode
        <5> QED
          BY <2>2, <2>4, <5>1
      <4> QED
        BY <2>1, <4>1
    <3>3. Before(t, p, x)
      BY <2>1, BeforeCases
    <3> QED
      BY <1>2, <2>1, <2>3, <3>1, <3>2, <3>3, NoNodeIsNoNode
  <2>5. CASE Sibling(t, x, -1) # NoNode
    <3> DEFINE s == t.kids[p][i - 1]
    <3>1. i - 1 \in DOMAIN t.kids[p] /\ i - 1 \in Int
      BY <2>1, <2>2, <2>5
    <3>2. y = DeepestLast(t, s)
      BY <2>2, <2>5, <3>1 DEF StepBack
    <3>3. s \in Node /\ p \in Ancestors(t, s)
      BY <2>1, <3>1, KidsBelow
    <3>4. y \in Node /\ s \in AncestorsOrSelf(t, y)
      <4>1. s \in AncestorsOrSelf(t, s)
        BY DEF AncestorsOrSelf
      <4> QED
        BY <3>2, <3>3, <4>1, DeepestLastIsLast
    <3> HIDE DEF y
    <3>5. Before(t, y, x)
      <4>1. Beyond(t, p, i - 1, i, y, x)
        BY <2>1, <3>1, <3>4 DEF Beyond, AncestorsOrSelf
      <4> QED
        BY <2>1, <3>1, <3>4, <4>1, BeforeCases
    <3>6. p \in Ancestors(t, y)
      BY <2>1, <3>3, <3>4, AboveOrder
    <3>7. ASSUME NEW z \in Node, Before(t, z, x) PROVE z = y \/ Before(t, z, y)
      <4>1. CASE z = p
        BY <3>4, <3>6, <4>1, BeforeCases
      <4>2. CASE Before(t, z, p)
        <5>1. Before(t, p, y)
          BY <2>1, <3>4, <3>6, BeforeCases
        <5> QED
          BY <2>1, <3>4, <4>2, <5>1, BeforeTransitive
      <4>3. ASSUME NEW k \in DOMAIN t.kids[p], k < i, t.kids[p][k] \in AncestorsOrSelf(t, z)
            PROVE  z = y \/ Before(t, z, y)
        <5>1. CASE k = i - 1
          BY <3>2, <3>3, <4>3, <5>1, DeepestLastIsLast DEF y
        <5>2. CASE k # i - 1
          <6>1. Beyond(t, p, k, i - 1, z, y) /\ k \in Int
            BY <2>1, <3>1, <3>4, <4>3, <5>2 DEF Beyond
          <6> QED
            BY <2>1, <3>1, <3>4, <6>1, BeforeCases
        <5> QED
          BY <5>1, <5>2
      <4> QED
        BY <2>3, <3>7, <4>1, <4>2, <4>3
    <3> QED
      BY <1>2, <3>4, <3>5, <3>7, NoNodeIsNoNode DEF y
  <2> QED
    BY <2>4, <2>5
<1> QED
  BY <1>1, <1>2

-----------------------------------------------------------------------------
(* One step on: the node that comes next after a node. *)

\* NextAfter gives the first of the nodes behind the subtree of a node.
LEMMA NextAfterIs ==
    ASSUME NEW t, Good(t), NEW x \in Node,
           NEW n \in Node, Before(t, x, n), x \notin Ancestors(t, n)
    PROVE  LET y == NextAfter(t, x)
           IN /\ y \in Node /\ Before(t, x, y)
              /\ \A z \in Node : Before(t, x, z) /\ x \notin Ancestors(t, z) =>
                    y = z \/ Before(t, y, z)
<1> DEFINE path == UpFrom(t, x)
           y == NextAfter(t, x)
           Has(k) == Sibling(t, path[k], 1) # NoNode
<1>1. /\ \A j, k \in 1 .. Len(path) : j < k => path[k] \in Ancestors(t, path[j])
      /\ \A w : w \in AncestorsOrSelf(t, x) <=> \E k \in 1 .. Len(path) : path[k] = w
      /\ path \in Seq(Node)
  <2>1. \A s : Upward(t, x, s) => s \in Seq(Node)
    BY DEF Upward
  <2>2. Upward(t, x, path)
    BY UpFromPath
  <2> QED
    BY <2>1, <2>2, UpFromPath
<1>2. y = NextOnPath(t, path)
  BY DEF NextAfter
<1> HIDE DEF path
<1>3. DOMAIN path = 1 .. Len(path) /\ Len(path) \in Nat
      /\ \A k \in 1 .. Len(path) : path[k] \in Node
  BY <1>1
\* A node behind x is in a sibling behind a node of the path.
<1>4. ASSUME NEW z \in Node, Before(t, x, z), x \notin Ancestors(t, z)
      PROVE  \E p \in Node : \E i, j \in Int : \E k \in 1 .. Len(path) :
                Beyond(t, p, i, j, x, z) /\ t.kids[p][i] = path[k] /\ Has(k)
  <2>1. PICK p \in Node, i \in Int, j \in Int : Beyond(t, p, i, j, x, z)
    BY <1>4, BeforeCases
  <2>2. PICK k \in 1 .. Len(path) : path[k] = t.kids[p][i]
    BY <1>1, <2>1 DEF Beyond
  <2>3. /\ i \in DOMAIN t.kids[p] /\ i + 1 \in DOMAIN t.kids[p] /\ i + 1 \in Int
    <3>1. i \in 1 .. Len(t.kids[p]) /\ j \in 1 .. Len(t.kids[p]) /\ i < j
      BY <2>1, BeyondAbove
    <3>2. t.kids[p] \in Seq(Node)
      BY DEF Good, Tree
    <3> QED
      BY <3>1, <3>2
  <2>4. Has(k)
    <3>1. Sibling(t, t.kids[p][i], 1) = t.kids[p][i + 1]
      BY <2>3, SiblingIs
    <3>2. t.kids[p][i + 1] \in Node
      BY <2>3, KidsBelow
    <3> QED
      BY <2>2, <3>1, <3>2, NoNodeIsNoNode
  <2> QED
    BY <2>1, <2>2, <2>4
<1>5. \E k \in 1 .. Len(path) : Has(k)
  BY <1>4
<1>6. \E k \in 1 .. Len(path) : Has(k) /\ \A j \in 1 .. k - 1 : ~Has(j)
  <2> DEFINE T == {k \in 1 .. Len(path) : Has(k)}
  <2>1. T \in SUBSET Nat /\ T # {}
    BY <1>5
  <2>2. PICK k \in T : \A j \in T : k <= j
    <3> HIDE DEF T
    <3> QED
      BY <2>1, Least
  <2>3. \A j \in 1 .. k - 1 : j \in 1 .. Len(path) /\ ~(k <= j)
    BY <1>3
  <2> QED
    BY <2>2, <2>3
<1> DEFINE c == CHOOSE k \in DOMAIN path :
                  /\ Sibling(t, path[k], 1) # NoNode
                  /\ \A j \in 1 .. k - 1 : Sibling(t, path[j], 1) = NoNode
<1>7. c \in 1 .. Len(path) /\ Has(c) /\ \A j \in 1 .. c - 1 : ~Has(j)
  BY <1>3, <1>6
<1>8. y = Sibling(t, path[c], 1)
  BY <1>2, <1>3, <1>5 DEF NextOnPath
<1> HIDE DEF c, y
<1> DEFINE v == path[c]
           q == t.parent[v]
<1>9. v \in Node /\ v \in AncestorsOrSelf(t, x)
  BY <1>1, <1>3, <1>7
<1>10. q # NoNode
  BY <1>7 DEF Sibling
<1>11. q \in Node /\ \E l \in DOMAIN t.kids[q] : t.kids[q][l] = v
  BY <1>9, <1>10, KidListed
<1>12. PICK l \in DOMAIN t.kids[q] : t.kids[q][l] = v
  BY <1>11
<1>13. l \in Int /\ Ancestors(t, v) = AncestorsOrSelf(t, q)
       /\ t.kids[q] \in Seq(Node) /\ l \in 1 .. Len(t.kids[q])
  BY <1>11, <1>12, KidsBelow
<1>14. l + 1 \in DOMAIN t.kids[q] /\ y = t.kids[q][l + 1] /\ l + 1 \in Int
  <2> DEFINE r == Sibling(t, t.kids[q][l], 1)
  <2>1. r # NoNode /\ r = y
    BY <1>7, <1>8, <1>12
  <2>2. q \in Node /\ l \in Int /\ l \in DOMAIN t.kids[q]
    BY <1>11, <1>13
  <2> HIDE DEF q
  <2>3. r = IF l + 1 \in DOMAIN t.kids[q] THEN t.kids[q][l + 1] ELSE NoNode
    BY <2>2, SiblingIs
  <2> HIDE DEF r
  <2> QED
    BY <2>1, <2>2, <2>3
<1>15. y \in Node /\ Ancestors(t, y) = AncestorsOrSelf(t, q)
  BY <1>11, <1>14, KidsBelow
<1> HIDE DEF v, q, Has
<1>16. Before(t, x, y)
  <2>1. Beyond(t, q, l, l + 1, x, y)
    BY <1>9, <1>11, <1>12, <1>13, <1>14 DEF Beyond, AncestorsOrSelf
  <2> QED
    BY <1>11, <1>13, <1>14, <1>15, <2>1, BeforeCases
<1>17. ASSUME NEW z \in Node, Before(t, x, z), x \notin Ancestors(t, z)
       PROVE  y = z \/ Before(t, y, z)
  <2>1. PICK p \in Node : \E i, j \in Int : \E k \in 1 .. Len(path) :
                Beyond(t, p, i, j, x, z) /\ t.kids[p][i] = path[k] /\ Has(k)
    BY <1>4, <1>17
  <2>2. PICK i \in Int, j \in Int : \E k \in 1 .. Len(path) :
                Beyond(t, p, i, j, x, z) /\ t.kids[p][i] = path[k] /\ Has(k)
    BY <2>1
  <2>3. PICK k \in 1 .. Len(path) :
                Beyond(t, p, i, j, x, z) /\ t.kids[p][i] = path[k] /\ Has(k)
    BY <2>2
  <2>4. c <= k
    BY <1>3, <1>7, <2>3
  <2>5. /\ i \in DOMAIN t.kids[p] /\ j \in DOMAIN t.kids[p] /\ i < j
        /\ t.kids[p][j] \in AncestorsOrSelf(t, z)
        /\ t.kids[p][i] \in Node /\ t.parent[t.kids[p][i]] = p
    <3>1. /\ i \in DOMAIN t.kids[p] /\ j \in DOMAIN t.kids[p] /\ i < j
          /\ t.kids[p][j] \in AncestorsOrSelf(t, z)
      BY <2>3 DEF Beyond
    <3>2. t.kids[p][i] \in Node /\ t.parent[t.kids[p][i]] = p
      BY <3>1, KidsBelow
    <3> QED
      BY <3>1, <3>2
  <2>6. CASE c = k
    <3>1. p = q /\ i = l
      <4>1. t.kids[p][i] = v
        BY <2>3, <2>6 DEF v
      <4>2. p = q
        BY <2>5, <4>1 DEF q
      <4>3. i = l
        <5>1. t.kids[p][i] \in AncestorsOrSelf(t, v) /\ t.kids[p][l] \in AncestorsOrSelf(t, v)
              /\ l \in DOMAIN t.kids[p]
          BY <1>12, <4>1, <4>2 DEF AncestorsOrSelf
        <5> QED
          BY <1>9, <2>1, <2>5, <5>1, KidsApart
      <4> QED
        BY <4>2, <4>3
    <3>2. CASE j = l + 1
      BY <1>14, <1>15, <1>17, <2>5, <3>1, <3>2, BeforeCases DEF AncestorsOrSelf
    <3>3. CASE j # l + 1
      <4>1. Beyond(t, q, l + 1, j, y, z)
        BY <1>11, <1>13, <1>14, <2>5, <3>1, <3>3 DEF Beyond, AncestorsOrSelf
      <4> QED
        BY <1>11, <1>14, <1>15, <4>1, BeforeCases
    <3> QED
      BY <3>2, <3>3
  <2>7. CASE c # k
    <3>1. t.kids[p][i] \in Ancestors(t, v)
      <4>1. c < k
        BY <1>3, <1>7, <2>4, <2>7
      <4> QED
        BY <1>1, <1>7, <2>3, <4>1 DEF v
    <3>2. t.kids[p][i] \in Ancestors(t, y)
      BY <1>13, <1>15, <3>1
    <3>3. Beyond(t, p, i, j, y, z)
      BY <2>1, <2>5, <3>2 DEF Beyond, AncestorsOrSelf
    <3> QED
      BY <1>15, <2>1, <2>2, <3>3, BeforeCases
  <2> QED
    BY <2>6, <2>7
<1> QED
  BY <1>15, <1>16, <1>17 DEF y

\* Where anything is after a node, StepOn gives the first that is.
LEMMA StepOnIs ==
    ASSUME NEW t, Good(t), NEW x \in Node, NEW n \in Node, Before(t, x, n)
    PROVE  LET y == StepOn(t, x)
           IN /\ y \in Node /\ Before(t, x, y)
              /\ \A z \in Node : Before(t, x, z) => y = z \/ Before(t, y, z)
<1>1. CASE t.kids[x] = <<>>
  <2>1. \A z \in Node : x \notin Ancestors(t, z)
    <3>1. ASSUME NEW z \in Node, x \in Ancestors(t, z) PROVE FALSE
      <4>1. PICK i \in DOMAIN t.kids[x] : TRUE
        BY <3>1, KidToward
      <4> QED
        BY <1>1, <4>1
    <3> QED
      BY <3>1
  <2>2. StepOn(t, x) = NextAfter(t, x)
    BY <1>1 DEF StepOn
  <2> QED
    BY <2>1, <2>2, NextAfterIs
<1>2. CASE t.kids[x] # <<>>
  <2> DEFINE y == Head(t.kids[x])
  <2>1. t.kids[x] \in Seq(Node) /\ 1 \in DOMAIN t.kids[x] /\ y = t.kids[x][1]
    <3>1. t.kids[x] \in Seq(Node)
      BY DEF Good, Tree
    <3> QED
      BY <1>2, <3>1
  <2>2. y \in Node /\ x \in Ancestors(t, y) /\ Ancestors(t, y) = AncestorsOrSelf(t, x)
    BY <2>1, KidsBelow
  <2>3. StepOn(t, x) = y
    BY <1>2 DEF StepOn
  <2> HIDE DEF y
  <2>4. Before(t, x, y)
    BY <2>2, BeforeCases
  <2>5. ASSUME NEW z \in Node, Before(t, x, z) PROVE y = z \/ Before(t, y, z)
    <3>1. CASE x \in Ancestors(t, z)
      <4>1. PICK j \in DOMAIN t.kids[x] : t.kids[x][j] \in AncestorsOrSelf(t, z)
        BY <3>1, KidToward
      <4>2. j \in 1 .. Len(t.kids[x]) /\ j \in Int
        BY <4>1, KidsBelow
      <4>3. CASE j = 1
        BY <2>1, <2>2, <4>1, <4>3, BeforeCases DEF AncestorsOrSelf
      <4>4. CASE j # 1
        <5>1. Beyond(t, x, 1, j, y, z)
          BY <2>1, <4>1, <4>2, <4>4 DEF Beyond, AncestorsOrSelf
        <5> QED
          BY <2>2, <4>2, <5>1, BeforeCases
      <4> QED
        BY <4>3, <4>4
    <3>2. ASSUME NEW p \in Node, NEW i \in Int, NEW j \in Int, Beyond(t, p, i, j, x, z)
          PROVE  Before(t, y, z)
      <4>1. t.kids[p][i] \in AncestorsOrSelf(t, y)
        BY <2>2, <3>2 DEF Beyond, AncestorsOrSelf
      <4>2. Beyond(t, p, i, j, y, z)
        BY <3>2, <4>1 DEF Beyond
      <4> QED
        BY <2>2, <4>2, BeforeCases
    <3> QED
      BY <2>5, <3>1, <3>2, BeforeCases
  <2> QED
    BY <2>2, <2>3, <2>4, <2>5
<1> QED
  BY <1>1, <1>2

-----------------------------------------------------------------------------
(* The rank of a node: how many nodes are before it. *)

Lower(t, n) == {z \in Node : Before(t, z, n)}
Rank(t, n) == Cardinality(Lower(t, n))
Between(t, m, n) == {z \in Node : Before(t, m, z) /\ Before(t, z, n)}

\* Nodes that are before one node, or behind one node, are comparable.
LEMMA Comparable ==
    ASSUME NEW t, Good(t), NEW m \in Node, NEW n \in Node, NEW z \in Node, z # m,
           \/ Before(t, m, n) /\ Before(t, z, n)
           \/ Before(t, n, m) /\ Before(t, n, z)
           \/ SameTree(t, z, m)
    PROVE  Before(t, z, m) \/ Before(t, m, z)
<1>1. \A x, y \in Node : Before(t, x, y) => Root(t, x) = Root(t, y)
  BY BeforeMeets, SameTreeMeets DEF SameTree
<1>2. Root(t, z) = Root(t, m)
  BY <1>1 DEF SameTree
<1>3. PICK s \in Node : s \in AncestorsOrSelf(t, z) /\ s \in AncestorsOrSelf(t, m)
  BY <1>2, SameTreeMeets DEF SameTree
<1> QED
  BY <1>3, BeforeTotal

LEMMA RankGap ==
    ASSUME NEW t, Good(t), NEW m \in Node, NEW n \in Node
    PROVE  /\ Rank(t, n) \in Nat /\ Rank(t, n) < Cardinality(Node)
           /\ Cardinality(Between(t, m, n)) \in Nat
           /\ Before(t, m, n) =>
                Rank(t, n) = Rank(t, m) + 1 + Cardinality(Between(t, m, n))
<1>1. /\ Lower(t, n) \in SUBSET Node /\ Lower(t, m) \in SUBSET Node
      /\ Between(t, m, n) \in SUBSET Node
  BY DEF Lower, Between
<1>2. /\ IsFiniteSet(Lower(t, n)) /\ IsFiniteSet(Lower(t, m)) /\ IsFiniteSet(Between(t, m, n))
      /\ Rank(t, n) \in Nat /\ Rank(t, m) \in Nat /\ Cardinality(Between(t, m, n)) \in Nat
  BY <1>1, FiniteNodes DEF Rank
<1>3. Rank(t, n) < Cardinality(Node)
  <2>1. n \notin Lower(t, n)
    BY BeforeAsymmetric DEF Lower
  <2>2. Lower(t, n) \cup {n} \in SUBSET Node
    BY <1>1
  <2>3. Cardinality(Lower(t, n) \cup {n}) = Rank(t, n) + 1
    BY <1>2, <2>1, FS_AddElement DEF Rank
  <2>4. Cardinality(Lower(t, n) \cup {n}) <= Cardinality(Node) /\ Cardinality(Node) \in Nat
    BY <2>2, FiniteNodes
  <2> QED
    BY <1>2, <2>3, <2>4
<1>4. ASSUME Before(t, m, n)
      PROVE  Rank(t, n) = Rank(t, m) + 1 + Cardinality(Between(t, m, n))
  <2> DEFINE L == Lower(t, m) \cup {m}
  <2>1. Lower(t, n) = L \cup Between(t, m, n)
    <3>1. ASSUME NEW z \in Lower(t, n) PROVE z \in L \cup Between(t, m, n)
      <4>1. z \in Node /\ Before(t, z, n)
        BY DEF Lower
      <4>2. z = m \/ Before(t, z, m) \/ Before(t, m, z)
        BY <1>4, <4>1, Comparable
      <4> QED
        BY <4>1, <4>2 DEF Lower, Between
    <3>2. ASSUME NEW z \in Lower(t, m) PROVE z \in Lower(t, n)
      BY <1>4, BeforeTransitive DEF Lower
    <3>3. m \in Lower(t, n) /\ Between(t, m, n) \subseteq Lower(t, n)
      BY <1>4 DEF Lower, Between
    <3> QED
      BY <3>1, <3>2, <3>3
  <2>2. L \cap Between(t, m, n) = {}
    BY BeforeAsymmetric DEF Lower, Between
  <2>3. m \notin Lower(t, m)
    BY BeforeAsymmetric DEF Lower
  <2>4. IsFiniteSet(L) /\ Cardinality(L) = Rank(t, m) + 1
    BY <1>2, <2>3, FS_AddElement DEF Rank
  <2> HIDE DEF L
  <2>5. Cardinality(L \cup Between(t, m, n)) =
            Cardinality(L) + Cardinality(Between(t, m, n)) - Cardinality(L \cap Between(t, m, n))
    BY <1>2, <2>4, FS_Union
  <2>6. Cardinality(L \cap Between(t, m, n)) = 0
    BY <2>2, FS_EmptySet
  <2>7. Rank(t, n) = Cardinality(L) + Cardinality(Between(t, m, n))
    BY <1>2, <2>1, <2>4, <2>5, <2>6 DEF Rank
  <2> QED
    BY <2>4, <2>7
<1> QED
  BY <1>2, <1>3, <1>4

\* From a node to the next the rank grows by one.
LEMMA RankNext ==
    ASSUME NEW t, Good(t), NEW m \in Node, NEW n \in Node, Before(t, m, n),
           \/ \A z \in Node : Before(t, z, n) => z = m \/ Before(t, z, m)
           \/ \A z \in Node : Before(t, m, z) => n = z \/ Before(t, n, z)
    PROVE  Rank(t, n) = Rank(t, m) + 1
<1>1. Between(t, m, n) = {}
  BY BeforeAsymmetric DEF Between
<1>2. Cardinality(Between(t, m, n)) = 0
  BY <1>1, FS_EmptySet
<1> QED
  BY <1>2, RankGap

-----------------------------------------------------------------------------
(* The walk back to a node with a number. *)

\* x is at or before n, and behind x up to n no node has a number.
Bare(t, a, n, x) ==
    /\ x \in Node /\ (x = n \/ Before(t, x, n))
    /\ \A z \in Node : Before(t, x, z) /\ (z = n \/ Before(t, z, n)) => ~Annotated(a, z)

LEMMA BareNext ==
    ASSUME NEW t, Good(t), NEW a, NEW n \in Node, NEW x, Bare(t, a, n, x),
           ~Annotated(a, x), StepBack(t, x) # NoNode
    PROVE  /\ Bare(t, a, n, StepBack(t, x))
           /\ Rank(t, x) = Rank(t, StepBack(t, x)) + 1
<1> DEFINE y == StepBack(t, x)
<1>1. x \in Node /\ (x = n \/ Before(t, x, n))
  BY DEF Bare
<1>2. /\ y \in Node /\ Before(t, y, x)
      /\ \A z \in Node : Before(t, z, x) => z = y \/ Before(t, z, y)
  BY <1>1, StepBackIs
<1> HIDE DEF y
<1>3. Before(t, y, n)
  BY <1>1, <1>2, BeforeTransitive
<1>4. ASSUME NEW z \in Node, Before(t, y, z), z = n \/ Before(t, z, n)
      PROVE  ~Annotated(a, z)
  <2>1. z = x \/ Before(t, z, x) \/ Before(t, x, z)
    BY <1>1, <1>2, <1>4, Comparable
  <2>2. ~Before(t, z, x)
    BY <1>2, <1>4, BeforeAsymmetric
  <2> QED
    BY <1>4, <2>1, <2>2 DEF Bare
<1>5. Rank(t, x) = Rank(t, y) + 1
  BY <1>1, <1>2, RankNext
<1> QED
  BY <1>2, <1>3, <1>4, <1>5 DEF Bare, y

LEMMA FindAnnotatedIs ==
    ASSUME NEW t, Good(t), NEW a, NEW n \in Node
    PROVE  LET found == FindAnnotated(t, a, n)
           IN /\ Bare(t, a, n, found)
              /\ Annotated(a, found) \/ t.parent[found] = NoNode
<1> DEFINE X == {x \in Node : Bare(t, a, n, x)}
           Advance(x) == IF Annotated(a, x) \/ StepBack(t, x) = NoNode THEN x
                      ELSE StepBack(t, x)
           F == [x \in X |-> Advance(x)]
           Is(f) == f = [k \in Steps |-> IF k = 0 THEN n ELSE Advance(f[k - 1])]
           C == Cardinality(Node)
<1>1. n \in X
  <2>1. \A z \in Node : Before(t, n, z) /\ (z = n \/ Before(t, z, n)) => FALSE
    BY BeforeAsymmetric
  <2> QED
    BY <2>1 DEF Bare
<1>2. ASSUME NEW x \in X PROVE Advance(x) \in X
  BY BareNext, StepBackIs
<1> HIDE DEF Advance
<1>3. F \in [X -> X]
  BY <1>2
<1>4. PICK g \in [Steps -> X] :
        g[0] = n /\ \A k \in Steps : k # 0 => g[k - 1] \in X /\ g[k] = F[g[k - 1]]
  <2> HIDE DEF F, X
  <2> QED
    BY <1>1, <1>3, Walk
<1>5. Is(g)
  <2> HIDE DEF X
  <2> QED
    BY <1>4
<1> DEFINE back == CHOOSE f : Is(f)
<1>6. Is(back)
  <2> HIDE DEF Is
  <2> QED
    BY <1>5
<1>7. FindAnnotated(t, a, n) = back[C]
  BY DEF FindAnnotated, Advance
<1> HIDE DEF back, X, C
<1>8. /\ back = [k \in Steps |-> back[k]] /\ back[0] = n
      /\ \A k \in Steps : k # 0 => back[k] = Advance(back[k - 1])
  BY <1>6, ZeroStep
<1>9. back \in [Steps -> X]
  BY <1>1, <1>2, <1>8, WalkStays
<1>10. C \in Nat /\ 0 .. C = Steps
  BY FiniteNodes DEF Steps, C
<1> DEFINE Done(x) == Annotated(a, x) \/ StepBack(t, x) = NoNode
           Near(k) == Done(back[k]) \/ Rank(t, back[k]) + k < C
           T == {k \in 0 .. C : Near(k)}
<1>11. ASSUME NEW k \in 1 .. C, Near(k - 1) PROVE Near(k)
  <2> DEFINE x == back[k - 1]
  <2>1. k \in Steps /\ k - 1 \in Steps /\ k # 0
    BY <1>10
  <2>2. x \in X /\ back[k] = Advance(x) /\ x \in Node /\ Bare(t, a, n, x) /\ back[k] \in X
    BY <1>8, <1>9, <2>1 DEF X
  <2>3. CASE Done(x)
    BY <2>2, <2>3 DEF Advance
  <2>4. CASE ~Done(x)
    <3>1. back[k] = StepBack(t, x) /\ ~Annotated(a, x) /\ StepBack(t, x) # NoNode
      BY <2>2, <2>4 DEF Advance
    <3>2. Rank(t, x) = Rank(t, back[k]) + 1
      BY <2>2, <3>1, BareNext
    <3>3. Rank(t, back[k]) \in Nat /\ Rank(t, x) \in Nat
      BY <2>2, RankGap DEF X
    <3> HIDE DEF Done
    <3> QED
      BY <1>10, <1>11, <2>4, <3>2, <3>3
  <2> QED
    BY <2>3, <2>4
<1>12. Near(0)
  BY <1>8, RankGap DEF C
<1>13. Near(C)
  <2> HIDE DEF Near
  <2>1. 0 \in T /\ \A k \in 1 .. C : k - 1 \in T => k \in T
    BY <1>10, <1>11, <1>12
  <2> HIDE DEF T
  <2>2. \A k \in 0 .. C : k \in T
    BY <1>10, <2>1, Counting
  <2>3. C \in T
    BY <1>10, <2>2
  <2> QED
    BY <2>3 DEF T
<1>14. back[C] \in Node /\ Bare(t, a, n, back[C])
  BY <1>9, <1>10 DEF X
<1>15. Done(back[C])
  BY <1>10, <1>13, <1>14, RankGap
<1> QED
  BY <1>7, <1>14, <1>15, StepBackIs

-----------------------------------------------------------------------------
(* The walk on to the node that was asked for. *)

\* s goes from found, node by node, no further than n.
Onward(t, found, n, s) ==
    /\ s \in Seq(Node) /\ Len(s) > 0 /\ s[1] = found
    /\ \A k \in 1 .. Len(s) :
          /\ s[k] = n \/ Before(t, s[k], n)
          /\ s[k] = found \/ Before(t, found, s[k])
          /\ Rank(t, s[k]) = Rank(t, found) + k - 1

LEMMA OnwardNext ==
    ASSUME NEW t, Good(t), NEW found \in Node, NEW n \in Node, NEW s, Onward(t, found, n, s)
    PROVE  /\ Last(s) \in Node /\ Last(s) = s[Len(s)] /\ Len(s) \in 1 .. Len(s)
           /\ Last(s) # n => /\ StepOn(t, Last(s)) \in Node
                             /\ Onward(t, found, n, Append(s, StepOn(t, Last(s))))
                             /\ Rank(t, StepOn(t, Last(s))) = Rank(t, Last(s)) + 1
<1>1. /\ s \in Seq(Node) /\ Len(s) \in 1 .. Len(s) /\ Last(s) = s[Len(s)] /\ Last(s) \in Node
      /\ s[1] = found
  BY DEF Onward, Last
<1>2. ASSUME Last(s) # n
      PROVE  /\ StepOn(t, Last(s)) \in Node
             /\ Onward(t, found, n, Append(s, StepOn(t, Last(s))))
             /\ Rank(t, StepOn(t, Last(s))) = Rank(t, Last(s)) + 1
  <2> DEFINE x == Last(s)
             y == StepOn(t, x)
             r == Append(s, y)
  <2>1. x \in Node /\ Before(t, x, n) /\ (x = found \/ Before(t, found, x))
        /\ Rank(t, x) = Rank(t, found) + Len(s) - 1
    BY <1>1, <1>2 DEF Onward
  <2>2. /\ y \in Node /\ Before(t, x, y)
        /\ \A z \in Node : Before(t, x, z) => y = z \/ Before(t, y, z)
    BY <2>1, StepOnIs
  <2> HIDE DEF x, y
  <2>3. Rank(t, y) = Rank(t, x) + 1
    BY <2>1, <2>2, RankNext
  <2>4. y = n \/ Before(t, y, n)
    BY <2>1, <2>2
  <2>5. Before(t, found, y)
    BY <2>1, <2>2, BeforeTransitive
  <2>6. /\ r \in Seq(Node) /\ Len(r) = Len(s) + 1 /\ r[Len(s) + 1] = y
        /\ \A k \in 1 .. Len(s) : r[k] = s[k]
    BY <1>1, <2>2
  <2> HIDE DEF r
  <2>7. ASSUME NEW k \in 1 .. Len(r)
        PROVE  /\ r[k] = n \/ Before(t, r[k], n)
               /\ r[k] = found \/ Before(t, found, r[k])
               /\ Rank(t, r[k]) = Rank(t, found) + k - 1
    <3>1. CASE k \in 1 .. Len(s)
      BY <2>6, <3>1 DEF Onward
    <3>2. CASE k = Len(s) + 1
      <4>1. r[k] = y
        BY <2>6, <3>2
      <4>2. Rank(t, found) \in Nat /\ Len(s) \in Nat
        BY <1>1, RankGap
      <4>3. Rank(t, y) = Rank(t, found) + k - 1
        BY <2>1, <2>3, <3>2, <4>2
      <4> QED
        BY <2>4, <2>5, <4>1, <4>3
    <3>3. k \in 1 .. Len(s) \/ k = Len(s) + 1
      BY <1>1, <2>6
    <3> QED
      BY <3>1, <3>2, <3>3
  <2>8. Len(r) > 0 /\ r[1] = found
    BY <1>1, <2>6
  <2>9. Onward(t, found, n, r)
    BY <2>6, <2>7, <2>8 DEF Onward
  <2> QED
    BY <2>2, <2>3, <2>9 DEF x, y, r
<1> QED
  BY <1>1, <1>2

LEMMA WalkOnIs ==
    ASSUME NEW t, Good(t), NEW found \in Node, NEW n \in Node,
           found = n \/ Before(t, found, n)
    PROVE  LET walk == WalkOn(t, found, n)
           IN Onward(t, found, n, walk) /\ Last(walk) = n
<1> DEFINE start == <<found>>
           X == {s \in Seq(Node) : Onward(t, found, n, s)}
           Advance(s) == IF Last(s) = n \/ StepOn(t, Last(s)) = NoNode THEN s
                      ELSE Append(s, StepOn(t, Last(s)))
           F == [x \in X |-> Advance(x)]
           Is(f) == f = [k \in Steps |-> IF k = 0 THEN start ELSE Advance(f[k - 1])]
           C == Cardinality(Node)
<1>1. start \in X
  BY RankGap DEF Onward
<1>2. ASSUME NEW s \in X PROVE Advance(s) \in X
  <2>1. Onward(t, found, n, s)
    OBVIOUS
  <2>2. \A r : Onward(t, found, n, r) => r \in Seq(Node)
    BY DEF Onward
  <2> QED
    BY <2>1, <2>2, OnwardNext
<1> HIDE DEF Advance
<1>3. F \in [X -> X]
  BY <1>2
<1>4. PICK g \in [Steps -> X] :
        g[0] = start /\ \A k \in Steps : k # 0 => g[k - 1] \in X /\ g[k] = F[g[k - 1]]
  <2> HIDE DEF F, X, start
  <2> QED
    BY <1>1, <1>3, Walk
<1>5. Is(g)
  <2> HIDE DEF X
  <2> QED
    BY <1>4
<1> DEFINE on == CHOOSE f : Is(f)
<1>6. Is(on)
  <2> HIDE DEF Is
  <2> QED
    BY <1>5
<1>7. WalkOn(t, found, n) = on[C]
  BY DEF WalkOn, Advance
<1> HIDE DEF on, X, C
<1>8. /\ on = [k \in Steps |-> on[k]] /\ on[0] = start
      /\ \A k \in Steps : k # 0 => on[k] = Advance(on[k - 1])
  BY <1>6, ZeroStep
<1>9. on \in [Steps -> X]
  BY <1>1, <1>2, <1>8, WalkStays
<1>10. C \in Nat /\ 0 .. C = Steps
  BY FiniteNodes DEF Steps, C
<1>11. \A k \in Steps : Onward(t, found, n, on[k]) /\ Last(on[k]) \in Node
  <2>1. \A k \in Steps : Onward(t, found, n, on[k])
    BY <1>9 DEF X
  <2> QED
    BY <2>1, OnwardNext
<1> DEFINE Far(k) == Last(on[k]) = n \/ Rank(t, Last(on[k])) >= k
           T == {k \in 0 .. C : Far(k)}
<1>12. ASSUME NEW k \in 1 .. C, Far(k - 1) PROVE Far(k)
  <2> DEFINE x == Last(on[k - 1])
  <2>1. k \in Steps /\ k - 1 \in Steps /\ k # 0
    BY <1>10
  <2>2. on[k] = Advance(on[k - 1]) /\ x \in Node /\ Onward(t, found, n, on[k - 1])
    BY <1>8, <1>11, <2>1
  <2>3. CASE x = n
    BY <2>2, <2>3 DEF Advance
  <2>4. CASE x # n
    <3>1. StepOn(t, x) \in Node /\ Rank(t, StepOn(t, x)) = Rank(t, x) + 1
      BY <2>2, <2>4, OnwardNext
    <3>2. on[k] = Append(on[k - 1], StepOn(t, x))
      BY <2>2, <2>4, <3>1, NoNodeIsNoNode DEF Advance
    <3>3. Last(on[k]) = StepOn(t, x)
      BY <2>2, <3>1, <3>2 DEF Onward, Last
    <3>4. Rank(t, x) \in Nat
      BY <2>2, RankGap
    <3> QED
      BY <1>12, <2>4, <3>1, <3>3, <3>4
  <2> QED
    BY <2>3, <2>4
<1>13. Far(0)
  <2>1. Last(on[0]) \in Node
    BY <1>10, <1>11
  <2> QED
    BY <2>1, RankGap
<1>14. Far(C)
  <2> HIDE DEF Far
  <2>1. 0 \in T /\ \A k \in 1 .. C : k - 1 \in T => k \in T
    BY <1>10, <1>12, <1>13
  <2> HIDE DEF T
  <2>2. \A k \in 0 .. C : k \in T
    BY <1>10, <2>1, Counting
  <2>3. C \in T
    BY <1>10, <2>2
  <2> QED
    BY <2>3 DEF T
<1>15. Onward(t, found, n, on[C]) /\ Last(on[C]) \in Node
  BY <1>10, <1>11
<1>16. Last(on[C]) = n
  BY <1>10, <1>14, <1>15, RankGap DEF C
<1> QED
  BY <1>7, <1>15, <1>16
=============================================================================
