---------------------------- MODULE XotOrder_proofs ----------------------------
(***************************************************************************)
(* What careful callers rely on: the children of a node stay sorted by     *)
(* category without a name twice.  And what any caller may rely on: a      *)
(* refused move displaces nothing.                                         *)
(*                                                                         *)
(* The order is stated for pairs: Precedes(s, x, y) says that x stands     *)
(* before y in s.  Cutting children out of a list makes no new pairs, so   *)
(* that only the calls that put a node somewhere need an argument: a       *)
(* normal node goes behind every abnormal one, an entry to the end of its  *)
(* map, and an element dissolves into normal nodes only.                   *)
(*                                                                         *)
(* From the order follows what a reader of a map sees (last section): the  *)
(* children of an element are a run of namespaces, one of attributes and   *)
(* one of normal nodes, so that a call that cuts an entry out of the list  *)
(* of children, or puts one in, does the same to one run and leaves the    *)
(* others as they are.                                                     *)
(***************************************************************************)
EXTENDS XotTree_proofs

-----------------------------------------------------------------------------
(* Pairs of members of a sequence. *)

Precedes(s, x, y) ==
    \E i, j \in DOMAIN s : i < j /\ s[i] = x /\ s[j] = y

\* The members of a splice, by position.
LEMMA SpliceAt ==
    ASSUME NEW S, NEW s \in Seq(S), NEW q \in Seq(S),
           NEW i \in 0 .. Len(s), NEW j \in i .. Len(s),
           NEW k \in DOMAIN Splice(s, i, j, q)
    PROVE  LET r == Splice(s, i, j, q)
               m == k - i - Len(q) + j
           IN /\ k \in Nat
              /\ \/ k <= i /\ k \in DOMAIN s /\ r[k] = s[k]
                 \/ i < k /\ k <= i + Len(q) /\ k - i \in DOMAIN q /\ r[k] = q[k - i]
                 \/ i + Len(q) < k /\ m \in DOMAIN s /\ j < m /\ r[k] = s[m]
<1> DEFINE r == Splice(s, i, j, q)
           m == k - i - Len(q) + j
<1>1. Len(s) \in Nat /\ Len(q) \in Nat /\ DOMAIN s = 1 .. Len(s)
      /\ DOMAIN q = 1 .. Len(q)
  OBVIOUS
<1>2. r \in Seq(S) /\ Len(r) = i + Len(q) + (Len(s) - j)
  BY SpliceShifts
<1>3. ASSUME NEW l \in 1 .. i PROVE r[l] = s[l]
  BY SpliceShifts
<1>4. ASSUME NEW l \in 1 .. Len(q) PROVE r[i + l] = q[l]
  BY SpliceShifts
<1>5. ASSUME NEW l \in j + 1 .. Len(s) PROVE r[l - j + i + Len(q)] = s[l]
  BY SpliceShifts
<1>6. k \in 1 .. Len(r)
  BY <1>2
<1> HIDE DEF r
<1>7. CASE k \in 1 .. i
  BY <1>1, <1>3, <1>7 DEF r
<1>8. CASE k \in i + 1 .. i + Len(q)
  <2>1. k - i \in 1 .. Len(q) /\ i + (k - i) = k /\ i < k /\ k <= i + Len(q)
    BY <1>1, <1>8
  <2>2. r[k] = q[k - i]
    BY <1>4, <2>1
  <2> QED
    BY <1>1, <1>8, <2>1, <2>2 DEF r
<1>9. CASE k \in i + Len(q) + 1 .. Len(r)
  <2>1. m \in j + 1 .. Len(s) /\ m - j + i + Len(q) = k
    BY <1>1, <1>2, <1>9
  <2>2. r[k] = s[m]
    BY <1>5, <2>1
  <2>3. i + Len(q) < k /\ k \in Nat
    BY <1>1, <1>2, <1>9
  <2> HIDE DEF m
  <2>4. m \in 1 .. Len(s) /\ j < m
    BY <1>1, <2>1
  <2> QED
    BY <1>1, <2>2, <2>3, <2>4 DEF r, m
<1> QED
  BY <1>1, <1>2, <1>6, <1>7, <1>8, <1>9

\* A pair of a splice is a pair of s, a pair of q, or one of each.
LEMMA SplicePairs ==
    ASSUME NEW S, NEW s \in Seq(S), NEW q \in Seq(S),
           NEW i \in 0 .. Len(s), NEW j \in i .. Len(s),
           NEW x, NEW y, Precedes(Splice(s, i, j, q), x, y)
    PROVE  \/ Precedes(s, x, y)
           \/ Precedes(q, x, y)
           \/ y \in Range(q) /\ \E k \in DOMAIN s : k <= i /\ s[k] = x
           \/ x \in Range(q) /\ \E k \in DOMAIN s : j < k /\ s[k] = y
<1> DEFINE r == Splice(s, i, j, q)
           At(k) == k - i - Len(q) + j
<1>1. Len(s) \in Nat /\ Len(q) \in Nat /\ DOMAIN s = 1 .. Len(s)
      /\ DOMAIN q = 1 .. Len(q)
  OBVIOUS
<1>2. PICK k \in DOMAIN r, l \in DOMAIN r : k < l /\ r[k] = x /\ r[l] = y
  BY DEF Precedes
<1>3. \A h \in DOMAIN r :
        /\ h \in Nat
        /\ \/ h <= i /\ h \in DOMAIN s /\ r[h] = s[h]
           \/ i < h /\ h <= i + Len(q) /\ h - i \in DOMAIN q /\ r[h] = q[h - i]
           \/ i + Len(q) < h /\ At(h) \in DOMAIN s /\ j < At(h) /\ r[h] = s[At(h)]
  BY SpliceAt
<1> HIDE DEF r
<1>4. CASE k <= i /\ k \in DOMAIN s /\ r[k] = s[k]
  <2>1. CASE l <= i /\ l \in DOMAIN s /\ r[l] = s[l]
    BY <1>2, <1>4, <2>1 DEF Precedes
  <2>2. CASE l - i \in DOMAIN q /\ r[l] = q[l - i]
    BY <1>2, <1>4, <2>2 DEF Range
  <2>3. CASE At(l) \in DOMAIN s /\ j < At(l) /\ r[l] = s[At(l)]
    <3>1. k < At(l)
      BY <1>1, <1>4, <2>3
    <3> HIDE DEF At
    <3> QED
      BY <1>2, <1>4, <2>3, <3>1 DEF Precedes
  <2> QED
    BY <1>2, <1>3, <2>1, <2>2, <2>3
<1>5. CASE i < k /\ k <= i + Len(q) /\ k - i \in DOMAIN q /\ r[k] = q[k - i]
  <2>1. x \in Range(q)
    BY <1>2, <1>5 DEF Range
  <2>2. CASE l <= i
    BY <1>1, <1>2, <1>3, <1>5, <2>2
  <2>3. CASE l - i \in DOMAIN q /\ r[l] = q[l - i]
    <3>1. k - i < l - i
      BY <1>1, <1>2, <1>3
    <3> QED
      BY <1>2, <1>5, <2>3, <3>1 DEF Precedes
  <2>4. CASE At(l) \in DOMAIN s /\ j < At(l) /\ r[l] = s[At(l)]
    <3> HIDE DEF At
    <3> QED
      BY <1>2, <2>1, <2>4
  <2> QED
    BY <1>2, <1>3, <2>2, <2>3, <2>4
<1>6. CASE i + Len(q) < k /\ At(k) \in DOMAIN s /\ j < At(k) /\ r[k] = s[At(k)]
  <2>1. k \in Nat /\ l \in Nat /\ i + Len(q) < l /\ i < l
    BY <1>1, <1>2, <1>3, <1>6
  <2>2. At(l) \in DOMAIN s /\ r[l] = s[At(l)]
    BY <1>1, <1>2, <1>3, <2>1
  <2>3. At(k) < At(l)
    BY <1>1, <1>2, <2>1
  <2> HIDE DEF At
  <2> QED
    BY <1>2, <1>6, <2>2, <2>3 DEF Precedes
<1> QED
  BY <1>2, <1>3, <1>4, <1>5, <1>6

\* Cutting out members makes no new pair.
LEMMA CutPairs ==
    ASSUME NEW S, NEW s \in Seq(S), NEW i \in 0 .. Len(s), NEW j \in i .. Len(s)
    PROVE  /\ \A x, y : Precedes(Splice(s, i, j, <<>>), x, y) => Precedes(s, x, y)
           /\ Range(Splice(s, i, j, <<>>)) \subseteq Range(s)
<1> DEFINE e == <<>>
<1>1. e \in Seq(S) /\ DOMAIN e = {} /\ Range(e) = {}
  BY DEF Range
<1>2. ~\E x, y : Precedes(e, x, y)
  BY <1>1 DEF Precedes
<1> HIDE DEF e
<1>3. \A x, y : Precedes(Splice(s, i, j, e), x, y) => Precedes(s, x, y)
  BY <1>1, <1>2, SplicePairs
<1>4. \A x : x \in Range(Splice(s, i, j, e)) => \E k \in DOMAIN s : s[k] = x
  <2>1. e \in Seq(S) /\ \A x : x \notin Range(e)
    BY <1>1
  <2>2. \A x : x \in Range(Splice(s, i, j, e)) <=>
                  x \in Range(e) \/ \E k \in DOMAIN s : s[k] = x /\ k \notin i + 1 .. j
    BY <2>1, SpliceMembers, Zenon
  <2> QED
    BY <2>1, <2>2
<1>5. Range(Splice(s, i, j, e)) \subseteq Range(s)
  BY <1>4 DEF Range
<1> QED
  BY <1>3, <1>5 DEF e

\* The pairs that appear when n is put behind the first i members.
LEMMA PutPairs ==
    ASSUME NEW S, NEW s \in Seq(S), NEW i \in 0 .. Len(s), NEW n \in S,
           NEW x, NEW y, Precedes(Splice(s, i, i, <<n>>), x, y)
    PROVE  \/ Precedes(s, x, y)
           \/ y = n /\ \E k \in DOMAIN s : k <= i /\ s[k] = x
           \/ x = n /\ \E k \in DOMAIN s : i < k /\ s[k] = y
<1> DEFINE e == <<n>>
<1>1. e \in Seq(S) /\ DOMAIN e = {1} /\ e[1] = n
  OBVIOUS
<1> HIDE DEF e
<1>2. Range(e) = {n} /\ ~Precedes(e, x, y)
  BY <1>1 DEF Range, Precedes
<1>3. i \in i .. Len(s) /\ Precedes(Splice(s, i, i, e), x, y)
  BY DEF e
<1> QED
  BY <1>1, <1>2, <1>3, SplicePairs

-----------------------------------------------------------------------------
(* Trees whose children are pairs of another tree's. *)

\* u has the children of t, or some of them, in the order they have in t.
Thinner(t, u) ==
    \A p \in Node :
        /\ \A x, y : Precedes(u.kids[p], x, y) => Precedes(t.kids[p], x, y)
        /\ Range(u.kids[p]) \subseteq Range(t.kids[p])

\* Taking children out twice is taking children out.
LEMMA ThinnerTwice ==
    ASSUME NEW t, NEW u, NEW v, Thinner(t, u), Thinner(u, v)
    PROVE  Thinner(t, v)
  BY DEF Thinner

\* Trees with the same lists of children.
LEMMA SameKidsThinner ==
    ASSUME NEW t, NEW u, \A p \in Node : u.kids[p] = t.kids[p]
    PROVE  Thinner(t, u)
  BY DEF Thinner

\* What detaching a node does to the lists of children.
LEMMA UnlinkKids ==
    ASSUME NEW t, Good(t), NEW n \in Node
    PROVE  LET u == Unlink(t, n)
               i == Position(t, n)
           IN \A q \in Node :
                u.kids[q] = IF q = t.parent[n] THEN Splice(t.kids[q], i - 1, i, <<>>)
                            ELSE t.kids[q]
<1> DEFINE p == t.parent[n]
           i == Position(t, n)
           r == Splice(t.kids[p], i - 1, i, <<>>)
           u == Unlink(t, n)
<1>1. CASE p = NoNode
  BY <1>1, NoNodeIsNoNode DEF Unlink
<1>2. CASE p # NoNode
  <2>1. u = [t EXCEPT !.kids[p] = r, !.parent[n] = NoNode]
    BY <1>2 DEF Unlink
  <2>2. p \in Node /\ t \in Tree
    BY <1>2, PositionListed DEF Container, Node, Normal, Good
  <2> HIDE DEF r, u
  <2>3. u.kids = [t.kids EXCEPT ![p] = r] /\ t.kids \in [Node -> Seq(Node)]
    BY <2>1, <2>2 DEF Tree
  <2>4. \A q \in Node : u.kids[q] = IF q = p THEN r ELSE t.kids[q]
    BY <2>2, <2>3
  <2> QED
    BY <2>4 DEF r, u
<1> QED
  BY <1>1, <1>2

\* Detaching a node.
LEMMA UnlinkThinner ==
    ASSUME NEW t, Good(t), NEW n \in Node
    PROVE  Thinner(t, Unlink(t, n))
<1> DEFINE p == t.parent[n]
           i == Position(t, n)
           u == Unlink(t, n)
<1>1. \A q \in Node : u.kids[q] = IF q = p THEN Splice(t.kids[q], i - 1, i, <<>>)
                                  ELSE t.kids[q]
  BY UnlinkKids
<1> HIDE DEF u
<1>2. ASSUME NEW q \in Node, q = p
      PROVE  /\ \A x, y : Precedes(u.kids[q], x, y) => Precedes(t.kids[q], x, y)
             /\ Range(u.kids[q]) \subseteq Range(t.kids[q])
  <2>1. t.kids[q] \in Seq(Node) /\ i \in 1 .. Len(t.kids[q])
    BY <1>2, PositionListed, NoNodeIsNoNode
  <2>2. i - 1 \in 0 .. Len(t.kids[q]) /\ i \in i - 1 .. Len(t.kids[q])
    BY <2>1
  <2>3. u.kids[q] = Splice(t.kids[q], i - 1, i, <<>>)
    BY <1>1, <1>2
  <2> HIDE DEF i
  <2> QED
    BY <2>1, <2>2, <2>3, CutPairs
<1>3. Thinner(t, u)
  BY <1>1, <1>2 DEF Thinner
<1> QED
  BY <1>3 DEF u

\* Freeing a childless node.
LEMMA FreeThinner ==
    ASSUME NEW t, Good(t), NEW n \in Node
    PROVE  Thinner(t, Free(t, n))
<1>1. Free(t, n).kids = Unlink(t, n).kids
  BY DEF Free
<1> QED
  BY <1>1, UnlinkThinner DEF Thinner

\* Freeing a run of childless children.
LEMMA FreeRunThinner ==
    ASSUME NEW t, Good(t), NEW p \in Node,
           NEW i \in 0 .. Len(t.kids[p]), NEW j \in i .. Len(t.kids[p])
    PROVE  LET f == FreeRun(t, p, i, j)
           IN /\ Thinner(t, f)
              /\ \A q \in Node : f.kids[q] = IF q = p THEN Splice(t.kids[p], i, j, <<>>)
                                             ELSE t.kids[q]
<1> DEFINE r == Splice(t.kids[p], i, j, <<>>)
           f == FreeRun(t, p, i, j)
<1>1. t.kids[p] \in Seq(Node) /\ t \in Tree
  BY DEF Good, Tree
<1>2. f.kids = [t.kids EXCEPT ![p] = r]
  BY DEF FreeRun
<1> HIDE DEF f
<1>3. \A q \in Node : f.kids[q] = IF q = p THEN r ELSE t.kids[q]
  BY <1>1, <1>2 DEF Tree
<1>4. /\ \A x, y : Precedes(r, x, y) => Precedes(t.kids[p], x, y)
      /\ Range(r) \subseteq Range(t.kids[p])
  BY <1>1, CutPairs
<1>5. Thinner(t, f)
  BY <1>3, <1>4 DEF Thinner
<1> QED
  BY <1>3, <1>5 DEF f

\* Removing a subtree.
LEMMA RemoveSubtreeThinner ==
    ASSUME NEW t, Good(t), NEW n \in Node
    PROVE  LET f == RemoveSubtree(t, n)
           IN /\ Thinner(t, f)
              /\ \A q \in Node : f.kids[q] = IF q \in Subtree(t, n) THEN <<>>
                                             ELSE Unlink(t, n).kids[q]
<1> DEFINE u == Unlink(t, n)
           f == RemoveSubtree(t, n)
           gone == Subtree(t, n)
<1>1. Thinner(t, u) /\ Good(u)
  BY UnlinkThinner, UnlinkGood
<1>2. f.kids = [q \in Node |-> IF q \in gone THEN <<>> ELSE u.kids[q]]
  BY DEF RemoveSubtree
<1> HIDE DEF u, f, gone
<1>3. \A q \in Node : f.kids[q] = IF q \in gone THEN <<>> ELSE u.kids[q]
  BY <1>2
<1>4. Range(<<>>) = {} /\ \A x, y : ~Precedes(<<>>, x, y)
  BY DEF Range, Precedes
<1>5. Thinner(u, f)
  BY <1>3, <1>4 DEF Thinner
<1> QED
  BY <1>1, <1>3, <1>5, ThinnerTwice DEF u, f, gone

-----------------------------------------------------------------------------
(* Consolidation takes out children only. *)

\* A merge.
LEMMA AbsorbThinner ==
    ASSUME NEW t, Good(t), NEW n \in Texts, NEW m \in Texts, NEW s \in Seq(Node)
    PROVE  Thinner(t, Absorb(t, n, s, m))
<1> DEFINE u == [t EXCEPT !.value[n] = s]
<1>1. n \in Node /\ m \in Node
  BY DEF Node, Normal
<1>2. Good(u) /\ u.kids = t.kids
  BY <1>1, ValueGood
<1>3. Absorb(t, n, s, m) = Free(u, m)
  BY DEF Absorb
<1> HIDE DEF u
<1> QED
  BY <1>1, <1>2, <1>3, FreeThinner, SameKidsThinner, ThinnerTwice

\* Merging the neighbours of a node.
LEMMA RemoveConsolidateThinner ==
    ASSUME NEW t, Good(t), NEW prev, NEW next
    PROVE  Thinner(t, RemoveConsolidate(t, prev, next).tree)
<1>1. CASE t.consolidate /\ prev \in Texts /\ next \in Texts
  <2> DEFINE s == t.value[prev] \o t.value[next]
  <2>1. t.value[prev] \in Seq(Node) /\ t.value[next] \in Seq(Node)
    BY <1>1 DEF Good, Tree, Node, Normal
  <2>2. s \in Seq(Node)
    BY <2>1
  <2>3. RemoveConsolidate(t, prev, next).tree = Absorb(t, prev, s, next)
    BY <1>1 DEF RemoveConsolidate
  <2> HIDE DEF s
  <2> QED
    BY <1>1, <2>2, <2>3, AbsorbThinner
<1>2. CASE ~(t.consolidate /\ prev \in Texts /\ next \in Texts)
  BY <1>2, SameKidsThinner DEF RemoveConsolidate
<1> QED
  BY <1>1, <1>2

\* Merging a text node into a neighbour.
LEMMA AddConsolidateThinner ==
    ASSUME NEW t, Good(t), NEW n, NEW prev, NEW next
    PROVE  Thinner(t, AddConsolidate(t, n, prev, next).tree)
<1> DEFINE a == AddConsolidate(t, n, prev, next)
           s == t.value[prev] \o t.value[n]
           r == t.value[n] \o t.value[next]
<1>1. \/ a.tree = t
      \/ n \in Texts /\ prev \in Texts /\ a.tree = Absorb(t, prev, s, n)
      \/ n \in Texts /\ next \in Texts /\ a.tree = Absorb(t, next, r, n)
  BY DEF AddConsolidate
<1>2. \A m \in Texts : t.value[m] \in Seq(Node)
  BY DEF Good, Tree, Node, Normal
<1>3. /\ n \in Texts /\ prev \in Texts => s \in Seq(Node)
      /\ n \in Texts /\ next \in Texts => r \in Seq(Node)
  BY <1>2
<1> HIDE DEF s, r
<1>4. Thinner(t, t)
  BY SameKidsThinner
<1> QED
  BY <1>1, <1>3, <1>4, AbsorbThinner

\* Merging the neighbours that a node leaves behind.
LEMMA LeaveNeighboursThinner ==
    ASSUME NEW t, Good(t), NEW n \in Node
    PROVE  Thinner(t, LeaveNeighbours(t, n))
  BY RemoveConsolidateThinner DEF LeaveNeighbours

\* detach and remove.
LEMMA TakeOutThinner ==
    ASSUME NEW t, Good(t), NEW n \in Node
    PROVE  /\ Thinner(t, DetachNode(t, n).tree)
           /\ Thinner(t, RemoveNode(t, n).tree)
<1>1. ASSUME NEW u, Good(u), Thinner(t, u), NEW prev, NEW next
      PROVE  Thinner(t, RemoveConsolidate(u, prev, next).tree)
  BY <1>1, RemoveConsolidateThinner, ThinnerTwice
<1>2. Good(Unlink(t, n)) /\ Thinner(t, Unlink(t, n))
  BY UnlinkGood, UnlinkThinner
<1>3. Good(RemoveSubtree(t, n)) /\ Thinner(t, RemoveSubtree(t, n))
  BY RemoveSubtreeGood, RemoveSubtreeThinner
<1> QED
  BY <1>1, <1>2, <1>3 DEF DetachNode, RemoveNode, Ok

-----------------------------------------------------------------------------
(* The order of children. *)

\* x may stand before y among the children of an element.
MayPrecede(x, y) ==
    /\ y \in Namespaces => x \in Namespaces
    /\ y \in Attributes => x \in Abnormal
    /\ \A K \in Maps : x \in K /\ y \in K => NameOf[x] # NameOf[y]

Ordered(t) ==
    \A p \in Node :
        /\ \A x, y : Precedes(t.kids[p], x, y) => MayPrecede(x, y)
        /\ p \in Documents => Range(t.kids[p]) \subseteq Normal

\* Children taken out leave the rest in order.
LEMMA ThinnerOrdered ==
    ASSUME NEW t, NEW u, Ordered(t), Thinner(t, u)
    PROVE  Ordered(u)
  BY DEF Thinner, Ordered

\* A normal node may stand behind any, and before normal nodes.
LEMMA NormalBefore ==
    ASSUME NEW n \in Normal
    PROVE  /\ \A x : MayPrecede(x, n)
           /\ \A y \in Normal : MayPrecede(n, y)
           /\ \A y \in Node : MayPrecede(n, y) => y \in Normal
  BY KindsAreDisjoint DEF MayPrecede, Maps, Normal, Abnormal, Node

\* What linking a node does to the lists of children.
LEMMA LinkKids ==
    ASSUME NEW t, Good(t), NEW n \in Node, NEW p \in Node, NEW i \in 0 .. Len(t.kids[p])
    PROVE  \A q \in Node :
              Link(t, p, i, n).kids[q] =
                  IF q = p THEN Splice(t.kids[p], i, i, <<n>>) ELSE t.kids[q]
<1> DEFINE r == Splice(t.kids[p], i, i, <<n>>)
           u == Link(t, p, i, n)
<1>1. t \in Tree
  BY DEF Good
<1>2. u.kids = [t.kids EXCEPT ![p] = r]
  BY DEF Link
<1> HIDE DEF r, u
<1>3. \A q \in Node : u.kids[q] = IF q = p THEN r ELSE t.kids[q]
  BY <1>1, <1>2 DEF Tree
<1> QED
  BY <1>3 DEF r, u

\* A node may go where those before it and those behind it allow it.
LEMMA LinkOrdered ==
    ASSUME NEW t, Good(t), Ordered(t), NEW n \in Node, NEW p \in Node,
           NEW i \in 0 .. Len(t.kids[p]),
           \A k \in DOMAIN t.kids[p] :
              /\ k <= i => MayPrecede(t.kids[p][k], n)
              /\ i < k => MayPrecede(n, t.kids[p][k]),
           p \in Documents => n \in Normal
    PROVE  Ordered(Link(t, p, i, n))
<1> DEFINE s == t.kids[p]
           r == Splice(s, i, i, <<n>>)
           u == Link(t, p, i, n)
<1>1. s \in Seq(Node) /\ i \in i .. Len(s)
  BY DEF Good, Tree
<1>2. \A q \in Node : u.kids[q] = IF q = p THEN r ELSE t.kids[q]
  BY LinkKids
<1>3. ASSUME NEW x, NEW y, Precedes(r, x, y) PROVE MayPrecede(x, y)
  <2>1. \/ Precedes(s, x, y)
        \/ y = n /\ \E k \in DOMAIN s : k <= i /\ s[k] = x
        \/ x = n /\ \E k \in DOMAIN s : i < k /\ s[k] = y
    <3> HIDE DEF s
    <3> QED
      BY <1>1, <1>3, PutPairs
  <2>2. Precedes(s, x, y) => MayPrecede(x, y)
    BY DEF Ordered
  <2> QED
    BY <2>1, <2>2
<1>4. Range(r) \subseteq Range(s) \cup {n}
  <2> DEFINE e == <<n>>
  <2>1. e \in Seq(Node) /\ Range(e) = {n}
    BY DEF Range
  <2> HIDE DEF e, s
  <2>2. \A x : x \in Range(Splice(s, i, i, e)) =>
                  x \in Range(e) \/ \E k \in DOMAIN s : s[k] = x
    BY <1>1, <2>1, SpliceMembers
  <2> QED
    BY <2>1, <2>2 DEF e, Range
<1> HIDE DEF r, u
<1>5. p \in Documents => Range(r) \subseteq Normal
  BY <1>4 DEF Ordered
<1>6. Ordered(u)
  BY <1>2, <1>3, <1>5 DEF Ordered
<1> QED
  BY <1>6 DEF u

\* A normal node may go before normal nodes.
LEMMA LinkNormal ==
    ASSUME NEW t, Good(t), Ordered(t), NEW n \in Normal, NEW p \in Node,
           NEW i \in 0 .. Len(t.kids[p]),
           \A k \in DOMAIN t.kids[p] : i < k => t.kids[p][k] \in Normal
    PROVE  Ordered(Link(t, p, i, n))
<1>1. n \in Node
  BY DEF Node
<1> QED
  BY <1>1, LinkOrdered, NormalBefore

\* Behind the leading abnormal children all are normal.
LEMMA BehindLeading ==
    ASSUME NEW t, Good(t), Ordered(t), NEW p \in Node,
           NEW k \in DOMAIN t.kids[p], Leading(t.kids[p], Abnormal) < k
    PROVE  t.kids[p][k] \in Normal
<1> DEFINE s == t.kids[p]
           l == Leading(s, Abnormal)
<1>1. s \in Seq(Node) /\ \A x, y : Precedes(s, x, y) => MayPrecede(x, y)
  BY DEF Good, Tree, Ordered
<1>2. k \in DOMAIN s /\ l < k
  OBVIOUS
<1> HIDE DEF s
<1>3. l \in 0 .. Len(s) /\ (l < Len(s) => s[l + 1] \notin Abnormal)
  BY <1>1, LeadingPrefix
<1>4. l + 1 \in DOMAIN s /\ s[l + 1] \in Normal
  BY <1>1, <1>2, <1>3 DEF Node
<1>5. CASE k = l + 1
  BY <1>4, <1>5 DEF s
<1>6. CASE k # l + 1
  <2>1. l + 1 < k
    BY <1>1, <1>2, <1>3, <1>6
  <2>2. MayPrecede(s[l + 1], s[k]) /\ s[k] \in Node
    BY <1>1, <1>2, <1>4, <2>1 DEF Precedes
  <2> QED
    BY <1>4, <2>2, NormalBefore DEF s
<1> QED
  BY <1>5, <1>6

-----------------------------------------------------------------------------
(* Moving a normal node. *)

\* At the end.
LEMMA CheckedAppendOrdered ==
    ASSUME NEW t, Good(t), Ordered(t), NEW n \in Normal, NEW p \in Node
    PROVE  Ordered(CheckedAppend(t, p, n).tree)
<1> DEFINE u == Unlink(t, n)
           i == Len(u.kids[p])
<1>1. n \in Node
  BY DEF Node
<1>2. Good(u) /\ Ordered(u)
  BY <1>1, UnlinkGood, UnlinkThinner, ThinnerOrdered
<1>3. CheckedAppend(t, p, n).tree \in {t, Link(u, p, i, n)}
  BY DEF CheckedAppend, Err, Ok
<1> HIDE DEF u
<1>4. u.kids[p] \in Seq(Node)
  BY <1>2 DEF Good, Tree
<1>5. i \in 0 .. i /\ \A k \in DOMAIN u.kids[p] : ~(i < k)
  BY <1>4
<1>6. Ordered(Link(u, p, i, n))
  BY <1>2, <1>5, LinkNormal
<1> QED
  BY <1>3, <1>6

\* At the front of normal nodes.
LEMMA CheckedPrependOrdered ==
    ASSUME NEW t, Good(t), Ordered(t), NEW n \in Normal, NEW p \in Node,
           Range(t.kids[p]) \subseteq Normal
    PROVE  Ordered(CheckedPrepend(t, p, n).tree)
<1> DEFINE u == Unlink(t, n)
<1>1. n \in Node
  BY DEF Node
<1>2. Good(u) /\ Ordered(u) /\ Thinner(t, u)
  BY <1>1, UnlinkGood, UnlinkThinner, ThinnerOrdered
<1>3. CheckedPrepend(t, p, n).tree \in {t, Link(u, p, 0, n)}
  BY DEF CheckedPrepend, Err, Ok
<1> HIDE DEF u
<1>4. u.kids[p] \in Seq(Node) /\ 0 \in 0 .. Len(u.kids[p])
  BY <1>2 DEF Good, Tree
<1>5. \A k \in DOMAIN u.kids[p] : u.kids[p][k] \in Normal
  BY <1>2 DEF Thinner, Range
<1>6. Ordered(Link(u, p, 0, n))
  BY <1>2, <1>4, <1>5, LinkNormal
<1> QED
  BY <1>3, <1>6

\* Beside a reference that only normal nodes stand behind.
LEMMA InsertBesideOrdered ==
    ASSUME NEW t, Good(t), Ordered(t), NEW n \in Normal,
           NEW r \in Node, t.parent[r] # NoNode, NEW offset \in {0, -1},
           offset = -1 => r \in Normal,
           \A y : Precedes(t.kids[t.parent[r]], r, y) => y \in Normal
    PROVE  Ordered(InsertBeside(t, r, n, offset).tree)
<1> DEFINE u == Unlink(t, n)
           p == u.parent[r]
           s == u.kids[p]
           j == Position(u, r)
           i == j + offset
<1>1. n \in Node
  BY DEF Node
<1>2. Good(u) /\ Ordered(u) /\ Thinner(t, u) /\ u.parent = [t.parent EXCEPT ![n] = NoNode]
  BY <1>1, UnlinkGood, UnlinkThinner, ThinnerOrdered
<1>3. \/ InsertBeside(t, r, n, offset).tree = t
      \/ n # r /\ InsertBeside(t, r, n, offset).tree = Link(u, p, i, n)
  BY DEF InsertBeside, Err, Undefined, Ok
<1> HIDE DEF u
<1>4. ASSUME n # r PROVE Ordered(Link(u, p, i, n))
  <2>1. p = t.parent[r] /\ p # NoNode
    BY <1>2, <1>4 DEF Good, Tree
  <2>2. /\ p \in Node /\ s \in Seq(Node)
        /\ j \in 1 .. Len(s) /\ s[j] = r
    BY <1>2, <2>1, PositionListed DEF Container, Node, Normal
  <2>3. \A y : Precedes(s, r, y) => y \in Normal
    BY <1>2, <2>1, <2>2 DEF Thinner
  <2> HIDE DEF s, p, j
  <2>4. ASSUME NEW k \in DOMAIN s, i < k PROVE s[k] \in Normal
    <3>1. CASE k = j
      BY <2>2, <2>4, <3>1
    <3>2. CASE k # j
      <4>1. j < k /\ j \in DOMAIN s
        BY <2>2, <2>4, <3>2
      <4> QED
        BY <2>2, <2>3, <4>1 DEF Precedes
    <3> QED
      BY <3>1, <3>2
  <2>5. i \in 0 .. Len(s)
    BY <2>2
  <2> QED
    BY <1>2, <2>2, <2>4, <2>5, LinkNormal DEF s
<1> QED
  BY <1>3, <1>4

\* A node behind a normal child is normal.
LEMMA BehindNormal ==
    ASSUME NEW t, Good(t), Ordered(t), NEW r \in Normal, t.parent[r] # NoNode
    PROVE  \A y : Precedes(t.kids[t.parent[r]], r, y) => y \in Normal
<1> DEFINE s == t.kids[t.parent[r]]
<1>1. t.parent[r] \in Node
  BY PositionListed DEF Container, Node, Normal
<1>2. s \in Seq(Node) /\ \A y : Precedes(s, r, y) => MayPrecede(r, y)
  BY <1>1 DEF Good, Tree, Ordered
<1> HIDE DEF s
<1>3. \A y : Precedes(s, r, y) => y \in Node
  BY <1>2 DEF Precedes
<1>4. \A y : Precedes(s, r, y) => y \in Normal
  BY <1>2, <1>3, NormalBefore
<1> QED
  BY <1>4 DEF s

\* A tree after a merge is in order, and what survives has its parent.
LEMMA AfterMerge ==
    ASSUME NEW t, Good(t), Ordered(t), NEW n \in Node
    PROVE  LET u == LeaveNeighbours(t, n)
           IN /\ Good(u) /\ Ordered(u)
              /\ \A m \in Node : Live(u, m) => u.parent[m] = t.parent[m]
              /\ \A prev, next : Ordered(AddConsolidate(u, n, prev, next).tree)
<1> DEFINE u == LeaveNeighbours(t, n)
<1>1. SameBut(t, u, NextSibling(t, n)) /\ Ordered(u)
  BY LeaveNeighboursKeeps, LeaveNeighboursThinner, ThinnerOrdered
<1> HIDE DEF u
<1>2. Good(u) /\ \A m \in Node : Live(u, m) => u.parent[m] = t.parent[m]
  BY <1>1 DEF SameBut, Live
<1>3. \A prev, next : Ordered(AddConsolidate(u, n, prev, next).tree)
  BY <1>1, <1>2, AddConsolidateThinner, ThinnerOrdered
<1> QED
  BY <1>1, <1>2, <1>3 DEF u

\* append.
LEMMA AppendNodeOrdered ==
    ASSUME NEW t, Good(t), Ordered(t), NEW p \in Node, NEW n \in Node
    PROVE  Ordered(AppendNode(t, p, n).tree)
<1> DEFINE u == LeaveNeighbours(t, n)
           a == AddConsolidate(u, n, LastChild(u, p), NoNode)
<1>1. Good(u) /\ Ordered(u) /\ Ordered(a.tree)
  BY AfterMerge
<1>2. \/ AppendNode(t, p, n).tree \in {t, a.tree}
      \/ n \in Normal /\ AppendNode(t, p, n) = CheckedAppend(u, p, n)
  BY DEF AppendNode, MayBeChild, Err, Ok
<1> HIDE DEF a, u
<1> QED
  BY <1>1, <1>2, CheckedAppendOrdered

\* Behind the leading abnormal children there is room for a normal one.
LEMMA FrontOrdered ==
    ASSUME NEW t, Good(t), Ordered(t), NEW p \in Node
    PROVE  LET r == Last(AbnormalChildren(t, p))
           IN IF AbnormalChildren(t, p) = <<>> THEN Range(t.kids[p]) \subseteq Normal
              ELSE /\ r \in Node /\ t.parent[r] = p
                   /\ \A y : Precedes(t.kids[p], r, y) => y \in Normal
<1> DEFINE s == t.kids[p]
           l == Leading(s, Abnormal)
           a == SubSeq(s, 1, l)
           r == Last(AbnormalChildren(t, p))
<1>1. s \in Seq(Node) /\ IsInjective(s)
  BY DEF Good, Tree, Forest, KidsAgree
<1>2. AbnormalChildren(t, p) = a
  BY DEF AbnormalChildren
<1>3. \A k \in DOMAIN s : l < k => s[k] \in Normal
  BY BehindLeading
<1> HIDE DEF s
<1>4. l \in 0 .. Len(s)
  BY <1>1, LeadingPrefix
<1> HIDE DEF l
<1>5. a \in Seq(Node) /\ Len(a) = l /\ \A i \in 1 .. l : a[i] = s[i]
  BY <1>1, <1>4
<1> HIDE DEF a
<1>6. CASE AbnormalChildren(t, p) = <<>>
  <2>1. l = 0
    BY <1>2, <1>5, <1>6
  <2> QED
    BY <1>1, <1>3, <1>6, <2>1 DEF Range, s
<1>7. CASE AbnormalChildren(t, p) # <<>>
  <2>1. l # 0
    BY <1>2, <1>5, <1>7
  <2>2. l \in DOMAIN s /\ r = s[l]
    BY <1>1, <1>2, <1>4, <1>5, <2>1 DEF Last
  <2>3. \A y : Precedes(s, r, y) => y \in Normal
    BY <1>1, <1>3, <2>2 DEF Precedes, IsInjective
  <2>4. r \in Node /\ t.parent[r] = p
    BY <1>7, AbnormalChildrenListed
  <2> QED
    BY <1>7, <2>3, <2>4 DEF s
<1> QED
  BY <1>6, <1>7

\* prepend.
LEMMA PrependNodeOrdered ==
    ASSUME NEW t, Good(t), Ordered(t), NEW p \in Node, NEW n \in Node
    PROVE  Ordered(PrependNode(t, p, n).tree)
<1> DEFINE u == LeaveNeighbours(t, n)
           a == AddConsolidate(u, n, NoNode, FirstChild(u, p))
           ab == AbnormalChildren(u, p)
           r == Last(ab)
<1>1. Good(u) /\ Ordered(u) /\ Ordered(a.tree)
  BY AfterMerge
<1>2. \/ PrependNode(t, p, n).tree \in {t, a.tree}
      \/ /\ n \in Normal /\ ab # <<>>
         /\ PrependNode(t, p, n) = InsertBeside(u, r, n, 0)
      \/ /\ n \in Normal /\ ab = <<>>
         /\ PrependNode(t, p, n) = CheckedPrepend(u, p, n)
  BY DEF PrependNode, MayBeChild, Err, Ok, CheckedInsertAfter
<1> HIDE DEF a, u
<1>3. CASE n \in Normal /\ ab # <<>>
  <2>1. /\ r \in Node /\ u.parent[r] = p
        /\ \A y : Precedes(u.kids[u.parent[r]], r, y) => y \in Normal
    BY <1>1, <1>3, FrontOrdered
  <2>2. u.parent[r] # NoNode
    BY <2>1, NoNodeIsNoNode
  <2> HIDE DEF r, ab
  <2>3. Ordered(InsertBeside(u, r, n, 0).tree)
    BY <1>1, <1>3, <2>1, <2>2, InsertBesideOrdered
  <2> QED
    BY <1>1, <1>2, <1>3, <2>3
<1>4. CASE n \in Normal /\ ab = <<>>
  <2>1. Range(u.kids[p]) \subseteq Normal
    BY <1>1, <1>4, FrontOrdered
  <2>2. Ordered(CheckedPrepend(u, p, n).tree)
    BY <1>1, <1>4, <2>1, CheckedPrependOrdered
  <2> QED
    BY <1>1, <1>2, <1>4, <2>2
<1> QED
  BY <1>1, <1>2, <1>3, <1>4

\* insert_after and insert_before, beside a normal reference.
LEMMA InsertOrdered ==
    ASSUME NEW t, Good(t), Ordered(t), NEW r \in Normal, NEW n \in Node
    PROVE  /\ Ordered(InsertAfter(t, r, n).tree)
           /\ Ordered(InsertBefore(t, r, n).tree)
<1> DEFINE u == LeaveNeighbours(t, n)
           a == AddConsolidate(u, n, r, NextSibling(u, r))
           b == AddConsolidate(u, n, PreviousSibling(u, r), r)
<1>1. /\ Good(u) /\ Ordered(u) /\ Ordered(a.tree) /\ Ordered(b.tree)
      /\ \A m \in Node : Live(u, m) => u.parent[m] = t.parent[m]
  BY AfterMerge
<1>2. /\ \/ InsertAfter(t, r, n).tree \in {t, u, a.tree}
         \/ /\ MayBeChild(t.parent[r], n) /\ Live(u, r)
            /\ InsertAfter(t, r, n) = InsertBeside(u, r, n, 0)
      /\ \/ InsertBefore(t, r, n).tree \in {t, u, b.tree}
         \/ /\ MayBeChild(t.parent[r], n) /\ Live(u, r)
            /\ InsertBefore(t, r, n) = InsertBeside(u, r, n, -1)
  BY DEF InsertAfter, InsertBefore, Err, Ok, Panic, CheckedInsertAfter, CheckedInsertBefore
<1> HIDE DEF a, b, u
<1>3. ASSUME MayBeChild(t.parent[r], n), Live(u, r), NEW offset \in {0, -1}
      PROVE  Ordered(InsertBeside(u, r, n, offset).tree)
  <2>1. r \in Node /\ n \in Normal
    BY <1>3 DEF Node, MayBeChild
  <2>2. u.parent[r] # NoNode
    BY <1>1, <1>3, <2>1, NoNodeIsNoNode DEF MayBeChild, Container, Node, Normal
  <2>3. \A y : Precedes(u.kids[u.parent[r]], r, y) => y \in Normal
    BY <1>1, <2>2, BehindNormal
  <2> QED
    BY <1>1, <2>1, <2>2, <2>3, InsertBesideOrdered
<1> QED
  BY <1>1, <1>2, <1>3

-----------------------------------------------------------------------------
(* The calls built from several of these. *)

\* The siblings of a normal node are normal.
LEMMA NeighbourIsNormal ==
    ASSUME NEW t, Good(t), NEW n \in Normal, NEW offset \in {1, -1},
           Neighbour(t, n, offset) # NoNode
    PROVE  /\ Neighbour(t, n, offset) \in Normal
           /\ t.parent[Neighbour(t, n, offset)] = t.parent[n]
<1> DEFINE s == t.kids[t.parent[n]]
           i == Position(t, n) + offset
<1>1. n \in Node /\ t.parent[n] # NoNode
  BY DEF Neighbour, Node
<1>2. i \in DOMAIN s /\ SameCategory(s[i], n) /\ Neighbour(t, n, offset) = s[i]
  BY <1>1 DEF Neighbour
<1>3. t.parent[n] \in Node
  BY <1>1, PositionListed DEF Container, Node, Normal
<1>4. t.parent[s[i]] = t.parent[n]
  BY <1>2, <1>3, ParentsHaveKids
<1> QED
  BY <1>2, <1>4 DEF SameCategory

\* An element dissolves into its parent when all it holds is normal.
LEMMA DissolveOrdered ==
    ASSUME NEW t, Good(t), Ordered(t), NEW n \in Elements,
           Range(t.kids[n]) \subseteq Normal
    PROVE  Ordered(Dissolve(t, n).tree)
<1> DEFINE p == t.parent[n]
           k == t.kids[n]
           i == Position(t, n)
           o == Dissolve(t, n)
<1>1. n \in Node /\ n \in Normal /\ k \in Seq(Node)
  BY DEF Node, Normal, Good, Tree
<1>2. o.tree = t \/ \A q \in Node :
          o.tree.kids[q] = IF q = n THEN <<>>
                           ELSE IF q = p THEN Splice(t.kids[q], i - 1, i, k)
                           ELSE t.kids[q]
  <2> DEFINE K == [m \in Node |->
                     IF m = n THEN <<>>
                     ELSE IF m = p THEN Splice(t.kids[m], i - 1, i, k)
                     ELSE t.kids[m]]
  <2>1. o.tree = t \/ o.tree.kids = K
    BY DEF Dissolve, Ok, Undefined
  <2> QED
    BY <2>1
<1> HIDE DEF o
<1>3. ASSUME NEW q \in Node, q = p
      PROVE  LET r == Splice(t.kids[q], i - 1, i, k)
             IN /\ \A x, y : Precedes(r, x, y) => MayPrecede(x, y)
                /\ p \in Documents => Range(r) \subseteq Normal
  <2> DEFINE s == t.kids[q]
             r == Splice(s, i - 1, i, k)
  <2>1. p # NoNode
    BY <1>3, NoNodeIsNoNode
  <2>2. s \in Seq(Node) /\ i \in 1 .. Len(s) /\ s[i] = n
    BY <1>1, <1>3, <2>1, PositionListed
  <2>3. i - 1 \in 0 .. Len(s) /\ i \in i - 1 .. Len(s)
    BY <2>2
  <2>4. \A x, y : Precedes(s, x, y) \/ Precedes(k, x, y) => MayPrecede(x, y)
    BY <1>1 DEF Ordered
  <2>5. \A y : Precedes(s, n, y) => y \in Normal
    BY <1>1, <1>3, <2>1, BehindNormal
  <2>6. p \in Documents => Range(s) \subseteq Normal
    BY <1>3 DEF Ordered
  <2> HIDE DEF s, i, k
  <2>7. ASSUME NEW x, NEW y, Precedes(r, x, y) PROVE MayPrecede(x, y)
    <3>1. \/ Precedes(s, x, y)
          \/ Precedes(k, x, y)
          \/ y \in Range(k) /\ \E l \in DOMAIN s : l <= i - 1 /\ s[l] = x
          \/ x \in Range(k) /\ \E l \in DOMAIN s : i < l /\ s[l] = y
      BY <1>1, <2>2, <2>3, <2>7, SplicePairs
    <3>2. CASE y \in Range(k)
      BY <3>2, NormalBefore DEF k
    <3>3. CASE x \in Range(k) /\ \E l \in DOMAIN s : i < l /\ s[l] = y
      <4>1. Precedes(s, n, y)
        BY <2>2, <3>3 DEF Precedes
      <4> QED
        BY <2>5, <3>3, <4>1, NormalBefore DEF k
    <3> QED
      BY <2>4, <3>1, <3>2, <3>3
  <2>8. \A x : x \in Range(r) => x \in Range(k) \/ x \in Range(s)
    <3>1. \A x : x \in Range(r) =>
            x \in Range(k) \/ \E l \in DOMAIN s : s[l] = x /\ l \notin i - 1 + 1 .. i
      BY <1>1, <2>2, <2>3, SpliceMembers
    <3> QED
      BY <3>1 DEF Range
  <2> QED
    BY <2>6, <2>7, <2>8 DEF s, k
<1>4. \A x, y : ~Precedes(<<>>, x, y)
  BY DEF Precedes
<1>5. Range(<<>>) = {}
  BY DEF Range
<1>6. CASE o.tree = t
  BY <1>6 DEF o
<1>7. CASE o.tree # t
  <2>1. ASSUME NEW q \in Node
        PROVE  /\ \A x, y : Precedes(o.tree.kids[q], x, y) => MayPrecede(x, y)
               /\ q \in Documents => Range(o.tree.kids[q]) \subseteq Normal
    <3>1. CASE q = n
      BY <1>2, <1>4, <1>5, <1>7, <3>1
    <3>2. CASE q # n /\ q = p
      BY <1>2, <1>3, <1>7, <3>2
    <3>3. CASE q # n /\ q # p
      BY <1>2, <1>7, <3>3 DEF Ordered
    <3> QED
      BY <3>1, <3>2, <3>3
  <2>2. Ordered(o.tree)
    BY <2>1 DEF Ordered
  <2> QED
    BY <2>2 DEF o
<1> QED
  BY <1>6, <1>7

\* Freeing the entries of an element leaves its normal children.
LEMMA EntriesFreed ==
    ASSUME NEW t, Good(t), Ordered(t), NEW n \in Elements
    PROVE  LET u == FreeRun(t, n, 0, Leading(t.kids[n], Abnormal))
           IN Good(u) /\ Ordered(u) /\ Range(u.kids[n]) \subseteq Normal
<1> DEFINE s == t.kids[n]
           k == Leading(s, Abnormal)
           u == FreeRun(t, n, 0, k)
           e == <<>>
<1>1. n \in Node /\ s \in Seq(Node)
  BY DEF Node, Normal, Good, Tree
<1>2. k \in 0 .. Len(s) /\ \A i \in 1 .. k : s[i] \in Abnormal
  <2> HIDE DEF s
  <2> QED
    BY <1>1, LeadingPrefix
<1>3. \A i \in DOMAIN s : k < i => s[i] \in Normal
  BY <1>1, BehindLeading
<1> HIDE DEF k
<1>4. 0 \in 0 .. Len(s) /\ \A i \in 0 + 1 .. k : s[i] \notin Container
  <2>1. Abnormal \cap Container = {}
    BY KindsAreDisjoint DEF Abnormal, Container
  <2> QED
    BY <1>1, <1>2, <2>1
<1>5. Good(u) /\ Ordered(u) /\ u.kids[n] = Splice(s, 0, k, e)
  BY <1>1, <1>2, <1>4, FreeRunGood, FreeRunThinner, ThinnerOrdered
<1>6. e \in Seq(Node) /\ \A x : x \notin Range(e)
  BY DEF Range
<1> HIDE DEF e, s, u
<1>7. \A x : x \in Range(Splice(s, 0, k, e)) =>
          x \in Range(e) \/ \E l \in DOMAIN s : s[l] = x /\ l \notin 0 + 1 .. k
  BY <1>1, <1>2, <1>4, <1>6, SpliceMembers
<1>8. \A l \in DOMAIN s : l \notin 0 + 1 .. k => k < l
  BY <1>1, <1>2
<1>9. Range(u.kids[n]) \subseteq Normal
  BY <1>3, <1>5, <1>6, <1>7, <1>8
<1> QED
  BY <1>5, <1>9 DEF u, s, k

\* remove of an element but not its content.
LEMMA RemoveElementOrdered ==
    ASSUME NEW t, Good(t), Ordered(t), NEW n \in Elements
    PROVE  Ordered(RemoveElement(t, n).tree)
  BY EntriesFreed, DissolveOrdered DEF RemoveElement

\* element_unwrap.
LEMMA ElementUnwrapOrdered ==
    ASSUME NEW t, Good(t), Ordered(t), NEW n \in Node
    PROVE  Ordered(ElementUnwrap(t, n).tree)
<1> DEFINE first == FirstChild(t, n)
           last  == LastChild(t, n)
           r     == RemoveElement(t, n)
           prev  == PreviousSibling(r.tree, first)
           next  == NextSibling(r.tree, last)
           a     == RemoveConsolidate(r.tree, prev, first)
           b     == IF a.merged /\ first = last
                    THEN RemoveConsolidate(a.tree, prev, next)
                    ELSE RemoveConsolidate(a.tree, last, NextSibling(a.tree, last))
<1>1. \/ ElementUnwrap(t, n).tree = t
      \/ ElementUnwrap(t, n) = RemoveNode(t, n)
      \/ n \in Elements /\ ElementUnwrap(t, n).tree \in {r.tree, b.tree}
  BY DEF ElementUnwrap, Ok, Err, Panic
<1>2. Ordered(RemoveNode(t, n).tree)
  BY TakeOutThinner, ThinnerOrdered
<1>3. CASE n \in Elements
  <2> DEFINE y == r.tree
             z == a.tree
  <2>1. Good(y) /\ Ordered(y)
    BY <1>3, RemoveElementOrdered, RemoveElementSound DEF Sound
  <2>2. ASSUME NEW v, Good(v), Ordered(v), NEW g, NEW h
        PROVE  LET c == RemoveConsolidate(v, g, h).tree IN Good(c) /\ Ordered(c)
    BY <2>2, RemoveConsolidateFrees, RemoveConsolidateThinner, ThinnerOrdered DEF SameBut
  <2> HIDE DEF r
  <2>3. Good(z) /\ Ordered(z)
    BY <2>1, <2>2
  <2> HIDE DEF a
  <2>4. Ordered(b.tree)
    BY <2>2, <2>3
  <2> QED
    BY <1>1, <1>2, <2>1, <2>4
<1> HIDE DEF b, r
<1> QED
  BY <1>1, <1>2, <1>3

\* element_wrap: only a normal node is wrapped, so that the wrapper goes
\* beside a normal node.
LEMMA ElementWrapOrdered ==
    ASSUME NEW t, Good(t), Ordered(t), NEW n \in Node, Live(t, n),
           NEW w \in Elements, t.phase[w] = "fresh"
    PROVE  Ordered(ElementWrap(t, n, w).tree)
<1> DEFINE p    == t.parent[n]
           prev == PreviousSibling(t, n)
           v    == NewNode(t, w)
           u    == Unlink(v, n)
           a    == AppendNode(u, w, n)
           z    == a.tree
<1>1. w \in Node
  BY DEF Node, Normal
<1>2. Good(v) /\ v.kids = t.kids /\ v.phase = [t.phase EXCEPT ![w] = "live"]
  BY <1>1, NewNodeGood
<1> HIDE DEF v
<1>3. Ordered(v)
  BY <1>2, SameKidsThinner, ThinnerOrdered
<1>4. Good(u) /\ Ordered(u) /\ u.phase = v.phase
  BY <1>2, <1>3, UnlinkGood, UnlinkThinner, ThinnerOrdered
<1>5. Live(u, w) /\ Live(u, n)
  BY <1>1, <1>2, <1>4 DEF Good, Tree, Live
<1> HIDE DEF u
<1>6. Good(z) /\ Ordered(z)
  BY <1>1, <1>4, <1>5, AppendNodeMoves, AppendNodeOrdered DEF Moved
<1>7. a.res = "ok" => n \in Normal
  BY DEF AppendNode, Err, MayBeChild
<1>8. \/ ElementWrap(t, n, w).tree \in {t, z}
      \/ /\ a.res = "ok" /\ prev # NoNode
         /\ ElementWrap(t, n, w) = InsertAfter(z, prev, w)
      \/ p # NoNode /\ ElementWrap(t, n, w) = PrependNode(z, p, w)
  BY DEF ElementWrap, Err, u, v
<1> HIDE DEF z
<1>9. CASE a.res = "ok" /\ prev # NoNode /\ ElementWrap(t, n, w) = InsertAfter(z, prev, w)
  <2>1. prev \in Normal
    BY <1>7, <1>9, NeighbourIsNormal DEF PreviousSibling
  <2> QED
    BY <1>1, <1>6, <1>9, <2>1, InsertOrdered
<1>10. CASE p # NoNode /\ ElementWrap(t, n, w) = PrependNode(z, p, w)
  <2>1. p \in Node
    BY <1>10, PositionListed DEF Container, Node, Normal
  <2> QED
    BY <1>1, <1>6, <1>10, <2>1, PrependNodeOrdered
<1> QED
  BY <1>6, <1>8, <1>9, <1>10

\* replace, of a normal node.
LEMMA ReplaceOrdered ==
    ASSUME NEW t, Good(t), Ordered(t), NEW n \in Normal, NEW m \in Node
    PROVE  Ordered(Replace(t, n, m).tree)
<1> DEFINE p    == t.parent[n]
           prev == PreviousSibling(t, n)
           u    == RemoveSubtree(t, n)
<1>1. n \in Node
  BY DEF Node
<1>2. Good(u) /\ Ordered(u)
  BY <1>1, RemoveSubtreeGood, RemoveSubtreeThinner, ThinnerOrdered
<1>3. \/ Replace(t, n, m).tree \in {t, u}
      \/ prev # NoNode /\ Replace(t, n, m) = InsertAfter(u, prev, m)
      \/ p # NoNode /\ Replace(t, n, m) = PrependNode(u, p, m)
  BY DEF Replace, Err, Panic
<1> HIDE DEF u
<1>4. CASE prev # NoNode /\ Replace(t, n, m) = InsertAfter(u, prev, m)
  <2>1. prev \in Normal
    BY <1>4, NeighbourIsNormal DEF PreviousSibling
  <2> QED
    BY <1>2, <1>4, <2>1, InsertOrdered
<1>5. CASE p # NoNode /\ Replace(t, n, m) = PrependNode(u, p, m)
  <2>1. p \in Node
    BY <1>1, <1>5, PositionListed DEF Container, Node, Normal
  <2> QED
    BY <1>2, <1>5, <2>1, PrependNodeOrdered
<1> QED
  BY <1>2, <1>3, <1>4, <1>5

-----------------------------------------------------------------------------
(* The attribute and namespace maps. *)

\* The whole of a sequence.
LEMMA WholeSeq ==
    ASSUME NEW S, NEW s \in Seq(S)
    PROVE  SubSeq(s, 1, Len(s)) = s
  OBVIOUS

\* Behind the leading namespaces there is no namespace.
LEMMA BehindNamespaces ==
    ASSUME NEW t, Good(t), Ordered(t), NEW e \in Node,
           NEW k \in DOMAIN t.kids[e], Leading(t.kids[e], Namespaces) < k
    PROVE  t.kids[e][k] \notin Namespaces
<1> DEFINE s == t.kids[e]
           l == Leading(s, Namespaces)
<1>1. s \in Seq(Node) /\ \A x, y : Precedes(s, x, y) => MayPrecede(x, y)
  BY DEF Good, Tree, Ordered
<1>2. k \in DOMAIN s /\ l < k
  OBVIOUS
<1> HIDE DEF s
<1>3. l \in 0 .. Len(s) /\ (l < Len(s) => s[l + 1] \notin Namespaces)
  BY <1>1, LeadingPrefix
<1>4. l + 1 \in DOMAIN s /\ s[l + 1] \notin Namespaces
  BY <1>1, <1>2, <1>3
<1>5. CASE k # l + 1
  <2>1. l + 1 < k
    BY <1>1, <1>2, <1>3, <1>5
  <2>2. MayPrecede(s[l + 1], s[k])
    BY <1>1, <1>2, <1>4, <2>1 DEF Precedes
  <2> QED
    BY <1>4, <2>2 DEF MayPrecede, s
<1> QED
  BY <1>4, <1>5 DEF s

\* The map of namespaces starts at the front, that of attributes where it ends.
LEMMA MapsMeet ==
    ASSUME NEW t, Good(t), NEW e \in Node
    PROVE  /\ MapStart(t, e, Namespaces) = 0
           /\ MapEnd(t, e, Namespaces) = Leading(t.kids[e], Namespaces)
           /\ Attributes # Namespaces =>
                 MapStart(t, e, Attributes) = MapEnd(t, e, Namespaces)
<1>1. MapStart(t, e, Namespaces) = 0
  BY DEF MapStart
<1> DEFINE s == t.kids[e]
<1>2. s \in Seq(Node)
  BY DEF Good, Tree
<1> HIDE DEF s
<1> DEFINE l == Leading(s, Namespaces)
<1>3. SubSeq(s, 1, Len(s)) = s /\ l \in 0 .. Len(s) /\ l \in Int
  BY <1>2, WholeSeq, LeadingPrefix
<1>4. MapEnd(t, e, Namespaces) = 0 + Leading(SubSeq(s, 0 + 1, Len(s)), Namespaces)
  BY <1>1 DEF MapEnd, s
<1>5. MapEnd(t, e, Namespaces) = l
  <2>1. 0 + 1 = 1
    OBVIOUS
  <2>2. MapEnd(t, e, Namespaces) = 0 + l
    BY <1>3, <1>4, <2>1, Zenon
  <2> HIDE DEF l
  <2> QED
    BY <1>3, <2>2
<1> QED
  BY <1>1, <1>5 DEF MapStart, s

\* A map holds every child of its category; before its end there are only
\* namespaces and entries of the map, behind it only what may follow them.
LEMMA MapHoldsAll ==
    ASSUME NEW t, Good(t), Ordered(t), NEW e \in Node, NEW K \in Maps,
           NEW k \in DOMAIN t.kids[e]
    PROVE  LET x == t.kids[e][k]
           IN /\ x \in K => k \in MapStart(t, e, K) + 1 .. MapEnd(t, e, K)
              /\ k <= MapEnd(t, e, K) => x \in Namespaces \cup K
              /\ MapEnd(t, e, K) < k => /\ x \notin Namespaces
                                        /\ K = Attributes => x \in Normal
<1> DEFINE s == t.kids[e]
           b == MapStart(t, e, K)
           c == MapEnd(t, e, K)
           l == Leading(s, Namespaces)
<1>1. s \in Seq(Node) /\ \A x, y : Precedes(s, x, y) => MayPrecede(x, y)
  BY DEF Good, Tree, Ordered
<1>2. /\ b \in 0 .. Len(s) /\ c \in b .. Len(s)
      /\ \A i \in b + 1 .. c : s[i] \in K
      /\ c < Len(s) => s[c + 1] \notin K
  BY MapIsRun
<1>3. \A i \in DOMAIN s : l < i => s[i] \notin Namespaces
  BY BehindNamespaces
<1>4. \/ K = Namespaces /\ b = 0 /\ c = l
      \/ K = Attributes /\ b = l
  BY MapsMeet DEF Maps, MapStart
<1>5. k \in DOMAIN s
  OBVIOUS
<1> HIDE DEF s, b, c
<1>6. l \in 0 .. Len(s) /\ \A i \in 1 .. l : s[i] \in Namespaces
  BY <1>1, LeadingPrefix
<1> HIDE DEF l
<1>7. k \in 1 .. Len(s) /\ s[k] \in Node
  BY <1>1, <1>5
<1>8. CASE K = Namespaces /\ b = 0 /\ c = l
  <2>1. k <= c => k \in 1 .. l
    BY <1>6, <1>7, <1>8
  <2>2. c < k => s[k] \notin Namespaces
    BY <1>3, <1>5, <1>8
  <2>3. s[k] \in K => k \in b + 1 .. c
    BY <1>6, <1>7, <1>8, <2>2
  <2>4. K = Attributes => s[k] \in Normal
    BY <1>7, <1>8, KindsAreDisjoint DEF Node, Abnormal
  <2>5. k <= c => s[k] \in Namespaces
    BY <1>6, <2>1
  <2> QED
    BY <2>2, <2>3, <2>4, <2>5 DEF s, b, c
<1>9. CASE K = Attributes /\ b = l
  <2>1. k <= c => k \in 1 .. l \/ k \in b + 1 .. c
    BY <1>2, <1>6, <1>7, <1>9
  <2>2. c < k => l < k
    BY <1>2, <1>6, <1>7, <1>9
  <2>3. ASSUME c < k PROVE s[k] \in Normal
    <3>1. c + 1 \in DOMAIN s /\ c < Len(s) /\ l < c + 1
      BY <1>1, <1>2, <1>6, <1>7, <1>9, <2>3
    <3>2. s[c + 1] \in Normal
      BY <1>1, <1>2, <1>3, <1>9, <3>1 DEF Node, Abnormal
    <3>3. CASE k = c + 1
      BY <3>2, <3>3
    <3>4. CASE k # c + 1
      <4>1. c + 1 < k
        BY <1>2, <1>7, <2>3, <3>4
      <4>2. MayPrecede(s[c + 1], s[k])
        BY <1>1, <1>5, <3>1, <4>1 DEF Precedes
      <4> QED
        BY <1>7, <3>2, <4>2, NormalBefore
    <3> QED
      BY <3>3, <3>4
  <2>4. s[k] \in K => k \in b + 1 .. c
    <3>1. s[k] \in K => ~(c < k) /\ k \notin 1 .. l
      BY <1>6, <1>9, <2>3, KindsAreDisjoint DEF Normal, Abnormal
    <3> QED
      BY <1>2, <1>6, <1>7, <1>9, <3>1
  <2> QED
    BY <1>2, <1>3, <1>5, <1>6, <1>9, <2>1, <2>2, <2>3, <2>4 DEF s, b, c
<1> QED
  BY <1>4, <1>8, <1>9

\* A new entry goes behind the last entry of its map and the namespaces.
LEMMA InsertionPointIsEnd ==
    ASSUME NEW t, Good(t), NEW e \in Node, NEW K \in Maps
    PROVE  LET c == MapEnd(t, e, K)
           IN /\ c \in 0 .. Len(t.kids[e])
              /\ InsertionPoint(t, e, K) = IF c = 0 THEN NoNode ELSE t.kids[e][c]
<1> DEFINE s == t.kids[e]
<1>1. s \in Seq(Node)
  BY DEF Good, Tree
<1>2. ASSUME NEW L \in Maps
      PROVE  LET b == MapStart(t, e, L)
                 c == MapEnd(t, e, L)
                 q == MapNodes(t, e, L)
             IN /\ b \in 0 .. Len(s) /\ c \in b .. Len(s)
                /\ q = <<>> <=> b = c
                /\ q # <<>> => Last(q) = s[c]
  <2> DEFINE b == MapStart(t, e, L)
             c == MapEnd(t, e, L)
             q == SubSeq(s, b + 1, c)
  <2>1. b \in 0 .. Len(s) /\ c \in b .. Len(s)
    BY MapIsRun
  <2>2. MapNodes(t, e, L) = q
    BY DEF MapNodes
  <2> HIDE DEF s, b, c
  <2>3. q \in Seq(Node) /\ Len(q) = c - b /\ \A i \in 1 .. c - b : q[i] = s[b + i]
    BY <1>1, <2>1
  <2> HIDE DEF q
  <2>4. q = <<>> <=> b = c
    <3>1. q = <<>> <=> Len(q) = 0
      BY <2>3
    <3> QED
      BY <1>1, <2>1, <2>3, <3>1
  <2>5. ASSUME q # <<>> PROVE Last(q) = s[c]
    <3>1. c - b \in 1 .. c - b /\ b + (c - b) = c
      BY <1>1, <2>1, <2>4, <2>5
    <3> QED
      BY <2>3, <3>1 DEF Last
  <2> QED
    BY <2>1, <2>2, <2>4, <2>5 DEF b, c
<1>3. CASE K = Namespaces
  <2>1. Namespaces \in Maps /\ MapStart(t, e, K) = 0
    BY <1>3, MapsMeet DEF Maps
  <2> HIDE DEF s
  <2>2. CASE Attributes # Namespaces
    BY <1>1, <1>2, <1>3, <2>1, <2>2 DEF InsertionPoint, s
  <2>3. CASE Attributes = Namespaces
    BY <1>1, <1>2, <1>3, <2>1, <2>3 DEF InsertionPoint, s
  <2> QED
    BY <2>2, <2>3
<1>4. CASE K = Attributes /\ K # Namespaces
  <2>1. /\ Namespaces \in Maps /\ MapStart(t, e, Namespaces) = 0
        /\ MapStart(t, e, K) = MapEnd(t, e, Namespaces)
    BY <1>4, MapsMeet DEF Maps
  <2> HIDE DEF s
  <2>2. CASE MapNodes(t, e, K) # <<>>
    BY <1>1, <1>2, <2>1, <2>2 DEF InsertionPoint, s
  <2>3. CASE MapNodes(t, e, K) = <<>>
    BY <1>1, <1>2, <1>4, <2>1, <2>3 DEF InsertionPoint, s
  <2> QED
    BY <2>2, <2>3
<1> QED
  BY <1>3, <1>4 DEF Maps

\* The entries of a map, by position.
LEMMA MapNodesAt ==
    ASSUME NEW t, Good(t), NEW e \in Node, NEW K \in Maps
    PROVE  LET b == MapStart(t, e, K)
               c == MapEnd(t, e, K)
               q == MapNodes(t, e, K)
           IN /\ q \in Seq(Node) /\ Len(q) = c - b /\ DOMAIN q = 1 .. c - b
              /\ \A i \in 1 .. c - b : q[i] = t.kids[e][b + i]
<1> DEFINE s == t.kids[e]
           b == MapStart(t, e, K)
           c == MapEnd(t, e, K)
           q == SubSeq(s, b + 1, c)
<1>1. s \in Seq(Node)
  BY DEF Good, Tree
<1>2. b \in 0 .. Len(s) /\ c \in b .. Len(s)
  BY MapIsRun
<1>3. MapNodes(t, e, K) = q
  BY DEF MapNodes
<1> HIDE DEF s, b, c
<1>4. q \in Seq(Node) /\ Len(q) = c - b /\ \A i \in 1 .. c - b : q[i] = s[b + i]
  BY <1>1, <1>2
<1> HIDE DEF q
<1>5. DOMAIN q = 1 .. c - b
  BY <1>4
<1> QED
  BY <1>3, <1>4, <1>5 DEF s, b, c

\* No child of an element has a name that the map does not find.
LEMMA NameUnused ==
    ASSUME NEW t, Good(t), Ordered(t), NEW e \in Node, NEW K \in Maps, NEW name,
           GetNode(t, e, K, name) = NoNode
    PROVE  \A x \in Range(t.kids[e]) \cap K : NameOf[x] # name
<1> DEFINE s == t.kids[e]
           b == MapStart(t, e, K)
           c == MapEnd(t, e, K)
           q == MapNodes(t, e, K)
<1> SUFFICES ASSUME NEW k \in DOMAIN s, s[k] \in K PROVE NameOf[s[k]] # name
  BY DEF Range
<1>1. s \in Seq(Node) /\ k \in b + 1 .. c
  BY MapHoldsAll DEF Good, Tree
<1>2. b \in 0 .. Len(s) /\ c \in b .. Len(s)
  BY MapIsRun
<1>3. q \in Seq(Node) /\ DOMAIN q = 1 .. c - b /\ \A i \in 1 .. c - b : q[i] = s[b + i]
  BY MapNodesAt
<1>4. \A i \in DOMAIN q : NameOf[q[i]] # name
  <2>1. \/ GetNode(t, e, K, name) = NoNode /\ ~\E i \in DOMAIN q : NameOf[q[i]] = name
        \/ \E i \in DOMAIN q : GetNode(t, e, K, name) = q[i]
    BY GetNodeFinds
  <2> HIDE DEF q
  <2>2. q \in Seq(Node)
    BY <1>3
  <2>3. \A i \in DOMAIN q : q[i] \in Node /\ q[i] # NoNode
    BY <2>2, NoNodeIsNoNode
  <2> QED
    BY <2>1, <2>3
<1> HIDE DEF s, b, c, q
<1>5. k - b \in 1 .. c - b /\ b + (k - b) = k
  BY <1>1, <1>2
<1> QED
  BY <1>3, <1>4, <1>5

\* Placing an entry under an unused name puts it at the end of the map.
LEMMA PlaceEntryPuts ==
    ASSUME NEW t, Good(t), Ordered(t), NEW e \in Elements, NEW K \in Maps, NEW a \in K,
           \A x \in Range(t.kids[e]) \cap K : NameOf[x] # NameOf[a]
    PROVE  LET u == Unlink(t, a)
           IN /\ u.kids[e] = t.kids[e]
              /\ PlaceEntry(t, e, K, a) = Ok(Link(u, e, MapEnd(t, e, K), a))
<1> DEFINE s == t.kids[e]
           c == MapEnd(t, e, K)
           at == InsertionPoint(t, e, K)
           u == Unlink(t, a)
           f == Link(u, e, c, a)
<1>1. /\ e \in Node /\ a \in Node \ Container /\ a # e
      /\ e \in Container /\ s \in Seq(Node) /\ IsInjective(s)
  BY KindsAreDisjoint DEF Node, Normal, Abnormal, Container, Maps, Good, Tree, Forest, KidsAgree
<1>2. c \in 0 .. Len(s) /\ at = IF c = 0 THEN NoNode ELSE s[c]
  BY <1>1, InsertionPointIsEnd
<1>3. a \notin Range(s) /\ t.parent[a] # e
  BY <1>1 DEF Good, Forest, KidsAgree
<1>4. u.kids[e] = s
  BY <1>1, <1>3, UnlinkKids
<1>5. \A x : a \notin Ancestors(t, x)
  BY <1>1 DEF Ancestors
<1>6. Good(u) /\ u.parent = [t.parent EXCEPT ![a] = NoNode]
  BY <1>1, UnlinkGood
<1> HIDE DEF c, at
<1>7. CASE c = 0
  <2>1. CheckedPrepend(t, e, a) = Ok(f)
    BY <1>1, <1>5, <1>7 DEF CheckedPrepend, AncestorsOrSelf
  <2>2. PlaceEntry(t, e, K, a) = Ok(f)
    BY <1>2, <1>7, <2>1 DEF PlaceEntry, Unwrapped, Ok, at
  <2> QED
    BY <1>4, <2>2 DEF c
<1>8. CASE c # 0
  <2>1. c \in DOMAIN s /\ at = s[c]
    BY <1>1, <1>2, <1>8
  <2>2. at \in Node /\ t.parent[at] = e /\ at # a /\ at # NoNode
    BY <1>1, <1>3, <2>1, ParentsHaveKids, NoNodeIsNoNode
  <2>3. u.parent[at] = e
    BY <1>1, <1>6, <2>2 DEF Good, Tree
  <2> HIDE DEF u, s
  <2>4. Position(u, at) \in DOMAIN s /\ s[Position(u, at)] = at
    <3>1. u.parent[at] # NoNode /\ u.kids[u.parent[at]] = s
      BY <1>1, <1>4, <2>3, NoNodeIsNoNode
    <3>2. Position(u, at) \in 1 .. Len(s) /\ s[Position(u, at)] = at
      BY <1>6, <2>2, <3>1, PositionListed
    <3> QED
      BY <1>1, <3>2
  <2>5. Position(u, at) = c
    BY <1>1, <2>1, <2>4 DEF IsInjective
  <2>6. Position(u, at) + 0 = c
    BY <1>2, <2>5
  <2>7. CheckedInsertAfter(t, at, a) = Ok(f)
    BY <1>5, <2>2, <2>3, <2>6 DEF CheckedInsertAfter, InsertBeside, u
  <2>8. PlaceEntry(t, e, K, a) = Ok(f)
    BY <2>2, <2>7 DEF PlaceEntry, Unwrapped, Ok, at
  <2> QED
    BY <1>4, <2>8 DEF c, u, s
<1> QED
  BY <1>7, <1>8

\* An entry of an unused name is placed in order.
LEMMA PlaceEntryOrdered ==
    ASSUME NEW t, Good(t), Ordered(t), NEW e \in Elements, NEW K \in Maps, NEW a \in K,
           GetNode(t, e, K, NameOf[a]) = NoNode
    PROVE  Ordered(PlaceEntry(t, e, K, a).tree) /\ PlaceEntry(t, e, K, a).res = "ok"
<1> DEFINE u == Unlink(t, a)
           s == t.kids[e]
           c == MapEnd(t, e, K)
           f == Link(u, e, c, a)
<1>1. e \in Node /\ a \in Node /\ a \in Abnormal /\ e \notin Documents
  BY KindsAreDisjoint DEF Node, Normal, Abnormal, Maps
<1>2. \A x \in Range(s) \cap K : NameOf[x] # NameOf[a]
  BY <1>1, NameUnused
<1>3. u.kids[e] = s /\ PlaceEntry(t, e, K, a) = Ok(f)
  BY <1>2, PlaceEntryPuts
<1>4. Good(u) /\ Ordered(u)
  BY <1>1, UnlinkGood, UnlinkThinner, ThinnerOrdered
<1>5. c \in 0 .. Len(s) /\ s \in Seq(Node)
  BY <1>1, InsertionPointIsEnd DEF Good, Tree
<1>6. \A k \in DOMAIN s :
         /\ k <= c => s[k] \in Namespaces \cup K
         /\ c < k => s[k] \notin Namespaces /\ (K = Attributes => s[k] \in Normal)
  BY <1>1, MapHoldsAll
<1> HIDE DEF u, s, c
<1>7. ASSUME NEW k \in DOMAIN s
      PROVE  (k <= c => MayPrecede(s[k], a)) /\ (c < k => MayPrecede(a, s[k]))
  <2>1. \A L \in Maps : a \in L => L = K
    BY KindsAreDisjoint DEF Maps
  <2>2. s[k] \in K => NameOf[s[k]] # NameOf[a]
    BY <1>2 DEF Range
  <2>3. ASSUME k <= c PROVE MayPrecede(s[k], a)
    BY <1>6, <2>1, <2>2, <2>3 DEF MayPrecede, Abnormal, Maps
  <2>4. ASSUME c < k PROVE MayPrecede(a, s[k])
    <3>1. s[k] \notin Namespaces /\ (K = Attributes => s[k] \notin Attributes)
      BY <1>6, <2>4, KindsAreDisjoint DEF Normal, Abnormal
    <3> QED
      BY <1>1, <2>1, <2>2, <3>1 DEF MayPrecede
  <2> QED
    BY <2>3, <2>4
<1>8. Ordered(f)
  BY <1>1, <1>3, <1>4, <1>5, <1>7, LinkOrdered
<1> QED
  BY <1>3, <1>8 DEF Ok

\* insert_node and insert.
LEMMA InsertOrderedEntry ==
    ASSUME NEW t, Good(t), Ordered(t), NEW e \in Elements, NEW K \in Maps, NEW a \in K
    PROVE  /\ Ordered(InsertNode(t, e, K, a).tree) /\ InsertNode(t, e, K, a).res = "ok"
           /\ Ordered(InsertEntry(t, e, K, a).tree) /\ InsertEntry(t, e, K, a).res = "ok"
<1> DEFINE old == GetNode(t, e, K, NameOf[a])
           v == NewNode(t, a)
<1>1. e \in Node /\ a \in Node
  BY DEF Node, Normal, Abnormal, Maps
<1>2. CASE old # NoNode
  <2>1. /\ InsertNode(t, e, K, a) = Ok([t EXCEPT !.value[old] = t.value[a]])
        /\ InsertEntry(t, e, K, a) = Ok([t EXCEPT !.value[old] = <<a>>])
    BY <1>2 DEF InsertNode, InsertEntry
  <2>2. InsertNode(t, e, K, a).tree.kids = t.kids /\ InsertEntry(t, e, K, a).tree.kids = t.kids
    BY <2>1 DEF Ok, Good, Tree
  <2> QED
    BY <2>1, <2>2 DEF Ok, Ordered
<1>3. CASE old = NoNode
  <2>1. /\ InsertNode(t, e, K, a) = PlaceEntry(t, e, K, a)
        /\ InsertEntry(t, e, K, a) = PlaceEntry(v, e, K, a)
    BY <1>3 DEF InsertNode, InsertEntry
  <2>2. Good(v) /\ v.kids = t.kids
    BY <1>1, NewNodeGood
  <2>3. GetNode(v, e, K, NameOf[a]) = old
    BY <2>2 DEF GetNode, MapNodes, MapStart, MapEnd
  <2> HIDE DEF v
  <2>4. Ordered(v)
    BY <2>2 DEF Ordered
  <2> QED
    BY <1>3, <2>1, <2>2, <2>3, <2>4, PlaceEntryOrdered
<1> QED
  BY <1>2, <1>3

\* any_append.
LEMMA AnyAppendOrdered ==
    ASSUME NEW t, Good(t), Ordered(t), NEW p \in Node, NEW n \in Node
    PROVE  Ordered(AnyAppend(t, p, n).tree)
<1>1. ASSUME NEW K \in Maps, n \in K PROVE Ordered(AppendEntryNode(t, p, K, n).tree)
  <2>1. CASE p \notin Elements
    BY <2>1 DEF AppendEntryNode, Err
  <2>2. CASE p \in Elements
    BY <1>1, <2>2, InsertOrderedEntry DEF AppendEntryNode
  <2> QED
    BY <2>1, <2>2
<1>2. Attributes \in Maps /\ Namespaces \in Maps
  BY DEF Maps
<1> QED
  BY <1>1, <1>2, AppendNodeOrdered DEF AnyAppend

\* clear.
LEMMA ClearMapOrdered ==
    ASSUME NEW t, Good(t), Ordered(t), NEW e \in Elements, NEW K \in Maps
    PROVE  Ordered(ClearMap(t, e, K).tree)
<1>1. e \in Node
  BY DEF Node, Normal
<1>2. /\ MapStart(t, e, K) \in 0 .. Len(t.kids[e])
      /\ MapEnd(t, e, K) \in MapStart(t, e, K) .. Len(t.kids[e])
  BY <1>1, MapIsRun
<1> QED
  BY <1>1, <1>2, FreeRunThinner, ThinnerOrdered DEF ClearMap, Ok

-----------------------------------------------------------------------------
(* The specification. *)

OrderInv == Inv /\ Ordered(tree)

\* A step that takes one call of a good, ordered tree to an ordered one.
LEMMA CallOrdered ==
    ASSUME NEW o, Call(o), Ordered(o.tree)
    PROVE  Ordered(tree')
  BY DEF Call

\* Allocating a fresh handle disturbs no order.
LEMMA FreshOrdered ==
    ASSUME OrderInv, NEW n \in Node
    PROVE  Good(NewNode(tree, n)) /\ Ordered(NewNode(tree, n))
<1>1. Good(NewNode(tree, n)) /\ NewNode(tree, n).kids = tree.kids
  BY NewNodeGood DEF OrderInv, Inv
<1> QED
  BY <1>1 DEF OrderInv, Ordered

\* Every call of a careful caller keeps the children in order.
LEMMA NextOrdered ==
    ASSUME ~AnyCall, OrderInv, Next
    PROVE  Ordered(tree')
<1> USE DEF OrderInv, Inv
<1>1. LiveNodes \subseteq Node /\ \A n \in LiveNodes : Live(tree, n)
  BY DEF LiveNodes
<1>2. CASE New
  <2>1. PICK n \in Node : Call(Ok(NewNode(tree, n)))
    BY <1>2 DEF New
  <2> QED
    BY <2>1, FreshOrdered, CallOrdered DEF Ok
<1>3. CASE AppendNew
  <2>1. PICK p \in LiveNodes, n \in Node : Call(AnyAppend(NewNode(tree, n), p, n))
    BY <1>3 DEF AppendNew
  <2> QED
    BY <1>1, <2>1, FreshOrdered, AnyAppendOrdered, CallOrdered
<1>4. CASE NewDocumentWithElement
  <2>1. PICK d \in Documents, e \in LiveNodes :
            Call(AppendNode(NewNode(tree, d), d, e)) \/ Call(Err(tree))
    BY <1>4 DEF NewDocumentWithElement
  <2>2. d \in Node
    BY DEF Node, Normal
  <2>3. Ordered(AppendNode(NewNode(tree, d), d, e).tree) /\ Ordered(Err(tree).tree)
    BY <1>1, <2>2, FreshOrdered, AppendNodeOrdered DEF Err
  <2> QED
    BY <2>1, <2>3, CallOrdered
<1>5. CASE CallAppend
  <2>1. PICK p \in LiveNodes, n \in LiveNodes : Call(AnyAppend(tree, p, n))
    BY <1>5 DEF CallAppend
  <2> QED
    BY <1>1, <2>1, AnyAppendOrdered, CallOrdered
<1>6. CASE CallPrepend
  <2>1. PICK p \in LiveNodes, n \in LiveNodes : Call(PrependNode(tree, p, n))
    BY <1>6 DEF CallPrepend
  <2> QED
    BY <1>1, <2>1, PrependNodeOrdered, CallOrdered
<1>7. CASE CallInsertAfter
  <2>1. PICK r \in LiveNodes, n \in LiveNodes :
            CarefulBeside(tree, r, n) /\ Call(InsertAfter(tree, r, n))
    BY <1>7 DEF CallInsertAfter
  <2> QED
    BY <1>1, <2>1, InsertOrdered, CallOrdered DEF CarefulBeside
<1>8. CASE CallInsertBefore
  <2>1. PICK r \in LiveNodes, n \in LiveNodes :
            CarefulBeside(tree, r, n) /\ Call(InsertBefore(tree, r, n))
    BY <1>8 DEF CallInsertBefore
  <2> QED
    BY <1>1, <2>1, InsertOrdered, CallOrdered DEF CarefulBeside
<1>9. CASE CallDetach \/ CallRemove
  <2>1. PICK n \in LiveNodes :
            Call(DetachNode(tree, n)) \/ Call(RemoveNode(tree, n))
    BY <1>9 DEF CallDetach, CallRemove
  <2>2. Ordered(DetachNode(tree, n).tree) /\ Ordered(RemoveNode(tree, n).tree)
    BY <1>1, TakeOutThinner, ThinnerOrdered
  <2> QED
    BY <2>1, <2>2, CallOrdered
<1>10. CASE CallElementUnwrap
  <2>1. PICK n \in LiveNodes : Call(ElementUnwrap(tree, n))
    BY <1>10 DEF CallElementUnwrap
  <2> QED
    BY <1>1, <2>1, ElementUnwrapOrdered, CallOrdered
<1>11. CASE CallElementWrap
  <2>1. PICK n \in LiveNodes, w \in Elements : Fresh(w) /\ Call(ElementWrap(tree, n, w))
    BY <1>11 DEF CallElementWrap
  <2> QED
    BY <1>1, <2>1, ElementWrapOrdered, CallOrdered DEF Fresh
<1>12. CASE CallReplace
  <2>1. PICK n \in LiveNodes, m \in LiveNodes :
            CarefulReplace(tree, n, m) /\ Call(Replace(tree, n, m))
    BY <1>12 DEF CallReplace
  <2> QED
    BY <1>1, <2>1, ReplaceOrdered, CallOrdered DEF CarefulReplace
<1>13. CASE CallInsertEntry
  <2>1. PICK e \in LiveNodes \cap Elements, a \in Abnormal, K \in Maps :
            a \in K /\ Call(InsertEntry(tree, e, K, a))
    BY <1>13 DEF CallInsertEntry, Maps
  <2> QED
    BY <2>1, InsertOrderedEntry, CallOrdered
<1>14. CASE CallRemoveEntry
  <2>1. PICK e \in LiveNodes \cap Elements, a \in Abnormal, K \in Maps :
            Call(RemoveEntry(tree, e, K, NameOf[a]))
    BY <1>14 DEF CallRemoveEntry, Maps
  <2> DEFINE old == GetNode(tree, e, K, NameOf[a])
  <2>2. old \in Node \cup {NoNode}
    BY <1>1, <2>1, GetNodeIsNode
  <2>3. RemoveEntry(tree, e, K, NameOf[a]) =
            IF old = NoNode THEN Ok(tree) ELSE RemoveNode(tree, old)
    BY DEF RemoveEntry
  <2> HIDE DEF old
  <2>4. Ordered(RemoveEntry(tree, e, K, NameOf[a]).tree)
    BY <2>2, <2>3, TakeOutThinner, ThinnerOrdered DEF Ok
  <2> QED
    BY <2>1, <2>4, CallOrdered
<1>15. CASE CallClear
  <2>1. PICK e \in LiveNodes \cap Elements, K \in Maps : Call(ClearMap(tree, e, K))
    BY <1>15 DEF CallClear, Maps
  <2> QED
    BY <2>1, ClearMapOrdered, CallOrdered
<1>16. CASE SetTextConsolidation
  <2>1. PICK b \in BOOLEAN : Call(Ok([tree EXCEPT !.consolidate = b]))
    BY <1>16 DEF SetTextConsolidation
  <2> DEFINE t == [tree EXCEPT !.consolidate = b]
  <2>2. t.kids = tree.kids
    BY DEF Good, Tree
  <2>3. Ordered(Ok(t).tree)
    BY <2>2 DEF Ok, Ordered
  <2> QED
    BY <2>1, <2>3, CallOrdered
<1> QED
  BY <1>2, <1>3, <1>4, <1>5, <1>6, <1>7, <1>8, <1>9, <1>10, <1>11, <1>12, <1>13,
     <1>14, <1>15, <1>16 DEF Next

\* The empty arena is in order.
LEMMA InitOrdered == Init => OrderInv
<1>1. Range(<<>>) = {} /\ \A x, y : ~Precedes(<<>>, x, y)
  BY DEF Range, Precedes
<1> QED
  BY <1>1, InitInv DEF Init, OrderInv, Ordered

\* In calls of careful callers the order is kept with the type and the forest.
LEMMA OrderInvariance ==
    ASSUME ~AnyCall
    PROVE  Spec => []OrderInv
<1>1. OrderInv /\ [Next]_vars => OrderInv'
  <2>1. ASSUME OrderInv, Next PROVE OrderInv'
    BY <2>1, NextKeeps, NextOrdered DEF OrderInv
  <2>2. ASSUME OrderInv, UNCHANGED vars PROVE OrderInv'
    BY <2>2 DEF OrderInv, Inv, vars
  <2> QED
    BY <2>1, <2>2
<1> QED
  BY InitOrdered, <1>1, PTL DEF Spec

\* A tree in order has its entries in order.
LEMMA OrderedEntries == OrderInv => EntriesInOrder
<1> SUFFICES ASSUME OrderInv PROVE CategoryOrder /\ UniqueNames
  BY DEF EntriesInOrder
<1>1. ASSUME NEW p \in Node
      PROVE  /\ tree.kids[p] \in Seq(Node)
             /\ p \in Documents => \A i \in DOMAIN tree.kids[p] : tree.kids[p][i] \in Normal
             /\ \A i, j \in DOMAIN tree.kids[p] :
                   i < j => MayPrecede(tree.kids[p][i], tree.kids[p][j])
  BY DEF OrderInv, Inv, Good, Tree, Ordered, Precedes, Range
<1>2. CategoryOrder
  BY <1>1 DEF CategoryOrder, MayPrecede
<1>3. UniqueNames
  <2> SUFFICES ASSUME NEW p \in Node, NEW i \in DOMAIN tree.kids[p],
                      NEW j \in DOMAIN tree.kids[p],
                      tree.kids[p][i] \in Abnormal, tree.kids[p][j] \in Abnormal,
                      SameCategory(tree.kids[p][i], tree.kids[p][j]),
                      NameOf[tree.kids[p][i]] = NameOf[tree.kids[p][j]]
               PROVE  i = j
    BY DEF UniqueNames
  <2>1. PICK K \in Maps : tree.kids[p][i] \in K /\ tree.kids[p][j] \in K
    BY DEF Maps, Abnormal, SameCategory
  <2>2. ~MayPrecede(tree.kids[p][i], tree.kids[p][j]) /\ ~MayPrecede(tree.kids[p][j], tree.kids[p][i])
    BY <2>1 DEF MayPrecede
  <2>3. i \in Int /\ j \in Int /\ ~(i < j) /\ ~(j < i)
    BY <1>1, <2>2
  <2> QED
    BY <2>3
<1> QED
  BY <1>2, <1>3

\* Whatever nodes careful callers move into an element, its namespaces come
\* before its attributes and these before its content, no name is there twice,
\* and a document has neither: every look-up in a map finds what is there.
THEOREM EntriesSorted ==
    ASSUME ~AnyCall
    PROVE  Spec => []EntriesInOrder
  BY OrderInvariance, OrderedEntries, PTL

-----------------------------------------------------------------------------
(* Refused moves. *)

\* A move that ends in an error has done no more than merge the neighbours of
\* the node: the structure check comes before, and a cycle is found after it.
LEMMA RefusedMoves ==
    ASSUME NEW t, Good(t), NEW r \in Node, NEW n \in Node,
           NEW o \in {AppendNode(t, r, n), PrependNode(t, r, n),
                      InsertAfter(t, r, n), InsertBefore(t, r, n)},
           o.res = "err"
    PROVE  o.tree \in {t, LeaveNeighbours(t, n)}
<1> DEFINE u == LeaveNeighbours(t, n)
<1>1. /\ \A p : LET c == CheckedAppend(u, p, n) IN c.res = "err" => c.tree = u
      /\ \A p : LET c == CheckedPrepend(u, p, n) IN c.res = "err" => c.tree = u
      /\ \A x : LET c == CheckedInsertAfter(u, x, n) IN c.res = "err" => c.tree = u
      /\ \A x : LET c == CheckedInsertBefore(u, x, n) IN c.res = "err" => c.tree = u
  BY DEF CheckedAppend, CheckedPrepend, CheckedInsertAfter, CheckedInsertBefore,
         InsertBeside, Ok, Err, Undefined
<1> HIDE DEF u
<1>2. CASE o = AppendNode(t, r, n)
  BY <1>1, <1>2 DEF AppendNode, Ok, Err, u
<1>3. CASE o = PrependNode(t, r, n)
  BY <1>1, <1>3 DEF PrependNode, Ok, Err, u
<1>4. CASE o = InsertAfter(t, r, n)
  BY <1>1, <1>4 DEF InsertAfter, Ok, Err, Panic, u
<1>5. CASE o = InsertBefore(t, r, n)
  BY <1>1, <1>5 DEF InsertBefore, Ok, Err, Panic, u
<1> QED
  BY <1>2, <1>3, <1>4, <1>5 DEF u

\* A refused move, careful or not, has displaced no node that is still there,
\* though it may have merged texts beside the node.
THEOREM RefusedMovesDisplaceNothing == Spec => []RefusedMovesKeepPlaces
<1>1. Inv => RefusedMovesKeepPlaces
  <2> SUFFICES ASSUME Inv, NEW r \in LiveNormal(tree), NEW n \in LiveNormal(tree),
                      NEW o \in {AppendNode(tree, r, n), PrependNode(tree, r, n),
                                 InsertAfter(tree, r, n), InsertBefore(tree, r, n)},
                      o.res = "err", NEW m \in Node, Live(o.tree, m)
               PROVE  o.tree.parent[m] = tree.parent[m]
    BY DEF RefusedMovesKeepPlaces
  <2>1. Good(tree) /\ r \in Node /\ n \in Node
    BY DEF Inv, LiveNormal, Node
  <2>2. o.tree \in {tree, LeaveNeighbours(tree, n)}
    BY <2>1, RefusedMoves
  <2>3. SameBut(tree, LeaveNeighbours(tree, n), NextSibling(tree, n))
    BY <2>1, LeaveNeighboursKeeps
  <2> QED
    BY <2>2, <2>3 DEF SameBut, Live
<1> QED
  BY <1>1, Invariance, PTL

-----------------------------------------------------------------------------
(* What a reader of the maps sees. *)

\* r is s without the members behind the first i, up to j.
IsCut(r, s, i, j) ==
    /\ Len(r) = Len(s) - (j - i)
    /\ \A k \in 1 .. Len(r) : r[k] = IF k <= i THEN s[k] ELSE s[k + (j - i)]

LEMMA CutAt ==
    ASSUME NEW S, NEW s \in Seq(S), NEW i \in 0 .. Len(s), NEW j \in i .. Len(s)
    PROVE  Splice(s, i, j, <<>>) \in Seq(S) /\ IsCut(Splice(s, i, j, <<>>), s, i, j)
<1>0. PICK q : q = <<>>
  OBVIOUS
<1> DEFINE r == Splice(s, i, j, q)
<1>1. Len(q) = 0 /\ Len(s) \in Nat
  BY <1>0
<1>q. q \in Seq(S)
  BY <1>0
<1>2. /\ r \in Seq(S) /\ Len(r) = i + Len(q) + (Len(s) - j)
      /\ \A k \in 1 .. i : r[k] = s[k]
      /\ \A k \in j + 1 .. Len(s) : r[k - j + i + Len(q)] = s[k]
  <2>1. r \in Seq(S) /\ Len(r) = i + Len(q) + (Len(s) - j)
    BY <1>q, SpliceShifts
  <2>2. ASSUME NEW k \in 1 .. i PROVE r[k] = s[k]
    BY <1>q, SpliceShifts
  <2>3. ASSUME NEW k \in j + 1 .. Len(s) PROVE r[k - j + i + Len(q)] = s[k]
    BY <1>q, SpliceShifts
  <2> QED
    BY <2>1, <2>2, <2>3
<1> HIDE DEF r
<1>3. ASSUME NEW k \in 1 .. Len(r)
      PROVE  r[k] = IF k <= i THEN s[k] ELSE s[k + (j - i)]
  <2>1. CASE k <= i
    <3>1. k \in 1 .. i
      BY <1>2, <2>1
    <3> QED
      BY <1>2, <2>1, <3>1
  <2>2. CASE ~(k <= i)
    <3> DEFINE m == k + (j - i)
    <3>1. m \in j + 1 .. Len(s) /\ m - j + i + Len(q) = k
      BY <1>1, <1>2, <2>2
    <3>2. r[m - j + i + Len(q)] = s[m]
      BY <1>2, <3>1
    <3> QED
      BY <2>2, <3>1, <3>2
  <2> QED
    BY <2>1, <2>2
<1>4. Len(r) = Len(s) - (j - i)
  BY <1>1, <1>2
<1> QED
  BY <1>0, <1>2, <1>3, <1>4 DEF IsCut, r

\* r is s with n put in behind the first i members.
IsPut(r, s, i, n) ==
    /\ Len(r) = Len(s) + 1
    /\ \A k \in 1 .. Len(r) : /\ k <= i => r[k] = s[k]
                              /\ k = i + 1 => r[k] = n
                              /\ i + 1 < k => r[k] = s[k - 1]

LEMMA PutAt ==
    ASSUME NEW S, NEW s \in Seq(S), NEW i \in 0 .. Len(s), NEW n \in S
    PROVE  Splice(s, i, i, <<n>>) \in Seq(S) /\ IsPut(Splice(s, i, i, <<n>>), s, i, n)
<1>0. PICK q : q = <<n>>
  OBVIOUS
<1>i. PICK j \in i .. Len(s) : j = i
  OBVIOUS
<1> DEFINE r == Splice(s, i, j, q)
<1>1. Len(q) = 1 /\ q[1] = n /\ Len(s) \in Nat
  BY <1>0
<1>q. q \in Seq(S)
  BY <1>0
<1>2. /\ r \in Seq(S) /\ Len(r) = i + Len(q) + (Len(s) - j)
      /\ \A k \in 1 .. i : r[k] = s[k]
      /\ \A k \in 1 .. Len(q) : r[i + k] = q[k]
      /\ \A k \in j + 1 .. Len(s) : r[k - j + i + Len(q)] = s[k]
  <2>1. r \in Seq(S) /\ Len(r) = i + Len(q) + (Len(s) - j)
    BY <1>q, SpliceShifts
  <2>2. ASSUME NEW k \in 1 .. i PROVE r[k] = s[k]
    BY <1>q, SpliceShifts
  <2>3. ASSUME NEW k \in 1 .. Len(q) PROVE r[i + k] = q[k]
    BY <1>q, SpliceShifts
  <2>4. ASSUME NEW k \in j + 1 .. Len(s) PROVE r[k - j + i + Len(q)] = s[k]
    BY <1>q, SpliceShifts
  <2> QED
    BY <2>1, <2>2, <2>3, <2>4
<1>3. r[i + 1] = n
  BY <1>1, <1>2
<1> HIDE DEF r
<1>4. ASSUME NEW k \in 1 .. Len(r)
      PROVE  /\ k <= i => r[k] = s[k]
             /\ k = i + 1 => r[k] = n
             /\ i + 1 < k => r[k] = s[k - 1]
  <2>1. CASE k <= i
    <3>1. k \in 1 .. i
      BY <1>2, <2>1
    <3> QED
      BY <1>2, <2>1, <3>1
  <2>2. CASE k = i + 1
    BY <1>1, <1>3, <2>2
  <2>3. CASE ~(k <= i) /\ k # i + 1
    <3> DEFINE m == k - 1
    <3>1. m \in j + 1 .. Len(s) /\ m - j + i + Len(q) = k
      BY <1>1, <1>2, <1>i, <2>3
    <3>2. r[m - j + i + Len(q)] = s[m]
      BY <1>2, <3>1
    <3> QED
      BY <2>3, <3>1, <3>2
  <2> QED
    BY <2>1, <2>2, <2>3
<1>5. Len(r) = Len(s) + 1
  BY <1>1, <1>2, <1>i
<1> QED
  BY <1>0, <1>i, <1>2, <1>4, <1>5 DEF IsPut, r

\* The first i members are namespaces, those up to j attributes, the rest content.
Parted(s, i, j) ==
    /\ i \in 0 .. Len(s) /\ j \in i .. Len(s)
    /\ \A k \in 1 .. Len(s) : /\ k <= i => s[k] \in Namespaces
                              /\ i < k /\ k <= j => s[k] \in Attributes
                              /\ j < k => s[k] \in Normal

LEMMA PartedHere ==
    ASSUME NEW t, Good(t), Ordered(t), NEW e \in Node, Attributes # Namespaces
    PROVE  /\ Parted(t.kids[e], MapEnd(t, e, Namespaces), MapEnd(t, e, Attributes))
           /\ MapStart(t, e, Attributes) = MapEnd(t, e, Namespaces)
           /\ MapStart(t, e, Namespaces) = 0
<1> DEFINE s == t.kids[e]
           i == MapEnd(t, e, Namespaces)
           j == MapEnd(t, e, Attributes)
<1>1. Namespaces \in Maps /\ Attributes \in Maps
  BY DEF Maps
<1>2. MapStart(t, e, Namespaces) = 0 /\ MapStart(t, e, Attributes) = i
  BY MapsMeet
<1>3. /\ i \in 0 .. Len(s)
      /\ j \in i .. Len(s) /\ \A k \in i + 1 .. j : s[k] \in Attributes
  BY <1>1, <1>2, MapIsRun
<1>4. s \in Seq(Node)
  BY DEF Good, Tree
<1>5. \A k \in DOMAIN s : /\ k <= i => s[k] \in Namespaces \cup Namespaces
                          /\ j < k => s[k] \in Normal
  BY <1>1, MapHoldsAll
<1> HIDE DEF i, j, s
<1>6. Parted(s, i, j)
  BY <1>3, <1>4, <1>5 DEF Parted
<1> QED
  BY <1>2, <1>6 DEF i, j, s

LEMMA PartedOnce ==
    ASSUME NEW t, Good(t), NEW e \in Node, Attributes # Namespaces,
           NEW i, NEW j, Parted(t.kids[e], i, j)
    PROVE  /\ MapStart(t, e, Namespaces) = 0 /\ MapEnd(t, e, Namespaces) = i
           /\ MapStart(t, e, Attributes) = i /\ MapEnd(t, e, Attributes) = j
           /\ Leading(t.kids[e], Abnormal) = j
<1> DEFINE s == t.kids[e]
           l == Leading(s, Namespaces)
           c == MapEnd(t, e, Attributes)
           m == Leading(s, Abnormal)
<1>1. s \in Seq(Node)
  BY DEF Good, Tree
<1>2. MapStart(t, e, Namespaces) = 0 /\ MapEnd(t, e, Namespaces) = l
      /\ MapStart(t, e, Attributes) = l
  BY MapsMeet
<1>3. /\ l \in 0 .. Len(s) /\ \A k \in 1 .. l : s[k] \in Namespaces
      /\ l < Len(s) => s[l + 1] \notin Namespaces
      /\ m \in 0 .. Len(s) /\ \A k \in 1 .. m : s[k] \in Abnormal
      /\ m < Len(s) => s[m + 1] \notin Abnormal
  BY <1>1, LeadingPrefix
<1>4. /\ c \in l .. Len(s) /\ \A k \in l + 1 .. c : s[k] \in Attributes
      /\ c < Len(s) => s[c + 1] \notin Attributes
  BY <1>2, MapIsRun DEF Maps
<1>5. /\ i \in 0 .. Len(s) /\ j \in i .. Len(s)
      /\ \A k \in 1 .. Len(s) : /\ k <= i => s[k] \in Namespaces
                                /\ i < k /\ k <= j => s[k] \in Attributes
                                /\ j < k => s[k] \in Normal
  BY DEF Parted
<1>6. /\ \A x \in Attributes : x \notin Namespaces /\ x \in Abnormal
      /\ \A x \in Normal : x \notin Abnormal /\ x \notin Namespaces /\ x \notin Attributes
      /\ \A x \in Namespaces : x \in Abnormal
  BY KindsAreDisjoint DEF Normal, Abnormal
<1> HIDE DEF s, l, c, m
<1>7. l = i
  <2>1. ~(l < i)
    <3> SUFFICES ASSUME l < i PROVE FALSE
      OBVIOUS
    <3>1. l + 1 \in 1 .. Len(s) /\ l + 1 <= i /\ l < Len(s)
      BY <1>3, <1>5
    <3> QED
      BY <1>3, <1>5, <3>1
  <2>2. ~(i < l)
    <3> SUFFICES ASSUME i < l PROVE FALSE
      OBVIOUS
    <3>1. i + 1 \in 1 .. Len(s) /\ i < i + 1 /\ i + 1 \in 1 .. l /\ (i + 1 <= j \/ j < i + 1)
      BY <1>3, <1>5
    <3>2. s[i + 1] \in Namespaces
      BY <1>3, <3>1
    <3>3. s[i + 1] \in Attributes \/ s[i + 1] \in Normal
      BY <1>5, <3>1
    <3> QED
      BY <1>6, <3>2, <3>3
  <2> QED
    BY <1>3, <1>5, <2>1, <2>2
<1>8. c = j
  <2>1. ~(c < j)
    <3> SUFFICES ASSUME c < j PROVE FALSE
      OBVIOUS
    <3>1. c + 1 \in 1 .. Len(s) /\ c + 1 <= j /\ i < c + 1 /\ c < Len(s)
      BY <1>3, <1>4, <1>5, <1>7
    <3> QED
      BY <1>4, <1>5, <3>1
  <2>2. ~(j < c)
    <3> SUFFICES ASSUME j < c PROVE FALSE
      OBVIOUS
    <3>1. j + 1 \in 1 .. Len(s) /\ j < j + 1 /\ j + 1 \in l + 1 .. c
      BY <1>3, <1>4, <1>5, <1>7
    <3>2. s[j + 1] \in Attributes /\ s[j + 1] \in Normal
      BY <1>4, <1>5, <3>1
    <3> QED
      BY <1>6, <3>2
  <2> QED
    BY <1>3, <1>4, <1>5, <2>1, <2>2
<1>9. m = j
  <2>1. ~(m < j)
    <3> SUFFICES ASSUME m < j PROVE FALSE
      OBVIOUS
    <3>1. m + 1 \in 1 .. Len(s) /\ m + 1 <= j /\ (m + 1 <= i \/ i < m + 1) /\ m < Len(s)
      BY <1>3, <1>5
    <3>2. s[m + 1] \notin Abnormal
      BY <1>3, <3>1
    <3>3. s[m + 1] \in Namespaces \/ s[m + 1] \in Attributes
      BY <1>5, <3>1
    <3> QED
      BY <1>6, <3>2, <3>3
  <2>2. ~(j < m)
    <3> SUFFICES ASSUME j < m PROVE FALSE
      OBVIOUS
    <3>1. j + 1 \in 1 .. Len(s) /\ j < j + 1 /\ j + 1 \in 1 .. m
      BY <1>3, <1>5
    <3>2. s[j + 1] \in Abnormal /\ s[j + 1] \in Normal
      BY <1>3, <1>5, <3>1
    <3> QED
      BY <1>6, <3>2
  <2> QED
    BY <1>3, <1>5, <2>1, <2>2
<1> QED
  BY <1>2, <1>7, <1>8, <1>9 DEF s, l, c, m

\* What is read, by position.
LEMMA EntriesRead ==
    ASSUME NEW t, Good(t), NEW e \in Node, NEW K \in Maps
    PROVE  LET b == MapStart(t, e, K)
               c == MapEnd(t, e, K)
           IN /\ b \in Nat /\ c \in Nat /\ b <= c /\ c <= Len(t.kids[e])
              /\ Entries(t, e, K) =
                    [m \in 1 .. c - b |->
                        <<NameOf[t.kids[e][b + m]], t.value[t.kids[e][b + m]]>>]
<1> DEFINE b == MapStart(t, e, K)
           c == MapEnd(t, e, K)
           s == t.kids[e]
           q == MapNodes(t, e, K)
<1>1. s \in Seq(Node)
  BY DEF Good, Tree
<1>2. b \in 0 .. Len(s) /\ c \in b .. Len(s)
  BY MapIsRun
<1>3. DOMAIN q = 1 .. c - b /\ \A m \in 1 .. c - b : q[m] = s[b + m]
  BY MapNodesAt
<1>4. Entries(t, e, K) = [m \in DOMAIN q |-> <<NameOf[q[m]], t.value[q[m]]>>]
  BY DEF Entries
<1> HIDE DEF q, b, c, s
<1>5. Entries(t, e, K) = [m \in 1 .. c - b |-> <<NameOf[s[b + m]], t.value[s[b + m]]>>]
  BY <1>3, <1>4
<1>6. b \in Nat /\ c \in Nat /\ b <= c /\ c <= Len(s)
  BY <1>1, <1>2
<1> QED
  BY <1>5, <1>6 DEF b, c, s

LEMMA ChildrenRead ==
    ASSUME NEW t, Good(t), NEW e \in Node, NEW j \in 0 .. Len(t.kids[e]),
           Leading(t.kids[e], Abnormal) = j
    PROVE  Children(t, e) = [m \in 1 .. Len(t.kids[e]) - j |-> t.kids[e][j + m]]
<1> DEFINE s == t.kids[e]
           r == Children(t, e)
           n == Len(s) - j
<1>1. s \in Seq(Node) /\ Len(s) \in Nat /\ j \in Nat /\ n \in Nat
  BY DEF Good, Tree
<1>2. r = SubSeq(s, j + 1, Len(s))
  BY DEF Children
<1> HIDE DEF s, r
<1>3. r \in Seq(Node) /\ Len(r) = n /\ \A m \in 1 .. n : r[m] = s[j + m]
  BY <1>1, <1>2 DEF s
<1>4. r = [m \in 1 .. Len(r) |-> r[m]]
  BY <1>3
<1> HIDE DEF n
<1>5. r = [m \in 1 .. n |-> s[j + m]]
  BY <1>3, <1>4
<1> QED
  BY <1>5 DEF n, r, s

\* A caller reads an entry as its name and its value.
Row(t, x) == <<NameOf[x], t.value[x]>>

Reads(t, e, s, i, j) ==
    /\ Entries(t, e, Namespaces) = [m \in 1 .. i |-> Row(t, s[m])]
    /\ Entries(t, e, Attributes) = [m \in 1 .. j - i |-> Row(t, s[i + m])]
    /\ Children(t, e) = [m \in 1 .. Len(s) - j |-> s[j + m]]

\* What a caller reads of e: the two maps and the children, by position.
LEMMA Rows ==
    ASSUME NEW t, Good(t), NEW e \in Node, Attributes # Namespaces,
           NEW i, NEW j, Parted(t.kids[e], i, j)
    PROVE  Reads(t, e, t.kids[e], i, j)
<1> DEFINE s == t.kids[e]
<1>1. s \in Seq(Node)
  BY DEF Good, Tree
<1>2. i \in 0 .. Len(s) /\ j \in i .. Len(s) /\ Len(s) \in Nat
  BY <1>1 DEF Parted
<1>3. /\ MapStart(t, e, Namespaces) = 0 /\ MapEnd(t, e, Namespaces) = i
      /\ MapStart(t, e, Attributes) = i /\ MapEnd(t, e, Attributes) = j
      /\ Leading(t.kids[e], Abnormal) = j
  BY PartedOnce
<1>4. Namespaces \in Maps /\ Attributes \in Maps
  BY DEF Maps
<1>5. Entries(t, e, Attributes) =
        [m \in 1 .. j - i |-> Row(t, s[i + m])]
  <2>1. LET b == MapStart(t, e, Attributes)
            c == MapEnd(t, e, Attributes)
        IN Entries(t, e, Attributes) =
              [m \in 1 .. c - b |-> Row(t, s[b + m])]
    BY <1>4, EntriesRead DEF Row
  <2> QED
    BY <1>3, <2>1
<1>6. Entries(t, e, Namespaces) =
        [m \in 1 .. i |-> Row(t, s[m])]
  <2>1. LET b == MapStart(t, e, Namespaces)
            c == MapEnd(t, e, Namespaces)
        IN Entries(t, e, Namespaces) =
              [m \in 1 .. c - b |-> Row(t, s[b + m])]
    BY <1>4, EntriesRead DEF Row
  <2>2. Entries(t, e, Namespaces) =
          [m \in 1 .. i - 0 |-> Row(t, s[0 + m])]
    BY <1>3, <2>1
  <2>3. i - 0 = i /\ \A m \in 1 .. i : 0 + m = m
    BY <1>2
  <2> QED
    BY <2>2, <2>3
<1>7. Children(t, e) = [m \in 1 .. Len(s) - j |-> s[j + m]]
  <2>1. j \in 0 .. Len(s)
    BY <1>2
  <2> QED
    BY <1>3, <2>1, ChildrenRead
<1> QED
  BY <1>5, <1>6, <1>7 DEF Reads

\* The other map of e and its children read the same.
OthersStay(t, u, e, K) ==
    /\ \A L \in Maps \ {K} : Entries(u, e, L) = Entries(t, e, L)
    /\ Children(u, e) = Children(t, e)

\* A sequence without its members at the positions i + 1 .. i + d.
Shortened(s, i, d) == [m \in 1 .. Len(s) - d |-> IF m <= i THEN s[m] ELSE s[m + d]]

\* A run taken out of one part leaves the parts.
LEMMA PartedCut ==
    ASSUME NEW s \in Seq(Node), NEW p1, NEW p2, Parted(s, p1, p2),
           NEW i \in 0 .. Len(s), NEW j \in i .. Len(s), j <= p1 \/ (p1 <= i /\ j <= p2)
    PROVE  LET d == j - i
           IN Parted(Splice(s, i, j, <<>>), IF j <= p1 THEN p1 - d ELSE p1, p2 - d)
<1> DEFINE d == j - i
           q1 == IF j <= p1 THEN p1 - d ELSE p1
           q2 == p2 - d
           r == Splice(s, i, j, <<>>)
<1>1. Len(s) \in Nat /\ d \in Nat /\ i \in Nat /\ j \in Nat /\ i + d = j /\ j <= Len(s)
  OBVIOUS
<1>2. /\ p1 \in Nat /\ p2 \in Nat /\ p1 <= p2 /\ p2 <= Len(s)
      /\ \A k \in 1 .. Len(s) : /\ k <= p1 => s[k] \in Namespaces
                                /\ p1 < k /\ k <= p2 => s[k] \in Attributes
                                /\ p2 < k => s[k] \in Normal
  BY DEF Parted
<1>3. /\ Len(r) = Len(s) - d
      /\ \A k \in 1 .. Len(r) : r[k] = IF k <= i THEN s[k] ELSE s[k + d]
  <2>1. IsCut(r, s, i, j)
    BY CutAt
  <2> QED
    BY <2>1 DEF IsCut
<1> HIDE DEF d, r
<1>4. q1 \in 0 .. Len(r) /\ q2 \in q1 .. Len(r)
  BY <1>1, <1>2, <1>3
<1>5. ASSUME NEW k \in 1 .. Len(r)
      PROVE  /\ k <= q1 => r[k] \in Namespaces
             /\ q1 < k /\ k <= q2 => r[k] \in Attributes
             /\ q2 < k => r[k] \in Normal
  <2>1. CASE k <= i
    <3>1. k \in 1 .. Len(s) /\ r[k] = s[k]
      BY <1>1, <1>3, <2>1
    <3>2. /\ k <= q1 => k <= p1
          /\ q1 < k /\ k <= q2 => p1 < k /\ k <= p2
          /\ ~(q2 < k)
      BY <1>1, <1>2, <2>1
    <3> QED
      BY <1>2, <3>1, <3>2
  <2>2. CASE ~(k <= i)
    <3> DEFINE m == k + d
    <3>1. m \in 1 .. Len(s) /\ r[k] = s[m]
      BY <1>1, <1>3, <2>2
    <3>2. /\ k <= q1 => m <= p1
          /\ q1 < k /\ k <= q2 => p1 < m /\ m <= p2
          /\ q2 < k => p2 < m
      BY <1>1, <1>2, <2>2
    <3> QED
      BY <1>2, <3>1, <3>2
  <2> QED
    BY <2>1, <2>2
<1> QED
  BY <1>4, <1>5 DEF Parted, r, d

\* Taking out a run of one map takes out these entries of it.
LEMMA RunCut ==
    ASSUME NEW t, Good(t), Ordered(t), NEW u, Good(u), NEW e \in Node,
           Attributes # Namespaces, NEW K \in Maps,
           NEW i \in MapStart(t, e, K) .. MapEnd(t, e, K),
           NEW j \in i .. MapEnd(t, e, K),
           u.kids[e] = Splice(t.kids[e], i, j, <<>>),
           \A x \in Range(u.kids[e]) : u.value[x] = t.value[x]
    PROVE  /\ OthersStay(t, u, e, K)
           /\ Entries(u, e, K) =
                 Shortened(Entries(t, e, K), i - MapStart(t, e, K), j - i)
<1> DEFINE s  == t.kids[e]
           r  == u.kids[e]
           p1 == MapEnd(t, e, Namespaces)
           p2 == MapEnd(t, e, Attributes)
           d  == j - i
<1>1. s \in Seq(Node) /\ Len(s) \in Nat
  BY DEF Good, Tree
<1>2. /\ Parted(s, p1, p2) /\ MapStart(t, e, Attributes) = p1
      /\ MapStart(t, e, Namespaces) = 0
  BY PartedHere
<1>3. p1 \in Nat /\ p2 \in Nat /\ p1 <= p2 /\ p2 <= Len(s)
  BY <1>1, <1>2 DEF Parted
<1>4. i \in 0 .. Len(s) /\ j \in i .. Len(s) /\ d \in Nat
  BY <1>1, <1>2, <1>3 DEF Maps
<1>5. /\ r \in Seq(Node) /\ Len(r) = Len(s) - d
      /\ \A k \in 1 .. Len(r) : r[k] = IF k <= i THEN s[k] ELSE s[k + d]
  <2>1. r \in Seq(Node) /\ IsCut(r, s, i, j)
    BY <1>1, <1>4, CutAt
  <2> QED
    BY <2>1 DEF IsCut
<1>6. \A k \in 1 .. Len(r) : Row(u, r[k]) = Row(t, r[k])
  <2> SUFFICES ASSUME NEW k \in 1 .. Len(r) PROVE Row(u, r[k]) = Row(t, r[k])
    OBVIOUS
  <2> DEFINE x == r[k]
  <2>1. x \in Range(r)
    BY <1>5 DEF Range
  <2>2. u.value[x] = t.value[x]
    BY <2>1
  <2> QED
    BY <2>2 DEF Row
<1>7. /\ Entries(t, e, Namespaces) = [m \in 1 .. p1 |-> Row(t, s[m])]
      /\ Entries(t, e, Attributes) = [m \in 1 .. p2 - p1 |-> Row(t, s[p1 + m])]
      /\ Children(t, e) = [m \in 1 .. Len(s) - p2 |-> s[p2 + m]]
  <2>1. Parted(t.kids[e], p1, p2)
    BY <1>2
  <2>2. Reads(t, e, s, p1, p2)
    BY <2>1, Rows
  <2> QED
    BY <2>2 DEF Reads
<1>8. CASE K = Namespaces
  <2> DEFINE q1 == p1 - d
             q2 == p2 - d
  <2>1. j <= p1 /\ i - MapStart(t, e, K) = i
    BY <1>2, <1>4, <1>8
  <2>2. Parted(r, q1, q2)
    <3>1. j <= p1 \/ (p1 <= i /\ j <= p2)
      BY <2>1
    <3>2. i \in 0 .. Len(s) /\ j \in i .. Len(s) /\ s \in Seq(Node)
      BY <1>1, <1>4
    <3>3. Parted(s, p1, p2)
      BY <1>2
    <3> HIDE DEF p1, p2
    <3>4. Parted(r, IF j <= p1 THEN p1 - d ELSE p1, p2 - d)
      BY <3>1, <3>2, <3>3, PartedCut
    <3> QED
      BY <2>1, <3>4
  <2>3. /\ Entries(u, e, Namespaces) = [m \in 1 .. q1 |-> Row(u, r[m])]
        /\ Entries(u, e, Attributes) = [m \in 1 .. q2 - q1 |-> Row(u, r[q1 + m])]
        /\ Children(u, e) = [m \in 1 .. Len(r) - q2 |-> r[q2 + m]]
    <3>1. Reads(u, e, r, q1, q2)
      BY <2>2, Rows
    <3> QED
      BY <3>1 DEF Reads
  <2> HIDE DEF s, r, p1, p2, d
  <2>4. Entries(u, e, Namespaces) = Shortened(Entries(t, e, Namespaces), i, d)
    <3>1. ASSUME NEW m \in 1 .. q1
          PROVE  Row(u, r[m]) = IF m <= i THEN Row(t, s[m]) ELSE Row(t, s[m + d])
      BY <1>3, <1>4, <1>5, <1>6, <2>1
    <3>2. \A m \in 1 .. q1 : /\ m <= i => m \in 1 .. p1
                             /\ ~(m <= i) => m + d \in 1 .. p1
      BY <1>3, <1>4, <2>1 DEF d
    <3> QED
      BY <1>3, <1>7, <2>3, <3>1, <3>2 DEF Shortened
  <2>5. Entries(u, e, Attributes) = Entries(t, e, Attributes)
    <3>1. q2 - q1 = p2 - p1
      BY <1>3, <1>4
    <3>2. ASSUME NEW m \in 1 .. p2 - p1
          PROVE  Row(u, r[q1 + m]) = Row(t, s[p1 + m])
      <4>1. q1 + m \in 1 .. Len(r) /\ ~(q1 + m <= i) /\ q1 + m + d = p1 + m
        BY <1>1, <1>3, <1>4, <1>5, <2>1 DEF d
      <4> QED
        BY <1>5, <1>6, <4>1
    <3> QED
      BY <1>7, <2>3, <3>1, <3>2
  <2>6. Children(u, e) = Children(t, e)
    <3>1. Len(r) - q2 = Len(s) - p2
      BY <1>1, <1>3, <1>4, <1>5
    <3>2. ASSUME NEW m \in 1 .. Len(s) - p2
          PROVE  r[q2 + m] = s[p2 + m]
      <4>1. q2 + m \in 1 .. Len(r) /\ ~(q2 + m <= i) /\ q2 + m + d = p2 + m
        BY <1>1, <1>3, <1>4, <1>5, <2>1 DEF d
      <4> QED
        BY <1>5, <4>1
    <3> QED
      BY <1>7, <2>3, <3>1, <3>2
  <2> QED
    BY <1>8, <2>1, <2>4, <2>5, <2>6 DEF OthersStay, Maps, d
<1>9. CASE K = Attributes
  <2> DEFINE q2 == p2 - d
             b  == i - p1
  <2>1. p1 <= i /\ j <= p2 /\ MapStart(t, e, K) = p1
    BY <1>2, <1>4, <1>9
  <2>2. Parted(r, p1, q2)
    <3>1. j <= p1 => d = 0 /\ p1 - d = p1
      BY <1>3, <1>4, <2>1
    <3>2. Parted(r, IF j <= p1 THEN p1 - d ELSE p1, q2)
      BY <1>1, <1>2, <1>4, <2>1, PartedCut
    <3> QED
      BY <3>1, <3>2
  <2>3. /\ Entries(u, e, Namespaces) = [m \in 1 .. p1 |-> Row(u, r[m])]
        /\ Entries(u, e, Attributes) = [m \in 1 .. q2 - p1 |-> Row(u, r[p1 + m])]
        /\ Children(u, e) = [m \in 1 .. Len(r) - q2 |-> r[q2 + m]]
    <3>1. Reads(u, e, r, p1, q2)
      BY <2>2, Rows
    <3> QED
      BY <3>1 DEF Reads
  <2> HIDE DEF s, r, p1, p2, d
  <2>4. Entries(u, e, Attributes) = Shortened(Entries(t, e, Attributes), b, d)
    <3>0. q2 - p1 = (p2 - p1) - d
      BY <1>3, <1>4
    <3>1. ASSUME NEW m \in 1 .. q2 - p1
          PROVE  Row(u, r[p1 + m]) =
                    IF m <= b THEN Row(t, s[p1 + m]) ELSE Row(t, s[p1 + (m + d)])
      <4>1. /\ p1 + m \in 1 .. Len(r) /\ (p1 + m <= i <=> m <= b)
            /\ p1 + m + d = p1 + (m + d)
        BY <1>1, <1>3, <1>4, <1>5, <2>1
      <4> QED
        BY <1>5, <1>6, <4>1
    <3>2. \A m \in 1 .. q2 - p1 : /\ m <= b => m \in 1 .. p2 - p1
                                  /\ ~(m <= b) => m + d \in 1 .. p2 - p1
      BY <1>3, <1>4, <2>1 DEF d
    <3> HIDE DEF b
    <3> QED
      BY <1>3, <1>7, <2>3, <3>0, <3>1, <3>2 DEF Shortened
  <2>5. Entries(u, e, Namespaces) = Entries(t, e, Namespaces)
    <3>1. ASSUME NEW m \in 1 .. p1
          PROVE  Row(u, r[m]) = Row(t, s[m])
      <4>1. m \in 1 .. Len(r) /\ m <= i
        BY <1>1, <1>3, <1>4, <1>5, <2>1 DEF d
      <4> QED
        BY <1>5, <1>6, <4>1
    <3> QED
      BY <1>7, <2>3, <3>1
  <2>6. Children(u, e) = Children(t, e)
    <3>1. Len(r) - q2 = Len(s) - p2
      BY <1>1, <1>3, <1>4, <1>5
    <3>2. ASSUME NEW m \in 1 .. Len(s) - p2
          PROVE  r[q2 + m] = s[p2 + m]
      <4>0. q2 \in Nat /\ i <= q2 /\ d \in Nat
        BY <1>3, <1>4, <2>1 DEF d
      <4>1. q2 + m \in 1 .. Len(r) /\ ~(q2 + m <= i) /\ q2 + m + d = p2 + m
        BY <1>1, <1>3, <1>5, <3>1, <4>0
      <4> QED
        BY <1>5, <4>1
    <3> QED
      BY <1>7, <2>3, <3>1, <3>2
  <2> QED
    BY <1>9, <2>1, <2>4, <2>5, <2>6 DEF OthersStay, Maps, d, b
<1> QED
  BY <1>8, <1>9 DEF Maps

\* A new member last, by position.
LEMMA AppendIs ==
    ASSUME NEW n \in Nat, NEW f, DOMAIN f = 1 .. n, f = [m \in 1 .. n |-> f[m]], NEW x
    PROVE  /\ Len(f) = n
           /\ Append(f, x) = [m \in 1 .. n + 1 |-> IF m <= n THEN f[m] ELSE x]
<1> DEFINE S == {f[m] : m \in 1 .. n} \cup {x}
           g == Append(f, x)
<1>1. f \in Seq(S) /\ x \in S
  <2>1. \A m \in 1 .. n : f[m] \in S
    OBVIOUS
  <2> HIDE DEF S
  <2>2. f \in [1 .. n -> S]
    BY <2>1
  <2>3. f \in Seq(S)
    BY <2>2
  <2> QED
    BY <2>3 DEF S
<1> HIDE DEF S
<1>2. Len(f) = n
  BY <1>1
<1>3. g \in Seq(S) /\ Len(g) = n + 1
  BY <1>1, <1>2
<1>4. \A m \in 1 .. n + 1 : g[m] = IF m <= n THEN f[m] ELSE x
  BY <1>1, <1>2
<1>5. g = [m \in 1 .. n + 1 |-> g[m]]
  BY <1>3
<1> HIDE DEF g
<1> QED
  BY <1>2, <1>4, <1>5 DEF g

\* A member put behind its part belongs to it.
LEMMA PartedPut ==
    ASSUME NEW s \in Seq(Node), NEW p1, NEW p2, Parted(s, p1, p2), NEW a \in Node
    PROVE  /\ a \in Namespaces => Parted(Splice(s, p1, p1, <<a>>), p1 + 1, p2 + 1)
           /\ a \in Attributes => Parted(Splice(s, p2, p2, <<a>>), p1, p2 + 1)
<1>1. /\ p1 \in Nat /\ p2 \in Nat /\ p1 <= p2 /\ p2 <= Len(s) /\ Len(s) \in Nat
      /\ \A k \in 1 .. Len(s) : /\ k <= p1 => s[k] \in Namespaces
                                /\ p1 < k /\ k <= p2 => s[k] \in Attributes
                                /\ p2 < k => s[k] \in Normal
  BY DEF Parted
<1>2. ASSUME a \in Namespaces
      PROVE  Parted(Splice(s, p1, p1, <<a>>), p1 + 1, p2 + 1)
  <2> DEFINE r == Splice(s, p1, p1, <<a>>)
  <2>1. p1 \in 0 .. Len(s)
    BY <1>1
  <2>2. /\ Len(r) = Len(s) + 1
        /\ \A k \in 1 .. Len(r) : /\ k <= p1 => r[k] = s[k]
                                  /\ k = p1 + 1 => r[k] = a
                                  /\ p1 + 1 < k => r[k] = s[k - 1]
    <3>1. IsPut(r, s, p1, a)
      BY <2>1, PutAt
    <3> QED
      BY <3>1 DEF IsPut
  <2> HIDE DEF r
  <2>3. p1 + 1 \in 0 .. Len(r) /\ p2 + 1 \in p1 + 1 .. Len(r)
    BY <1>1, <2>2
  <2>4. ASSUME NEW k \in 1 .. Len(r)
        PROVE  /\ k <= p1 + 1 => r[k] \in Namespaces
               /\ p1 + 1 < k /\ k <= p2 + 1 => r[k] \in Attributes
               /\ p2 + 1 < k => r[k] \in Normal
    <3>1. CASE k <= p1
      <4>1. k \in 1 .. Len(s) /\ r[k] = s[k]
        BY <1>1, <2>2, <3>1
      <4> QED
        BY <1>1, <3>1, <4>1
    <3>2. CASE k = p1 + 1
      BY <1>1, <1>2, <2>2, <3>2
    <3>3. CASE p1 + 1 < k
      <4>1. k - 1 \in 1 .. Len(s) /\ p1 < k - 1 /\ r[k] = s[k - 1]
        BY <1>1, <2>2, <3>3
      <4> QED
        BY <1>1, <3>3, <4>1
    <3> QED
      BY <1>1, <3>1, <3>2, <3>3
  <2> QED
    BY <2>3, <2>4 DEF Parted, r
<1>3. ASSUME a \in Attributes
      PROVE  Parted(Splice(s, p2, p2, <<a>>), p1, p2 + 1)
  <2> DEFINE r == Splice(s, p2, p2, <<a>>)
  <2>1. p2 \in 0 .. Len(s)
    BY <1>1
  <2>2. /\ Len(r) = Len(s) + 1
        /\ \A k \in 1 .. Len(r) : /\ k <= p2 => r[k] = s[k]
                                  /\ k = p2 + 1 => r[k] = a
                                  /\ p2 + 1 < k => r[k] = s[k - 1]
    <3>1. IsPut(r, s, p2, a)
      BY <2>1, PutAt
    <3> QED
      BY <3>1 DEF IsPut
  <2> HIDE DEF r
  <2>3. p1 \in 0 .. Len(r) /\ p2 + 1 \in p1 .. Len(r)
    BY <1>1, <2>2
  <2>4. ASSUME NEW k \in 1 .. Len(r)
        PROVE  /\ k <= p1 => r[k] \in Namespaces
               /\ p1 < k /\ k <= p2 + 1 => r[k] \in Attributes
               /\ p2 + 1 < k => r[k] \in Normal
    <3>1. CASE k <= p2
      <4>1. k \in 1 .. Len(s) /\ r[k] = s[k]
        BY <1>1, <2>2, <3>1
      <4> QED
        BY <1>1, <3>1, <4>1
    <3>2. CASE k = p2 + 1
      BY <1>1, <1>3, <2>2, <3>2
    <3>3. CASE p2 + 1 < k
      <4>1. k - 1 \in 1 .. Len(s) /\ p2 < k - 1 /\ r[k] = s[k - 1]
        BY <1>1, <2>2, <3>3
      <4> QED
        BY <1>1, <3>3, <4>1
    <3> QED
      BY <1>1, <3>1, <3>2, <3>3
  <2> QED
    BY <2>3, <2>4 DEF Parted, r
<1> QED
  BY <1>2, <1>3

\* A node put behind one map is read as its last entry.
LEMMA RunPut ==
    ASSUME NEW t, Good(t), Ordered(t), NEW u, Good(u), NEW e \in Node,
           Attributes # Namespaces, NEW K \in Maps, NEW a \in K,
           u.kids[e] = Splice(t.kids[e], MapEnd(t, e, K), MapEnd(t, e, K), <<a>>),
           \A x \in Range(t.kids[e]) : u.value[x] = t.value[x]
    PROVE  /\ OthersStay(t, u, e, K)
           /\ Entries(u, e, K) = Append(Entries(t, e, K), Row(u, a))
<1> DEFINE s  == t.kids[e]
           r  == u.kids[e]
           p1 == MapEnd(t, e, Namespaces)
           p2 == MapEnd(t, e, Attributes)
           c  == MapEnd(t, e, K)
<1>1. s \in Seq(Node) /\ Len(s) \in Nat /\ a \in Node
  BY DEF Good, Tree, Maps, Node, Abnormal
<1>2. Parted(s, p1, p2)
  BY PartedHere
<1>3. p1 \in Nat /\ p2 \in Nat /\ p1 <= p2 /\ p2 <= Len(s)
  BY <1>1, <1>2 DEF Parted
<1>4. c \in 0 .. Len(s)
  BY <1>1, <1>3 DEF Maps
<1>5. /\ r \in Seq(Node) /\ Len(r) = Len(s) + 1
      /\ \A k \in 1 .. Len(r) : /\ k <= c => r[k] = s[k]
                                /\ k = c + 1 => r[k] = a
                                /\ c + 1 < k => r[k] = s[k - 1]
  <2>1. r \in Seq(Node) /\ IsPut(r, s, c, a)
    BY <1>1, <1>4, PutAt
  <2> QED
    BY <2>1 DEF IsPut
<1>6. \A k \in 1 .. Len(s) : Row(u, s[k]) = Row(t, s[k])
  <2> SUFFICES ASSUME NEW k \in 1 .. Len(s) PROVE Row(u, s[k]) = Row(t, s[k])
    OBVIOUS
  <2> DEFINE x == s[k]
  <2>1. x \in Range(s)
    BY <1>1 DEF Range
  <2>2. u.value[x] = t.value[x]
    BY <2>1
  <2> QED
    BY <2>2 DEF Row
<1>7. /\ Entries(t, e, Namespaces) = [m \in 1 .. p1 |-> Row(t, s[m])]
      /\ Entries(t, e, Attributes) = [m \in 1 .. p2 - p1 |-> Row(t, s[p1 + m])]
      /\ Children(t, e) = [m \in 1 .. Len(s) - p2 |-> s[p2 + m]]
  <2>1. Reads(t, e, s, p1, p2)
    BY <1>2, Rows
  <2> QED
    BY <2>1 DEF Reads
<1>8. CASE K = Namespaces
  <2> DEFINE q1 == p1 + 1
             q2 == p2 + 1
             f  == Entries(t, e, Namespaces)
  <2>1. c = p1
    BY <1>8
  <2>2. Parted(r, q1, q2)
    <3> HIDE DEF p1, p2
    <3> QED
      BY <1>1, <1>2, <1>8, <2>1, PartedPut DEF c
  <2>3. Reads(u, e, r, q1, q2)
    BY <2>2, Rows
  <2>4. /\ Entries(u, e, Namespaces) = [m \in 1 .. q1 |-> Row(u, r[m])]
        /\ Entries(u, e, Attributes) = [m \in 1 .. q2 - q1 |-> Row(u, r[q1 + m])]
        /\ Children(u, e) = [m \in 1 .. Len(r) - q2 |-> r[q2 + m]]
    BY <2>3 DEF Reads
  <2> HIDE DEF s, r, p1, p2, c
  <2>5. Entries(u, e, Namespaces) = Append(f, Row(u, a))
    <3>1. Append(f, Row(u, a)) = [m \in 1 .. q1 |-> IF m <= p1 THEN f[m] ELSE Row(u, a)]
      <4>1. DOMAIN f = 1 .. p1 /\ f = [m \in 1 .. p1 |-> f[m]] /\ p1 \in Nat
        BY <1>3, <1>7
      <4> HIDE DEF f
      <4> QED
        BY <4>1, AppendIs
    <3>2. ASSUME NEW m \in 1 .. q1
          PROVE  Row(u, r[m]) = IF m <= p1 THEN Row(t, s[m]) ELSE Row(u, a)
      <4>1. m \in 1 .. Len(r) /\ (~(m <= p1) => m = c + 1)
        BY <1>1, <1>3, <1>5, <2>1
      <4>2. CASE m <= p1
        <5>1. m \in 1 .. Len(s) /\ r[m] = s[m]
          BY <1>1, <1>3, <1>5, <2>1, <4>1, <4>2
        <5> QED
          BY <1>6, <4>2, <5>1
      <4>3. CASE ~(m <= p1)
        <5>1. r[m] = a
          BY <1>5, <4>1, <4>3
        <5> QED
          BY <4>3, <5>1
      <4> QED
        BY <4>2, <4>3
    <3>3. \A m \in 1 .. q1 : m <= p1 => m \in 1 .. p1
      BY <1>3
    <3> QED
      BY <1>7, <2>4, <3>1, <3>2, <3>3, ZenonT(60)
  <2>6. Entries(u, e, Attributes) = Entries(t, e, Attributes)
    <3>1. q2 - q1 = p2 - p1
      BY <1>3
    <3>2. ASSUME NEW m \in 1 .. p2 - p1
          PROVE  Row(u, r[q1 + m]) = Row(t, s[p1 + m])
      <4> DEFINE k == q1 + m
      <4>1. /\ k \in 1 .. Len(r) /\ c + 1 < k
            /\ k - 1 = p1 + m /\ p1 + m \in 1 .. Len(s)
        BY <1>1, <1>3, <1>5, <2>1
      <4> HIDE DEF k
      <4>2. r[k] = s[k - 1]
        BY <1>5, <4>1
      <4> QED
        BY <1>6, <4>1, <4>2 DEF k
    <3> QED
      BY <1>7, <2>4, <3>1, <3>2
  <2>7. Children(u, e) = Children(t, e)
    <3>1. Len(r) - q2 = Len(s) - p2
      BY <1>1, <1>3, <1>5
    <3>2. ASSUME NEW m \in 1 .. Len(s) - p2
          PROVE  r[q2 + m] = s[p2 + m]
      <4> DEFINE k == q2 + m
      <4>1. k \in 1 .. Len(r) /\ c + 1 < k /\ k - 1 = p2 + m
        BY <1>1, <1>3, <1>5, <2>1
      <4> HIDE DEF k
      <4>2. r[k] = s[k - 1]
        BY <1>5, <4>1
      <4> QED
        BY <4>1, <4>2 DEF k
    <3> QED
      BY <1>7, <2>4, <3>1, <3>2
  <2> QED
    BY <1>8, <2>5, <2>6, <2>7 DEF OthersStay, Maps
<1>9. CASE K = Attributes
  <2> DEFINE q2 == p2 + 1
             n  == p2 - p1
             f  == Entries(t, e, Attributes)
  <2>1. c = p2
    BY <1>9
  <2>2. Parted(r, p1, q2)
    <3> HIDE DEF p1, p2
    <3> QED
      BY <1>1, <1>2, <1>9, <2>1, PartedPut DEF c
  <2>3. Reads(u, e, r, p1, q2)
    BY <2>2, Rows
  <2>4. /\ Entries(u, e, Namespaces) = [m \in 1 .. p1 |-> Row(u, r[m])]
        /\ Entries(u, e, Attributes) = [m \in 1 .. q2 - p1 |-> Row(u, r[p1 + m])]
        /\ Children(u, e) = [m \in 1 .. Len(r) - q2 |-> r[q2 + m]]
    BY <2>3 DEF Reads
  <2> HIDE DEF s, r, p1, p2, c
  <2>5. Entries(u, e, Attributes) = Append(f, Row(u, a))
    <3>0. q2 - p1 = n + 1 /\ n \in Nat
      BY <1>3
    <3>1. Append(f, Row(u, a)) = [m \in 1 .. n + 1 |-> IF m <= n THEN f[m] ELSE Row(u, a)]
      <4>1. DOMAIN f = 1 .. n /\ f = [m \in 1 .. n |-> f[m]]
        BY <1>3, <1>7
      <4> HIDE DEF f, n
      <4> QED
        BY <3>0, <4>1, AppendIs
    <3>2. ASSUME NEW m \in 1 .. n + 1
          PROVE  Row(u, r[p1 + m]) = IF m <= n THEN Row(t, s[p1 + m]) ELSE Row(u, a)
      <4>1. /\ p1 + m \in 1 .. Len(r) /\ (p1 + m <= c <=> m <= n)
            /\ m <= n => p1 + m \in 1 .. Len(s)
            /\ ~(m <= n) => p1 + m = c + 1
        BY <1>1, <1>3, <1>5, <2>1
      <4> QED
        BY <1>5, <1>6, <4>1
    <3>3. \A m \in 1 .. n + 1 : m <= n => m \in 1 .. n
      BY <3>0
    <3> HIDE DEF n
    <3> QED
      BY <1>7, <2>4, <3>0, <3>1, <3>2, <3>3 DEF n
  <2>6. Entries(u, e, Namespaces) = Entries(t, e, Namespaces)
    <3>1. ASSUME NEW m \in 1 .. p1
          PROVE  Row(u, r[m]) = Row(t, s[m])
      <4>1. m \in 1 .. Len(r) /\ m <= c /\ m \in 1 .. Len(s)
        BY <1>1, <1>3, <1>5, <2>1
      <4> QED
        BY <1>5, <1>6, <4>1
    <3> QED
      BY <1>7, <2>4, <3>1
  <2>7. Children(u, e) = Children(t, e)
    <3>1. Len(r) - q2 = Len(s) - p2
      BY <1>1, <1>3, <1>5
    <3>2. ASSUME NEW m \in 1 .. Len(s) - p2
          PROVE  r[q2 + m] = s[p2 + m]
      <4> DEFINE k == q2 + m
      <4>1. k \in 1 .. Len(r) /\ c + 1 < k /\ k - 1 = p2 + m
        BY <1>1, <1>3, <1>5, <2>1
      <4> HIDE DEF k
      <4>2. r[k] = s[k - 1]
        BY <1>5, <4>1
      <4> QED
        BY <4>1, <4>2 DEF k
    <3> QED
      BY <1>7, <2>4, <3>1, <3>2
  <2> QED
    BY <1>9, <2>5, <2>6, <2>7 DEF OthersStay, Maps
<1> QED
  BY <1>8, <1>9 DEF Maps

\* The entry that a name is found under is the only one of the name.
LEMMA NameAt ==
    ASSUME NEW t, Good(t), Ordered(t), NEW e \in Node, NEW K \in Maps, NEW name
    PROVE  LET was == Entries(t, e, K)
               old == GetNode(t, e, K, name)
               s   == t.kids[e]
               b   == MapStart(t, e, K)
               n   == MapEnd(t, e, K) - b
           IN /\ n \in Nat /\ DOMAIN was = 1 .. n /\ was = [m \in 1 .. n |-> was[m]]
              /\ \A m \in 1 .. n : was[m] = Row(t, s[b + m]) /\ was[m][1] = NameOf[s[b + m]]
              /\ HasName(was, name) <=> old # NoNode
              /\ old # NoNode =>
                    /\ old \in K /\ NameOf[old] = name
                    /\ \E i \in 1 .. n : /\ s[b + i] = old
                                         /\ \A m \in 1 .. n : was[m][1] = name => m = i
<1> DEFINE was == Entries(t, e, K)
           old == GetNode(t, e, K, name)
           s   == t.kids[e]
           b   == MapStart(t, e, K)
           c   == MapEnd(t, e, K)
           n   == c - b
           q   == MapNodes(t, e, K)
<1>1. /\ b \in Nat /\ c \in Nat /\ b <= c /\ c <= Len(s)
      /\ was = [m \in 1 .. n |-> Row(t, s[b + m])]
  BY EntriesRead DEF Row
<1>2. s \in Seq(Node) /\ Len(s) \in Nat /\ n \in Nat
  BY <1>1 DEF Good, Tree
<1>3. DOMAIN q = 1 .. n /\ \A m \in 1 .. n : q[m] = s[b + m]
  BY MapNodesAt
<1>4. \A m \in b + 1 .. c : s[m] \in K
  BY MapIsRun
<1>5. IF \E i \in DOMAIN q : NameOf[q[i]] = name
      THEN \E i \in DOMAIN q : old = q[i] /\ NameOf[old] = name
      ELSE old = NoNode
  BY GetNodeFinds
<1> HIDE DEF was, old, b, c, q
<1>6. \A m \in 1 .. n : was[m] = Row(t, s[b + m]) /\ was[m][1] = NameOf[s[b + m]]
  BY <1>1 DEF Row
<1>7. \A i, j \in 1 .. n : NameOf[s[b + i]] = NameOf[s[b + j]] => ~(i < j)
  <2> SUFFICES ASSUME NEW i \in 1 .. n, NEW j \in 1 .. n, i < j,
                      NameOf[s[b + i]] = NameOf[s[b + j]]
               PROVE  FALSE
    OBVIOUS
  <2> DEFINE x == s[b + i]
             y == s[b + j]
  <2>1. /\ b + i \in DOMAIN s /\ b + j \in DOMAIN s /\ b + i < b + j
        /\ b + i \in b + 1 .. c /\ b + j \in b + 1 .. c
    BY <1>1, <1>2
  <2>2. x \in K /\ y \in K
    BY <1>4, <2>1
  <2>3. Precedes(s, x, y)
    BY <2>1 DEF Precedes
  <2>4. MayPrecede(x, y)
    BY <2>3 DEF Ordered
  <2> HIDE DEF x, y
  <2>5. NameOf[x] # NameOf[y]
    BY <2>2, <2>4 DEF MayPrecede
  <2> QED
    BY <2>5 DEF x, y
<1>8. HasName(was, name) <=> \E m \in 1 .. n : NameOf[s[b + m]] = name
  BY <1>1, <1>6 DEF HasName
<1>9. CASE \E i \in DOMAIN q : NameOf[q[i]] = name
  <2>1. PICK i \in 1 .. n : old = s[b + i] /\ NameOf[old] = name
    BY <1>3, <1>5, <1>9
  <2>2. b + i \in b + 1 .. c
    BY <1>1, <1>2
  <2>3. old \in K
    BY <1>4, <2>1, <2>2
  <2>4. old # NoNode
    BY <2>3, NoNodeIsNoNode DEF Maps, Node, Abnormal
  <2>5. \A m \in 1 .. n : was[m][1] = name => m = i
    <3> SUFFICES ASSUME NEW m \in 1 .. n, was[m][1] = name PROVE m = i
      OBVIOUS
    <3>1. NameOf[s[b + m]] = NameOf[s[b + i]]
      BY <1>6, <2>1
    <3>2. ~(m < i) /\ ~(i < m)
      BY <1>7, <3>1
    <3> QED
      BY <1>2, <3>2
  <2>6. HasName(was, name)
    BY <1>8, <2>1
  <2> QED
    BY <1>1, <1>2, <1>6, <2>1, <2>3, <2>4, <2>5, <2>6 DEF was, old, b, c
<1>10. CASE ~\E i \in DOMAIN q : NameOf[q[i]] = name
  <2>1. old = NoNode /\ ~HasName(was, name)
    BY <1>3, <1>5, <1>8, <1>10
  <2> QED
    BY <1>1, <1>2, <1>6, <2>1 DEF was, old, b, c
<1> QED
  BY <1>9, <1>10

\* u has the values of t, except that x has v.
ValueSet(t, u, x, v) ==
    \A m \in Node : u.value[m] = IF m = x THEN v ELSE t.value[m]

\* A new value is read under the name it is given to, and nothing else changes.
LEMMA Revalued ==
    ASSUME NEW t, Good(t), NEW x \in Node, NEW v \in Seq(Node),
           NEW u, u = [t EXCEPT !.value[x] = v]
    PROVE  /\ Good(u) /\ u.kids = t.kids /\ u.parent = t.parent
           /\ ValueSet(t, u, x, v)
<1>1. Good(u) /\ u.kids = t.kids /\ u.parent = t.parent
  BY ValueGood
<1>2. u.value = [t.value EXCEPT ![x] = v] /\ t.value \in [Node -> Seq(Node)]
  BY DEF Good, Tree
<1> QED
  BY <1>1, <1>2 DEF ValueSet

LEMMA Renewed ==
    ASSUME NEW t, Good(t), Ordered(t), NEW e \in Node, NEW K \in Maps, NEW name,
           GetNode(t, e, K, name) # NoNode, NEW v, NEW u, Good(u), u.kids = t.kids,
           ValueSet(t, u, GetNode(t, e, K, name), v)
    PROVE  OthersStay(t, u, e, K) /\ Entries(u, e, K) = Put(Entries(t, e, K), name, v)
<1> DEFINE was == Entries(t, e, K)
           old == GetNode(t, e, K, name)
           s   == t.kids[e]
           b   == MapStart(t, e, K)
           n   == MapEnd(t, e, K) - b
<1>1. /\ n \in Nat /\ DOMAIN was = 1 .. n /\ was = [m \in 1 .. n |-> was[m]]
      /\ \A m \in 1 .. n : was[m] = Row(t, s[b + m]) /\ was[m][1] = NameOf[s[b + m]]
      /\ HasName(was, name)
      /\ old \in K /\ NameOf[old] = name
      /\ \E i \in 1 .. n : /\ s[b + i] = old
                           /\ \A m \in 1 .. n : was[m][1] = name => m = i
  BY NameAt
<1>2. old \in Node
  BY <1>1 DEF Maps, Node, Abnormal
<1>3. s \in Seq(Node) /\ Len(s) \in Nat
  BY DEF Good, Tree
<1>4. u.kids[e] = s
  OBVIOUS
<1> HIDE DEF old, s
<1>5. \A x \in Node : u.value[x] = IF x = old THEN v ELSE t.value[x]
  BY DEF ValueSet, old
<1>6. \A L \in Maps : /\ MapStart(u, e, L) = MapStart(t, e, L)
                      /\ MapEnd(u, e, L) = MapEnd(t, e, L)
  BY DEF MapStart, MapEnd
<1>7. ASSUME NEW L \in Maps
      PROVE  LET d == MapStart(t, e, L)
                 c == MapEnd(t, e, L)
             IN /\ d \in Nat /\ c \in Nat /\ d <= c /\ c <= Len(s)
                /\ Entries(t, e, L) = [m \in 1 .. c - d |-> Row(t, s[d + m])]
                /\ Entries(u, e, L) = [m \in 1 .. c - d |-> Row(u, s[d + m])]
                /\ \A m \in d + 1 .. c : s[m] \in L
  <2>1. LET d == MapStart(t, e, L)
            c == MapEnd(t, e, L)
        IN /\ d \in Nat /\ c \in Nat /\ d <= c /\ c <= Len(s)
           /\ Entries(t, e, L) = [m \in 1 .. c - d |-> Row(t, s[d + m])]
    BY EntriesRead DEF Row, s
  <2>2. LET d == MapStart(u, e, L)
            c == MapEnd(u, e, L)
        IN Entries(u, e, L) = [m \in 1 .. c - d |-> Row(u, u.kids[e][d + m])]
    BY EntriesRead DEF Row
  <2>3. \A m \in MapStart(t, e, L) + 1 .. MapEnd(t, e, L) : s[m] \in L
    BY MapIsRun DEF s
  <2> QED
    BY <1>4, <1>6, <2>1, <2>2, <2>3
<1>8. ASSUME NEW L \in Maps \ {K} PROVE Entries(u, e, L) = Entries(t, e, L)
  <2> DEFINE d == MapStart(t, e, L)
             c == MapEnd(t, e, L)
  <2>1. /\ d \in Nat /\ c \in Nat /\ d <= c /\ c <= Len(s)
        /\ Entries(t, e, L) = [m \in 1 .. c - d |-> Row(t, s[d + m])]
        /\ Entries(u, e, L) = [m \in 1 .. c - d |-> Row(u, s[d + m])]
        /\ \A m \in d + 1 .. c : s[m] \in L
    BY <1>7
  <2> HIDE DEF d, c
  <2>2. ASSUME NEW m \in 1 .. c - d PROVE Row(u, s[d + m]) = Row(t, s[d + m])
    <3> DEFINE x == s[d + m]
    <3>1. d + m \in d + 1 .. c /\ d + m \in 1 .. Len(s)
      BY <1>3, <2>1
    <3>2. x \in L /\ x \in Node
      BY <1>3, <2>1, <3>1
    <3>3. x # old
      BY <1>1, <3>2, KindsAreDisjoint DEF Maps
    <3>4. u.value[x] = t.value[x]
      BY <1>5, <3>2, <3>3
    <3> QED
      BY <3>4 DEF Row
  <2> QED
    BY <2>1, <2>2
<1>9. Children(u, e) = Children(t, e)
  BY DEF Children
<1>10. Entries(u, e, K) = Put(was, name, v)
  <2>1. Entries(u, e, K) = [m \in 1 .. n |-> Row(u, s[b + m])]
    BY <1>7
  <2>2. Put(was, name, v) =
          [m \in 1 .. n |-> IF was[m][1] = name THEN <<name, v>> ELSE was[m]]
    BY <1>1 DEF Put
  <2>3. ASSUME NEW m \in 1 .. n
        PROVE  Row(u, s[b + m]) = IF was[m][1] = name THEN <<name, v>> ELSE was[m]
    <3>1. PICK i \in 1 .. n : /\ s[b + i] = old
                              /\ \A k \in 1 .. n : was[k][1] = name => k = i
      BY <1>1
    <3>2. CASE was[m][1] = name
      <4>1. s[b + m] = old
        BY <3>1, <3>2
      <4>2. u.value[old] = v
        BY <1>2, <1>5
      <4> QED
        BY <1>1, <3>2, <4>1, <4>2 DEF Row
    <3>3. CASE was[m][1] # name
      <4> DEFINE x == s[b + m]
      <4>1. x \in Node /\ x # old
        <5>1. b + m \in DOMAIN s
          BY <1>1, <1>3, <1>7
        <5>2. NameOf[s[b + m]] # name
          BY <1>1, <3>3
        <5> QED
          BY <1>1, <1>3, <5>1, <5>2
      <4>2. u.value[x] = t.value[x]
        BY <1>5, <4>1
      <4>3. was[m] = Row(t, s[b + m])
        BY <1>1
      <4> QED
        BY <3>3, <4>2, <4>3 DEF Row
    <3> QED
      BY <3>2, <3>3
  <2> HIDE DEF was, n
  <2> QED
    BY <2>1, <2>2, <2>3
<1>11. OthersStay(t, u, e, K)
  BY <1>8, <1>9 DEF OthersStay
<1> QED
  BY <1>10, <1>11

\* An entry of an unused name, placed, is read last.
LEMMA Placed ==
    ASSUME NEW t, Good(t), Ordered(t), NEW e \in Elements, NEW K \in Maps, NEW a \in K,
           Live(t, e), Live(t, a), GetNode(t, e, K, NameOf[a]) = NoNode
    PROVE  LET o == PlaceEntry(t, e, K, a)
           IN /\ o.res = "ok" /\ OthersStay(t, o.tree, e, K)
              /\ Entries(o.tree, e, K) = Append(Entries(t, e, K), Row(t, a))
              /\ ~HasName(Entries(t, e, K), NameOf[a])
              /\ o.tree = Link(Unlink(t, a), e, MapEnd(t, e, K), a)
              /\ Good(o.tree)
<1> DEFINE u == Unlink(t, a)
           s == t.kids[e]
           c == MapEnd(t, e, K)
           f == Link(u, e, c, a)
<1>1. /\ e \in Node /\ a \in Node \ Container /\ a \in Abnormal /\ a \notin Documents
      /\ e \in Container /\ s \in Seq(Node) /\ Attributes # Namespaces
  BY KindsAreDisjoint DEF Node, Normal, Abnormal, Container, Maps, Good, Tree
<1>2. \A x \in Range(s) \cap K : NameOf[x] # NameOf[a]
  BY <1>1, NameUnused
<1>3. u.kids[e] = s /\ PlaceEntry(t, e, K, a) = Ok(f)
  BY <1>2, PlaceEntryPuts
<1>4. Good(u)
  BY <1>1, UnlinkGood
<1>5. c \in 0 .. Len(s)
  BY <1>1, InsertionPointIsEnd
<1>6. \A x : a \notin AncestorsOrSelf(t, x) \/ x = a
  BY <1>1 DEF AncestorsOrSelf, Ancestors
<1>7. Good(f)
  <2>1. a \notin AncestorsOrSelf(t, e)
    BY <1>1, <1>6
  <2>2. c \in 0 .. Len(u.kids[e])
    BY <1>3, <1>5
  <2>3. a \in Node \ Documents
    BY <1>1
  <2> HIDE DEF c
  <2> QED
    BY <1>1, <2>1, <2>2, <2>3, MoveGood
<1>8. f.kids[e] = Splice(s, c, c, <<a>>)
  <2>1. c \in 0 .. Len(u.kids[e])
    BY <1>3, <1>5
  <2> HIDE DEF c, u
  <2>2. \A q \in Node : f.kids[q] = IF q = e THEN Splice(u.kids[e], c, c, <<a>>)
                                    ELSE u.kids[q]
    BY <1>1, <1>4, <2>1, LinkKids
  <2> QED
    BY <1>1, <1>3, <2>2
<1>9. f.value = t.value
  BY DEF Link, Unlink, Good, Tree
<1>10. ~HasName(Entries(t, e, K), NameOf[a])
  BY <1>1, NameAt
<1>11. OthersStay(t, f, e, K) /\ Entries(f, e, K) = Append(Entries(t, e, K), Row(f, a))
  <2> HIDE DEF f
  <2> QED
    BY <1>1, <1>7, <1>8, <1>9, RunPut
<1>12. Row(f, a) = Row(t, a)
  BY <1>9 DEF Row
<1> HIDE DEF f, u, c
<1> QED
  BY <1>3, <1>7, <1>10, <1>11, <1>12 DEF Ok, f, u, c

\* insert
LEMMA InsertEntryReads ==
    ASSUME NEW t, Good(t), Ordered(t), NEW e \in Elements, NEW K \in Maps, NEW a \in K,
           Live(t, e), t.phase[a] = "fresh"
    PROVE  LET o == InsertEntry(t, e, K, a)
           IN /\ o.res = "ok" /\ OthersStay(t, o.tree, e, K)
              /\ Entries(o.tree, e, K) = Put(Entries(t, e, K), NameOf[a], <<a>>)
<1> DEFINE old == GetNode(t, e, K, NameOf[a])
           was == Entries(t, e, K)
<1>1. /\ e \in Node /\ a \in Node /\ a \in Abnormal /\ a # e /\ <<a>> \in Seq(Node)
      /\ Attributes # Namespaces
  BY KindsAreDisjoint DEF Node, Normal, Abnormal, Maps
<1>2. CASE old # NoNode
  <2> DEFINE u == [t EXCEPT !.value[old] = <<a>>]
  <2>1. InsertEntry(t, e, K, a) = Ok(u)
    BY <1>2 DEF InsertEntry
  <2> HIDE DEF u
  <2>2. OthersStay(t, u, e, K) /\ Entries(u, e, K) = Put(was, NameOf[a], <<a>>)
    <3>1. old \in Node
      BY <1>1, <1>2, GetNodeIsNode
    <3>2. /\ Good(u) /\ u.kids = t.kids
          /\ ValueSet(t, u, old, <<a>>)
      <4> HIDE DEF old
      <4>1. u = [t EXCEPT !.value[old] = <<a>>]
        BY DEF u
      <4>2. PICK v : v = <<a>>
        OBVIOUS
      <4>3. v \in Seq(Node)
        BY <1>1, <4>2
      <4>4. u = [t EXCEPT !.value[old] = v]
        BY <4>1, <4>2
      <4>5. Good(u) /\ u.kids = t.kids
        BY <3>1, <4>3, <4>4, Revalued
      <4>6. ValueSet(t, u, old, v)
        BY <3>1, <4>3, <4>4, Revalued
      <4> QED
        BY <4>2, <4>5, <4>6
    <3> QED
      BY <1>1, <1>2, <3>2, Renewed
  <2> QED
    BY <2>1, <2>2 DEF Ok
<1>3. CASE old = NoNode
  <2> DEFINE v == NewNode(t, a)
             o == PlaceEntry(v, e, K, a)
  <2>1. /\ Good(v) /\ v.phase = [t.phase EXCEPT ![a] = "live"]
        /\ v.parent = t.parent /\ v.kids = t.kids
    BY <1>1, NewNodeGood
  <2>2. v.value = [t.value EXCEPT ![a] = <<a>>]
    BY <1>1 DEF NewNode, Good, Tree
  <2>3. Live(v, e) /\ Live(v, a)
    BY <1>1, <2>1 DEF Live, Good, Tree
  <2>4. Ordered(v)
    BY <2>1 DEF Ordered
  <2>5. /\ GetNode(v, e, K, NameOf[a]) = NoNode
        /\ \A L \in Maps : MapStart(v, e, L) = MapStart(t, e, L)
                           /\ MapEnd(v, e, L) = MapEnd(t, e, L)
        /\ Children(v, e) = Children(t, e)
    <3> HIDE DEF v
    <3>1. \A L \in Maps : MapStart(v, e, L) = MapStart(t, e, L)
      BY <2>1 DEF MapStart
    <3>2. \A L \in Maps : MapEnd(v, e, L) = MapEnd(t, e, L)
      BY <2>1, <3>1 DEF MapEnd
    <3>3. MapNodes(v, e, K) = MapNodes(t, e, K)
      BY <2>1, <3>1, <3>2 DEF MapNodes
    <3>4. GetNode(v, e, K, NameOf[a]) = old
      BY <3>3 DEF GetNode
    <3>5. Children(v, e) = Children(t, e)
      BY <2>1 DEF Children
    <3> QED
      BY <1>3, <3>1, <3>2, <3>4, <3>5
  <2>6. \A L \in Maps : Entries(v, e, L) = Entries(t, e, L)
    <3> SUFFICES ASSUME NEW L \in Maps PROVE Entries(v, e, L) = Entries(t, e, L)
      OBVIOUS
    <3>1. MapNodes(v, e, L) = MapNodes(t, e, L)
      BY <2>1, <2>5 DEF MapNodes
    <3>2. \A i \in DOMAIN MapNodes(t, e, L) :
             MapNodes(t, e, L)[i] \in Node /\ MapNodes(t, e, L)[i] # a
      <4> SUFFICES ASSUME NEW i \in DOMAIN MapNodes(t, e, L)
                   PROVE  MapNodes(t, e, L)[i] \in Node /\ MapNodes(t, e, L)[i] # a
        OBVIOUS
      <4>1. /\ MapNodes(t, e, L) \in Seq(Node)
            /\ t.parent[MapNodes(t, e, L)[i]] = e
        BY <1>1, MapNodesListed
      <4>2. MapNodes(t, e, L)[i] \in Node
        BY <4>1
      <4>3. t.parent[a] = NoNode
        BY <1>1 DEF Good, Forest, ParentsAreContainers, Live
      <4> QED
        BY <1>1, <4>1, <4>2, <4>3, NoNodeIsNoNode
    <3>3. \A x \in Node : x # a => v.value[x] = t.value[x]
      BY <1>1, <2>2 DEF Good, Tree
    <3> HIDE DEF v
    <3> QED
      BY <3>1, <3>2, <3>3 DEF Entries
  <2>7. Row(v, a) = <<NameOf[a], <<a>>>>
    BY <1>1, <2>2 DEF Row, Good, Tree
  <2>8. InsertEntry(t, e, K, a) = o
    BY <1>3 DEF InsertEntry
  <2> HIDE DEF v
  <2>9. /\ o.res = "ok" /\ OthersStay(v, o.tree, e, K)
        /\ Entries(o.tree, e, K) = Append(Entries(v, e, K), Row(v, a))
        /\ ~HasName(Entries(v, e, K), NameOf[a])
    BY <2>1, <2>3, <2>4, <2>5, Placed
  <2> HIDE DEF o, was
  <2>10. Entries(o.tree, e, K) = Append(was, <<NameOf[a], <<a>>>>)
         /\ ~HasName(was, NameOf[a])
    BY <2>6, <2>7, <2>9 DEF was
  <2>11. OthersStay(t, o.tree, e, K)
    BY <2>5, <2>6, <2>9 DEF OthersStay
  <2> QED
    BY <2>8, <2>9, <2>10, <2>11 DEF Put, was
<1> QED
  BY <1>2, <1>3

\* A sequence without one member, by position.
LEMMA RemoveAtIs ==
    ASSUME NEW n \in Nat, NEW f, DOMAIN f = 1 .. n, f = [m \in 1 .. n |-> f[m]],
           NEW i \in 1 .. n
    PROVE  Len(f) = n /\ RemoveAt(f, i) = Shortened(f, i - 1, 1)
<1> DEFINE S == {f[m] : m \in 1 .. n}
           g == SubSeq(f, 1, i - 1)
           h == SubSeq(f, i + 1, Len(f))
           r == g \o h
<1>1. f \in Seq(S)
  <2>1. \A m \in 1 .. n : f[m] \in S
    OBVIOUS
  <2> HIDE DEF S
  <2>2. f \in [1 .. n -> S]
    BY <2>1
  <2> QED
    BY <2>2
<1> HIDE DEF S
<1>2. Len(f) = n
  BY <1>1
<1>3. /\ g \in Seq(S) /\ Len(g) = i - 1 /\ \A m \in 1 .. i - 1 : g[m] = f[m]
      /\ h \in Seq(S) /\ Len(h) = n - i /\ \A m \in 1 .. n - i : h[m] = f[i + m]
  <2>1. g \in Seq(S) /\ Len(g) = i - 1
    BY <1>1, <1>2
  <2>2. h \in Seq(S) /\ Len(h) = n - i
    BY <1>1, <1>2
  <2>3. ASSUME NEW m \in 1 .. i - 1 PROVE g[m] = f[m]
    BY <1>1, <1>2
  <2>4. ASSUME NEW m \in 1 .. n - i PROVE h[m] = f[i + m]
    BY <1>1, <1>2
  <2> HIDE DEF g, h
  <2> QED
    BY <2>1, <2>2, <2>3, <2>4
<1>4. /\ r \in Seq(S) /\ Len(r) = Len(g) + Len(h)
      /\ \A m \in 1 .. Len(g) : r[m] = g[m]
      /\ \A m \in 1 .. Len(h) : r[Len(g) + m] = h[m]
  <2> HIDE DEF g, h
  <2>1. g \in Seq(S)
    BY <1>3
  <2>2. h \in Seq(S)
    BY <1>3
  <2>3. r \in Seq(S) /\ Len(r) = Len(g) + Len(h)
    BY <2>1, <2>2
  <2>4. \A m \in 1 .. Len(g) : r[m] = g[m]
    BY <2>1, <2>2, Concat
  <2>5. \A m \in 1 .. Len(h) : r[Len(g) + m] = h[m]
    BY <2>1, <2>2, Concat
  <2> QED
    BY <2>3, <2>4, <2>5
<1> HIDE DEF g, h
<1>5. Len(r) = n - 1
  BY <1>3, <1>4
<1>6. ASSUME NEW m \in 1 .. n - 1
      PROVE  r[m] = IF m <= i - 1 THEN f[m] ELSE f[m + 1]
  <2>1. CASE m <= i - 1
    <3>1. m \in 1 .. i - 1
      BY <2>1
    <3> QED
      BY <1>3, <1>4, <2>1, <3>1
  <2>2. CASE ~(m <= i - 1)
    <3> DEFINE k == m - (i - 1)
    <3>1. k \in 1 .. n - i /\ Len(g) + k = m /\ i + k = m + 1
      BY <1>3, <2>2
    <3> HIDE DEF k
    <3>2. r[Len(g) + k] = h[k] /\ h[k] = f[i + k]
      BY <1>3, <1>4, <3>1
    <3> QED
      BY <2>2, <3>1, <3>2
  <2> QED
    BY <2>1, <2>2
<1>7. r = [m \in 1 .. n - 1 |-> r[m]]
  <2>1. r \in Seq(S)
    BY <1>4
  <2> HIDE DEF r
  <2> QED
    BY <1>5, <2>1
<1>8. RemoveAt(f, i) = r
  BY DEF RemoveAt, g, h
<1> HIDE DEF r
<1> QED
  BY <1>2, <1>6, <1>7, <1>8 DEF Shortened

\* A node cut out of the children of its parent is read no more, and every other
\* entry is read as it was.
LEMMA EntryCut ==
    ASSUME NEW t, Good(t), Ordered(t), NEW u, Good(u), NEW p \in Node,
           NEW K \in Maps, NEW x \in K, t.parent[x] = p,
           u.kids[p] = Splice(t.kids[p], Position(t, x) - 1, Position(t, x), <<>>),
           \A y \in Range(u.kids[p]) : u.value[y] = t.value[y]
    PROVE  /\ OthersStay(t, u, p, K)
           /\ Entries(u, p, K) = NotNamed(Entries(t, p, K), NameOf[x])
<1> DEFINE was == Entries(t, p, K)
           old == GetNode(t, p, K, NameOf[x])
           s   == t.kids[p]
           b   == MapStart(t, p, K)
           c   == MapEnd(t, p, K)
           n   == c - b
           k   == Position(t, x)
           i   == k - b
<1>1. x \in Node /\ Attributes # Namespaces
  BY KindsAreDisjoint DEF Maps, Node, Abnormal
<1>2. s \in Seq(Node) /\ Len(s) \in Nat /\ k \in 1 .. Len(s) /\ s[k] = x
  BY <1>1, PositionListed, NoNodeIsNoNode
<1>3. b \in 0 .. Len(s) /\ c \in b .. Len(s)
  BY MapIsRun
<1>4. k \in b + 1 .. c
  <2>1. k \in DOMAIN t.kids[p] /\ t.kids[p][k] \in K
    BY <1>2
  <2> HIDE DEF k, b, c
  <2> QED
    BY <2>1, MapHoldsAll DEF b, c
<1>5. /\ n \in Nat /\ DOMAIN was = 1 .. n /\ was = [m \in 1 .. n |-> was[m]]
      /\ \A m \in 1 .. n : was[m][1] = NameOf[s[b + m]]
      /\ HasName(was, NameOf[x]) <=> old # NoNode
      /\ old # NoNode => \E l \in 1 .. n : \A m \in 1 .. n : was[m][1] = NameOf[x] => m = l
  BY NameAt
<1> HIDE DEF was, old, b, c, k
<1>6. i \in 1 .. n /\ b + i = k
  BY <1>3, <1>4
<1>7. was[i][1] = NameOf[x] /\ HasName(was, NameOf[x])
  BY <1>2, <1>5, <1>6 DEF HasName
<1>8. \A m \in DOMAIN was : was[m][1] = NameOf[x] => m = i
  BY <1>5, <1>6, <1>7
<1>9. (CHOOSE m \in DOMAIN was : was[m][1] = NameOf[x]) = i
  BY <1>5, <1>6, <1>7, <1>8
<1>10. NotNamed(was, NameOf[x]) = RemoveAt(was, i)
  BY <1>7, <1>9 DEF NotNamed
<1>11. Len(was) = n /\ RemoveAt(was, i) = Shortened(was, i - 1, 1)
  <2> HIDE DEF i, n
  <2> QED
    BY <1>5, <1>6, RemoveAtIs
<1>12. OthersStay(t, u, p, K) /\ Entries(u, p, K) = Shortened(was, (k - 1) - b, k - (k - 1))
  <2> DEFINE h == k - 1
  <2>1. h \in b .. c /\ k \in h .. c
    BY <1>3, <1>4
  <2>2. u.kids[p] = Splice(t.kids[p], h, k, <<>>)
    BY DEF k
  <2> HIDE DEF h
  <2>3. OthersStay(t, u, p, K) /\ Entries(u, p, K) = Shortened(was, h - b, k - h)
    BY <1>1, <2>1, <2>2, RunCut DEF b, c, was
  <2> QED
    BY <2>3 DEF h
<1>13. (k - 1) - b = i - 1 /\ k - (k - 1) = 1
  BY <1>2, <1>3
<1> QED
  BY <1>10, <1>11, <1>12, <1>13 DEF was

\* An entry has no text beside it, nothing below it, and nothing is merged when
\* it goes.
LEMMA EntryRemoved ==
    ASSUME NEW t, Good(t), Ordered(t), NEW x \in Abnormal
    PROVE  LET u == RemoveNode(t, x).tree
           IN /\ RemoveNode(t, x).res = "ok" /\ Good(u)
              /\ \A q \in Node \ {x} : u.kids[q] = Unlink(t, x).kids[q]
              /\ \A m \in Node \ {x} : u.value[m] = t.value[m]
<1> DEFINE R == RemoveSubtree(t, x)
           prev == PreviousSibling(t, x)
           next == NextSibling(t, x)
<1>1. x \in Node /\ x \notin Container /\ x \notin Normal
  BY KindsAreDisjoint DEF Node, Container, Normal, Abnormal
<1>2. prev \notin Texts
  BY <1>1, NoNodeIsNoNode
     DEF PreviousSibling, Neighbour, SameCategory, Normal, Node
<1>3. RemoveNode(t, x) = Ok(R)
  BY <1>2 DEF RemoveNode, RemoveConsolidate
<1>4. Subtree(t, x) = {x}
  BY <1>1 DEF Subtree, AncestorsOrSelf, Ancestors
<1>5. Good(R) /\ \A q \in Node : R.kids[q] = IF q \in Subtree(t, x) THEN <<>>
                                             ELSE Unlink(t, x).kids[q]
  BY <1>1, RemoveSubtreeGood, RemoveSubtreeThinner
<1>6. \A m \in Node \ {x} : R.value[m] = t.value[m]
  <2>1. Unlink(t, x).value = t.value
    BY DEF Unlink, Good, Tree
  <2>2. Unlink(t, x) \in Tree
    BY <1>1, UnlinkGood DEF Good
  <2>3. R.value = [m \in Node |-> IF m \in Subtree(t, x) THEN <<>> ELSE t.value[m]]
    BY <2>1, <2>2 DEF RemoveSubtree, Tree
  <2> QED
    BY <1>4, <2>3
<1> HIDE DEF R
<1> QED
  BY <1>3, <1>4, <1>5, <1>6 DEF Ok

\* remove
LEMMA RemoveEntryReads ==
    ASSUME NEW t, Good(t), Ordered(t), NEW e \in Elements, NEW K \in Maps, NEW name
    PROVE  LET o == RemoveEntry(t, e, K, name)
           IN /\ o.res = "ok" /\ OthersStay(t, o.tree, e, K)
              /\ Entries(o.tree, e, K) = NotNamed(Entries(t, e, K), name)
<1> DEFINE old == GetNode(t, e, K, name)
           was == Entries(t, e, K)
<1>1. e \in Node /\ e \notin Abnormal
  BY KindsAreDisjoint DEF Node, Normal, Abnormal
<1>2. /\ HasName(was, name) <=> old # NoNode
      /\ old # NoNode => old \in K /\ NameOf[old] = name
  BY <1>1, NameAt
<1>3. CASE old = NoNode
  <2>1. RemoveEntry(t, e, K, name) = Ok(t)
    BY <1>3 DEF RemoveEntry
  <2>2. NotNamed(was, name) = was
    BY <1>2, <1>3 DEF NotNamed
  <2> QED
    BY <2>1, <2>2 DEF Ok, OthersStay
<1>4. CASE old # NoNode
  <2> DEFINE o == RemoveNode(t, old)
             u == o.tree
  <2>1. RemoveEntry(t, e, K, name) = o
    BY <1>4 DEF RemoveEntry
  <2>2. old \in K /\ old \in Abnormal /\ old \in Node /\ NameOf[old] = name /\ old # e
    BY <1>1, <1>2, <1>4 DEF Maps, Abnormal, Node
  <2>3. t.parent[old] = e
    <3>1. \E i \in DOMAIN MapNodes(t, e, K) : old = MapNodes(t, e, K)[i]
      BY <1>1, <1>4, GetNodeFinds
    <3> QED
      BY <1>1, <3>1, MapNodesListed
  <2> HIDE DEF old
  <2>4. /\ o.res = "ok" /\ Good(u)
        /\ \A q \in Node \ {old} : u.kids[q] = Unlink(t, old).kids[q]
        /\ \A m \in Node \ {old} : u.value[m] = t.value[m]
    BY <2>2, EntryRemoved
  <2> HIDE DEF o
  <2>5. u.kids[e] = Unlink(t, old).kids[e]
    BY <1>1, <2>2, <2>4
  <2>6. u.kids[e] = Splice(t.kids[e], Position(t, old) - 1, Position(t, old), <<>>)
    BY <1>1, <2>2, <2>3, <2>5, UnlinkKids
  <2>7. \A y \in Range(u.kids[e]) : u.value[y] = t.value[y]
    <3>1. Range(Unlink(t, old).kids[e]) = Range(t.kids[e]) \ {old}
      BY <1>1, <2>2, UnlinkGood
    <3>2. \A y \in Range(u.kids[e]) : y \in Node
      BY <1>1, <2>4 DEF Good, Tree, Range
    <3> QED
      BY <2>4, <2>5, <3>1, <3>2
  <2>8. OthersStay(t, u, e, K) /\ Entries(u, e, K) = NotNamed(was, NameOf[old])
    BY <1>1, <2>2, <2>3, <2>4, <2>6, <2>7, EntryCut
  <2> QED
    BY <2>1, <2>2, <2>4, <2>8
<1> QED
  BY <1>3, <1>4

\* clear
LEMMA ClearMapReads ==
    ASSUME NEW t, Good(t), Ordered(t), NEW e \in Elements, NEW K \in Maps,
           Attributes # Namespaces
    PROVE  LET o == ClearMap(t, e, K)
           IN /\ o.res = "ok" /\ OthersStay(t, o.tree, e, K)
              /\ Entries(o.tree, e, K) = <<>>
<1> DEFINE s == t.kids[e]
           b == MapStart(t, e, K)
           c == MapEnd(t, e, K)
           u == FreeRun(t, e, b, c)
           was == Entries(t, e, K)
<1>1. e \in Node /\ s \in Seq(Node) /\ Len(s) \in Nat
  BY DEF Node, Normal, Good, Tree
<1>2. /\ b \in 0 .. Len(s) /\ c \in b .. Len(s)
      /\ \A i \in b + 1 .. c : s[i] \in K
  BY <1>1, MapIsRun
<1>3. \A x \in K : x \notin Container
  BY KindsAreDisjoint DEF Maps, Container, Abnormal
<1>4. ClearMap(t, e, K) = Ok(u)
  BY DEF ClearMap
<1>5. /\ DOMAIN was = 1 .. c - b /\ was = [m \in 1 .. c - b |-> was[m]]
  BY <1>1, NameAt
<1> HIDE DEF b, c
<1>6. Good(u) /\ u.kids[e] = Splice(s, b, c, <<>>)
  BY <1>1, <1>2, <1>3, FreeRunGood, FreeRunThinner
<1>7. \A y \in Range(u.kids[e]) : u.value[y] = t.value[y]
  <2> DEFINE gone == {s[k] : k \in b + 1 .. c}
  <2>1. /\ u.parent = [m \in Node |-> IF m \in gone THEN NoNode ELSE t.parent[m]]
        /\ u.value = [m \in Node |-> IF m \in gone THEN <<>> ELSE t.value[m]]
    BY DEF FreeRun, Good, Tree
  <2> SUFFICES ASSUME NEW y \in Range(u.kids[e]) PROVE u.value[y] = t.value[y]
    OBVIOUS
  <2>2. u.parent[y] = e /\ y \in Node
    BY <1>1, <1>6 DEF Good, Tree, Range, Forest, KidsAgree
  <2> HIDE DEF gone
  <2> QED
    BY <1>1, <2>1, <2>2, NoNodeIsNoNode
<1> HIDE DEF u
<1>8. OthersStay(t, u, e, K) /\ Entries(u, e, K) = Shortened(was, b - b, c - b)
  <2>1. b \in b .. c /\ c \in b .. c
    BY <1>2
  <2> QED
    BY <1>1, <1>6, <1>7, <2>1, RunCut DEF b, c
<1>9. Len(was) = c - b /\ c - b \in Nat
  <2>1. c - b \in Nat
    BY <1>2
  <2> DEFINE n == c - b
  <2> HIDE DEF n, was
  <2>2. n \in Nat /\ DOMAIN was = 1 .. n /\ was = [m \in 1 .. n |-> was[m]]
    BY <1>5, <2>1 DEF n
  <2>3. Len(was) = n
    BY <2>2, AppendIs
  <2> QED
    BY <2>1, <2>3 DEF n
<1>10. Shortened(was, b - b, c - b) = <<>>
  <2> HIDE DEF was
  <2>1. 1 .. Len(was) - (c - b) = {}
    BY <1>9
  <2> QED
    BY <2>1 DEF Shortened
<1> QED
  BY <1>4, <1>8, <1>10 DEF Ok

\* What is not touched is read as before.
LEMMA SameEntries ==
    ASSUME NEW t, Good(t), NEW u, Good(u), NEW p \in Node, NEW K \in Maps,
           u.kids[p] = t.kids[p],
           \A x \in Range(t.kids[p]) : u.value[x] = t.value[x]
    PROVE  Entries(u, p, K) = Entries(t, p, K)
<1> DEFINE s == t.kids[p]
           b == MapStart(t, p, K)
           c == MapEnd(t, p, K)
<1>1. /\ b \in Nat /\ c \in Nat /\ b <= c /\ c <= Len(s)
      /\ Entries(t, p, K) = [m \in 1 .. c - b |-> Row(t, s[b + m])]
  BY EntriesRead DEF Row
<1>2. LET d == MapStart(u, p, K)
          h == MapEnd(u, p, K)
      IN Entries(u, p, K) = [m \in 1 .. h - d |-> Row(u, u.kids[p][d + m])]
  BY EntriesRead DEF Row
<1>3. MapStart(u, p, K) = b
  BY DEF MapStart
<1>4. MapEnd(u, p, K) = c
  BY <1>3 DEF MapEnd
<1>5. s \in Seq(Node) /\ Len(s) \in Nat
  BY DEF Good, Tree
<1> HIDE DEF b, c
<1>6. ASSUME NEW m \in 1 .. c - b PROVE Row(u, s[b + m]) = Row(t, s[b + m])
  <2> DEFINE x == s[b + m]
  <2>1. b + m \in DOMAIN s
    BY <1>1, <1>5
  <2>2. u.value[x] = t.value[x]
    BY <2>1 DEF Range
  <2> QED
    BY <2>2 DEF Row
<1>7. Entries(u, p, K) = [m \in 1 .. c - b |-> Row(u, s[b + m])]
  BY <1>2, <1>3, <1>4
<1> QED
  BY <1>1, <1>6, <1>7

\* append of an attribute or a namespace node
LEMMA AppendEntryReads ==
    ASSUME NEW t, Good(t), Ordered(t), NEW e \in Elements, NEW K \in Maps, NEW a \in K,
           Live(t, e), Live(t, a)
    PROVE  LET o == AppendEntryNode(t, e, K, a)
               from == t.parent[a]
               taken == HasName(Entries(t, e, K), NameOf[a])
           IN /\ o.res = "ok"
              /\ Entries(o.tree, e, K) = Put(Entries(t, e, K), NameOf[a], t.value[a])
              /\ from # NoNode /\ from # e =>
                    Entries(o.tree, from, K) =
                       IF taken THEN Entries(t, from, K)
                       ELSE NotNamed(Entries(t, from, K), NameOf[a])
<1> DEFINE old  == GetNode(t, e, K, NameOf[a])
           was  == Entries(t, e, K)
           from == t.parent[a]
           o    == AppendEntryNode(t, e, K, a)
<1>1. /\ e \in Node /\ a \in Node /\ a \in Abnormal /\ a # e
      /\ Attributes # Namespaces /\ t.value[a] \in Seq(Node)
  BY KindsAreDisjoint DEF Node, Normal, Abnormal, Maps, Good, Tree
<1>2. o = InsertNode(t, e, K, a)
  BY DEF AppendEntryNode
<1>3. HasName(was, NameOf[a]) <=> old # NoNode
  BY <1>1, NameAt
<1>4. from # NoNode => from \in Node
  BY <1>1 DEF Good, Tree
<1>5. CASE old # NoNode
  <2> DEFINE u == [t EXCEPT !.value[old] = t.value[a]]
  <2>1. o = Ok(u)
    BY <1>2, <1>5 DEF InsertNode
  <2>2. old \in Node /\ t.parent[old] = e
    <3>1. \E i \in DOMAIN MapNodes(t, e, K) : old = MapNodes(t, e, K)[i]
      BY <1>1, <1>3, <1>5, GetNodeFinds
    <3>2. old \in Node
      BY <1>1, <1>5, GetNodeIsNode
    <3> QED
      BY <1>1, <3>1, <3>2, MapNodesListed
  <2>3. Good(u) /\ u.kids = t.kids /\ ValueSet(t, u, old, t.value[a])
    <3>1. PICK x : x = old
      OBVIOUS
    <3>2. PICK v : v = t.value[a]
      OBVIOUS
    <3>3. x \in Node
      BY <2>2, <3>1
    <3>4. v \in Seq(Node)
      BY <1>1, <3>2
    <3>5. u = [t EXCEPT !.value[x] = v]
      BY <3>1, <3>2
    <3> HIDE DEF u, old
    <3>6. Good(u) /\ u.kids = t.kids /\ ValueSet(t, u, x, v)
      BY <3>3, <3>4, <3>5, Revalued
    <3> QED
      BY <3>1, <3>2, <3>6
  <2> HIDE DEF u
  <2>4. Entries(u, e, K) = Put(was, NameOf[a], t.value[a])
    BY <1>1, <1>5, <2>3, Renewed
  <2>5. ASSUME from # NoNode, from # e
        PROVE  Entries(u, from, K) = Entries(t, from, K)
    <3>1. \A x \in Range(t.kids[from]) : u.value[x] = t.value[x]
      <4> SUFFICES ASSUME NEW x \in Range(t.kids[from]) PROVE u.value[x] = t.value[x]
        OBVIOUS
      <4>1. x \in Node /\ t.parent[x] = from
        BY <1>4, <2>5 DEF Good, Tree, Range, Forest, KidsAgree
      <4>2. x # old
        BY <2>2, <2>5, <4>1
      <4> QED
        BY <2>3, <4>1, <4>2 DEF ValueSet
    <3>2. u.kids[from] = t.kids[from] /\ from \in Node
      BY <1>4, <2>3, <2>5
    <3> HIDE DEF from
    <3> QED
      BY <2>3, <3>1, <3>2, SameEntries
  <2> HIDE DEF o, old
  <2> QED
    BY <1>3, <1>5, <2>1, <2>4, <2>5 DEF Ok, o
<1>6. CASE old = NoNode
  <2> DEFINE w == Unlink(t, a)
             c == MapEnd(t, e, K)
             f == Link(w, e, c, a)
  <2>1. o = PlaceEntry(t, e, K, a)
    BY <1>2, <1>6 DEF InsertNode
  <2>2. /\ o.res = "ok" /\ Entries(o.tree, e, K) = Append(was, Row(t, a))
        /\ ~HasName(was, NameOf[a]) /\ o.tree = f /\ Good(o.tree)
    BY <1>6, <2>1, Placed
  <2>3. Entries(o.tree, e, K) = Put(was, NameOf[a], t.value[a])
    BY <2>2 DEF Put, Row
  <2>4. ASSUME from # NoNode, from # e
        PROVE  Entries(f, from, K) = NotNamed(Entries(t, from, K), NameOf[a])
    <3>1. f.value = t.value
      BY DEF Link, Unlink, Good, Tree
    <3>2. w.kids[from] =
            Splice(t.kids[from], Position(t, a) - 1, Position(t, a), <<>>)
      BY <1>1, <1>4, <2>4, UnlinkKids
    <3>3. f.kids[from] = w.kids[from]
      BY <1>4, <2>4 DEF Link, Unlink, Good, Tree
    <3>4. from \in Node /\ Good(f)
      BY <1>4, <2>2, <2>4
    <3>5. \A y \in Range(f.kids[from]) : f.value[y] = t.value[y]
      BY <3>1
    <3>6. f.kids[from] =
            Splice(t.kids[from], Position(t, a) - 1, Position(t, a), <<>>)
      BY <3>2, <3>3
    <3>7. t.parent[a] = from
      OBVIOUS
    <3> HIDE DEF f, from
    <3> QED
      BY <3>4, <3>5, <3>6, <3>7, EntryCut
  <2> HIDE DEF o, f
  <2> QED
    BY <2>2, <2>3, <2>4 DEF o
<1> QED
  BY <1>5, <1>6

\* The contracts of the maps hold in every tree that a careful program makes.
LEMMA MapsKept == OrderInv => MapContract /\ AppendEntryContract
<1> SUFFICES ASSUME OrderInv PROVE MapContract /\ AppendEntryContract
  OBVIOUS
<1>1. Good(tree) /\ Ordered(tree)
  BY DEF OrderInv, Inv, Good
<1>2. \A K \in Maps : \A a \in K : Attributes # Namespaces
  BY KindsAreDisjoint DEF Maps
<1>3. \A e \in LiveNormal(tree) \cap Elements : Live(tree, e)
  BY DEF LiveNormal
<1>4. MapContract
  <2> SUFFICES ASSUME NEW e \in LiveNormal(tree) \cap Elements, NEW a \in Abnormal,
                      NEW K \in {Attributes, Namespaces}, a \in K
               PROVE  LET other == IF K = Attributes THEN Namespaces ELSE Attributes
                          same(o) == /\ o.res = "ok"
                                     /\ Entries(o.tree, e, other) = Entries(tree, e, other)
                                     /\ Children(o.tree, e) = Children(tree, e)
                          ins == InsertEntry(tree, e, K, a)
                          rem == RemoveEntry(tree, e, K, NameOf[a])
                          clr == ClearMap(tree, e, K)
                          was == Entries(tree, e, K)
                      IN /\ tree.phase[a] = "fresh" =>
                              same(ins) /\ Entries(ins.tree, e, K) = Put(was, NameOf[a], <<a>>)
                         /\ same(rem) /\ Entries(rem.tree, e, K) = NotNamed(was, NameOf[a])
                         /\ same(clr) /\ Entries(clr.tree, e, K) = <<>>
    BY DEF MapContract
  <2> DEFINE other == IF K = Attributes THEN Namespaces ELSE Attributes
             ins == InsertEntry(tree, e, K, a)
             rem == RemoveEntry(tree, e, K, NameOf[a])
             clr == ClearMap(tree, e, K)
  <2>1. K \in Maps /\ e \in Elements /\ Live(tree, e)
    BY <1>3 DEF Maps
  <2>2. other \in Maps \ {K}
    BY <1>2, <2>1 DEF Maps
  <2>3. Attributes # Namespaces
    BY <1>2, <2>1
  <2>4. tree.phase[a] = "fresh" =>
          /\ ins.res = "ok" /\ OthersStay(tree, ins.tree, e, K)
          /\ Entries(ins.tree, e, K) = Put(Entries(tree, e, K), NameOf[a], <<a>>)
    BY <1>1, <2>1, InsertEntryReads
  <2>5. /\ rem.res = "ok" /\ OthersStay(tree, rem.tree, e, K)
        /\ Entries(rem.tree, e, K) = NotNamed(Entries(tree, e, K), NameOf[a])
    BY <1>1, <2>1, RemoveEntryReads
  <2>6. /\ clr.res = "ok" /\ OthersStay(tree, clr.tree, e, K)
        /\ Entries(clr.tree, e, K) = <<>>
    BY <1>1, <2>1, <2>3, ClearMapReads
  <2> HIDE DEF ins, rem, clr, other
  <2> QED
    BY <2>2, <2>4, <2>5, <2>6 DEF OthersStay, ins, rem, clr, other
<1>5. AppendEntryContract
  BY <1>1, <1>3, AppendEntryReads DEF AppendEntryContract, Maps
<1> QED
  BY <1>4, <1>5

\* Whatever a careful caller does: inserting under a name that an attribute or
\* namespace map has updates the entry in place, any other name is added last,
\* removing takes out that entry only, clearing takes out all, and the other map
\* and the children stay (nodemap/core.rs, insert, remove and clear).
THEOREM MapsChangeAsDocumented ==
    ASSUME ~AnyCall
    PROVE  Spec => []MapContract
<1>1. OrderInv => MapContract
  BY MapsKept
<1> QED
  BY <1>1, OrderInvariance, PTL

\* Appending an attribute or namespace node moves it out of the map that it was
\* in, or, where its name is taken, only copies its value (manipulation.rs,
\* append of nodes that are not normal, and nodemap/core.rs, insert_node).
THEOREM EntriesAreMovedOrCopied ==
    ASSUME ~AnyCall
    PROVE  Spec => []AppendEntryContract
<1>1. OrderInv => AppendEntryContract
  BY MapsKept
<1> QED
  BY <1>1, OrderInvariance, PTL
=============================================================================
