---------------------------- MODULE XotTexts_proofs ----------------------------
(***************************************************************************)
(* What consolidation promises.  No piece of text is ever held twice.  And *)
(* with careful callers, text nodes never become neighbours, no piece is   *)
(* lost but by remove and replace, and no call panics on a node that it    *)
(* has freed.                                                              *)
(*                                                                         *)
(* The argument is about pairs of neighbours: Beside(t, x, y) says that y  *)
(* stands directly behind x.  Taking n out makes neighbours of the two     *)
(* beside it, and of no others; putting n somewhere parts two neighbours.  *)
(* A tree in the middle of a call has a gap, two texts side by side, in    *)
(* one known place at most, and the merge that follows is for that place.  *)
(***************************************************************************)
EXTENDS XotOrder_proofs

-----------------------------------------------------------------------------
(* Neighbours in a sequence. *)

NextTo(s, x, y) ==
    \E i \in DOMAIN s : i + 1 \in DOMAIN s /\ s[i] = x /\ s[i + 1] = y

\* No integer lies between two consecutive ones.
LEMMA Consecutive ==
    ASSUME NEW m \in Int, NEW n \in Int, m <= n, n < m + 1
    PROVE  m = n
OBVIOUS

\* The neighbours in a splice.
LEMMA SpliceNext ==
    ASSUME NEW S, NEW s \in Seq(S), NEW q \in Seq(S),
           NEW i \in 0 .. Len(s), NEW j \in i .. Len(s),
           NEW x, NEW y, NextTo(Splice(s, i, j, q), x, y)
    PROVE  \/ \E k \in DOMAIN s : k + 1 \in DOMAIN s /\ s[k] = x /\ s[k + 1] = y
                                  /\ (k < i \/ j < k)
           \/ NextTo(q, x, y)
           \/ 1 <= i /\ x = s[i] /\ 1 <= Len(q) /\ y = q[1]
           \/ j < Len(s) /\ y = s[j + 1] /\ 1 <= Len(q) /\ x = q[Len(q)]
           \/ 1 <= i /\ x = s[i] /\ j < Len(s) /\ y = s[j + 1] /\ Len(q) = 0
<1> DEFINE r == Splice(s, i, j, q)
           At(k) == k - i - Len(q) + j
<1>1. Len(s) \in Nat /\ Len(q) \in Nat /\ DOMAIN s = 1 .. Len(s)
      /\ DOMAIN q = 1 .. Len(q)
  OBVIOUS
<1>2. PICK k \in DOMAIN r : k + 1 \in DOMAIN r /\ r[k] = x /\ r[k + 1] = y
  BY DEF NextTo
<1>3. \A h \in DOMAIN r :
        /\ h \in Nat
        /\ \/ h <= i /\ h \in DOMAIN s /\ r[h] = s[h]
           \/ i < h /\ h <= i + Len(q) /\ h - i \in DOMAIN q /\ r[h] = q[h - i]
           \/ i + Len(q) < h /\ At(h) \in DOMAIN s /\ j < At(h) /\ r[h] = s[At(h)]
  BY SpliceAt
<1> HIDE DEF r
<1> DEFINE l == k + 1
<1>4. k \in Nat /\ l = k + 1 /\ l \in Nat /\ l \in DOMAIN r /\ r[l] = y
  BY <1>2, <1>3
<1> HIDE DEF l
<1>5. CASE k <= i /\ k \in DOMAIN s /\ r[k] = s[k]
  <2>1. CASE l <= i /\ l \in DOMAIN s /\ r[l] = s[l]
    <3>1. k < i
      BY <1>1, <1>4, <2>1
    <3> QED
      BY <1>2, <1>4, <1>5, <2>1, <3>1
  <2>2. CASE i < l /\ l <= i + Len(q) /\ l - i \in DOMAIN q /\ r[l] = q[l - i]
    <3>1. k = i /\ l - i = 1 /\ 1 <= Len(q)
      BY <1>1, <1>4, <1>5, <2>2
    <3> QED
      BY <1>1, <1>2, <1>4, <1>5, <2>2, <3>1
  <2>3. CASE i + Len(q) < l /\ At(l) \in DOMAIN s /\ j < At(l) /\ r[l] = s[At(l)]
    <3>1. k = i /\ Len(q) = 0 /\ At(l) = j + 1 /\ j < Len(s)
      BY <1>1, <1>4, <1>5, <2>3
    <3> QED
      BY <1>1, <1>2, <1>4, <1>5, <2>3, <3>1
  <2> QED
    BY <1>3, <1>4, <2>1, <2>2, <2>3
<1>6. CASE i < k /\ k <= i + Len(q) /\ k - i \in DOMAIN q /\ r[k] = q[k - i]
  <2>1. 1 <= Len(q)
    BY <1>1, <1>6
  <2>2. CASE l <= i /\ l \in DOMAIN s /\ r[l] = s[l]
    BY <1>1, <1>4, <1>6, <2>2
  <2>3. CASE i < l /\ l <= i + Len(q) /\ l - i \in DOMAIN q /\ r[l] = q[l - i]
    <3> DEFINE h == k - i
    <3>1. h \in DOMAIN q /\ q[h] = x /\ h + 1 = l - i
      BY <1>1, <1>2, <1>4, <1>6
    <3> HIDE DEF h
    <3> QED
      BY <1>4, <2>3, <3>1 DEF NextTo
  <2>4. CASE i + Len(q) < l /\ At(l) \in DOMAIN s /\ j < At(l) /\ r[l] = s[At(l)]
    <3>1. k <= i + Len(q) /\ i + Len(q) < k + 1 /\ k \in Int /\ i + Len(q) \in Int
      BY <1>1, <1>4, <1>6, <2>4
    <3>2. k = i + Len(q)
      BY <3>1, Consecutive
    <3>3. k - i = Len(q) /\ l = i + Len(q) + 1
      BY <1>1, <1>4, <3>2
    <3>4. At(l) = j + 1
      BY <1>1, <3>3
    <3>5. j < Len(s) /\ y = s[j + 1]
      BY <1>1, <1>4, <2>4, <3>4
    <3>6. x = q[Len(q)]
      BY <1>2, <1>6, <3>3
    <3> QED
      BY <2>1, <3>5, <3>6
  <2> QED
    BY <1>3, <1>4, <2>2, <2>3, <2>4
<1>7. CASE i + Len(q) < k /\ At(k) \in DOMAIN s /\ j < At(k) /\ r[k] = s[At(k)]
  <2>1. i + Len(q) < l /\ i < l
    BY <1>1, <1>4, <1>7
  <2>2. At(l) \in DOMAIN s /\ r[l] = s[At(l)]
    BY <1>1, <1>3, <1>4, <2>1
  <2> DEFINE h == At(k)
  <2>3. h + 1 = At(l) /\ h \in DOMAIN s /\ j < h /\ s[h] = x
    BY <1>1, <1>2, <1>4, <1>7
  <2> HIDE DEF h, At
  <2> QED
    BY <1>4, <2>2, <2>3
<1> QED
  BY <1>2, <1>3, <1>5, <1>6, <1>7

\* Cutting makes neighbours of the two around the cut, and of no others.
LEMMA CutNext ==
    ASSUME NEW S, NEW s \in Seq(S), NEW i \in 0 .. Len(s), NEW j \in i .. Len(s),
           NEW x, NEW y, NextTo(Splice(s, i, j, <<>>), x, y)
    PROVE  \/ NextTo(s, x, y)
           \/ 1 <= i /\ x = s[i] /\ j < Len(s) /\ y = s[j + 1]
<1> DEFINE e == <<>>
<1>1. e \in Seq(S) /\ DOMAIN e = {} /\ Len(e) = 0
  OBVIOUS
<1> HIDE DEF e
<1>2. ~NextTo(e, x, y)
  BY <1>1 DEF NextTo
<1>3. NextTo(Splice(s, i, j, e), x, y) /\ e \in Seq(S)
  BY <1>1 DEF e
<1>4. \/ \E k \in DOMAIN s : k + 1 \in DOMAIN s /\ s[k] = x /\ s[k + 1] = y
                             /\ (k < i \/ j < k)
      \/ NextTo(e, x, y)
      \/ 1 <= i /\ x = s[i] /\ 1 <= Len(e) /\ y = e[1]
      \/ j < Len(s) /\ y = s[j + 1] /\ 1 <= Len(e) /\ x = e[Len(e)]
      \/ 1 <= i /\ x = s[i] /\ j < Len(s) /\ y = s[j + 1] /\ Len(e) = 0
  BY <1>3, SpliceNext
<1> QED
  BY <1>1, <1>2, <1>4 DEF NextTo

\* Putting n somewhere parts the two around it.
LEMMA PutNext ==
    ASSUME NEW S, NEW s \in Seq(S), IsInjective(s), NEW i \in 0 .. Len(s), NEW n \in S,
           NEW x, NEW y, NextTo(Splice(s, i, i, <<n>>), x, y)
    PROVE  \/ NextTo(s, x, y) /\ (1 <= i => x # s[i])
           \/ 1 <= i /\ x = s[i] /\ y = n
           \/ i < Len(s) /\ x = n /\ y = s[i + 1]
<1> DEFINE e == <<n>>
<1>1. e \in Seq(S) /\ DOMAIN e = {1} /\ e[1] = n /\ Len(e) = 1
  OBVIOUS
<1> HIDE DEF e
<1>2. ~NextTo(e, x, y)
  BY <1>1 DEF NextTo
<1> DEFINE j == i
<1>3. /\ NextTo(Splice(s, i, j, e), x, y) /\ s \in Seq(S) /\ e \in Seq(S)
      /\ i \in 0 .. Len(s) /\ j \in i .. Len(s) /\ j = i
  BY <1>1 DEF e
<1> HIDE DEF j
<1>4. \/ \E k \in DOMAIN s : k + 1 \in DOMAIN s /\ s[k] = x /\ s[k + 1] = y
                             /\ (k < i \/ j < k)
      \/ NextTo(e, x, y)
      \/ 1 <= i /\ x = s[i] /\ 1 <= Len(e) /\ y = e[1]
      \/ j < Len(s) /\ y = s[j + 1] /\ 1 <= Len(e) /\ x = e[Len(e)]
      \/ 1 <= i /\ x = s[i] /\ j < Len(s) /\ y = s[j + 1] /\ Len(e) = 0
  BY <1>3, SpliceNext
<1>5. ASSUME NEW k \in DOMAIN s, k + 1 \in DOMAIN s, s[k] = x, s[k + 1] = y,
             k < i \/ i < k
      PROVE  NextTo(s, x, y) /\ (1 <= i => x # s[i])
  <2>1. 1 <= i => i \in DOMAIN s /\ k # i
    BY <1>5
  <2> QED
    BY <1>5, <2>1 DEF NextTo, IsInjective
<1> QED
  BY <1>1, <1>2, <1>3, <1>4, <1>5

-----------------------------------------------------------------------------
(* Neighbours in a tree. *)

Beside(t, x, y) == \E p \in Node : NextTo(t.kids[p], x, y)

\* Neighbours are children of one node.
LEMMA BesideListed ==
    ASSUME NEW t, Good(t), NEW x, NEW y, Beside(t, x, y)
    PROVE  /\ x \in Node /\ y \in Node /\ x # y
           /\ t.parent[x] \in Node /\ t.parent[y] = t.parent[x]
           /\ Live(t, x) /\ Live(t, y)
           /\ NextTo(t.kids[t.parent[x]], x, y)
           /\ Precedes(t.kids[t.parent[x]], x, y)
<1>1. PICK p \in Node : NextTo(t.kids[p], x, y)
  BY DEF Beside
<1>2. PICK i \in DOMAIN t.kids[p] :
          i + 1 \in DOMAIN t.kids[p] /\ t.kids[p][i] = x /\ t.kids[p][i + 1] = y
  BY <1>1 DEF NextTo
<1>3. /\ x \in Node /\ t.parent[x] = p /\ Live(t, x)
      /\ y \in Node /\ t.parent[y] = p /\ Live(t, y)
  BY <1>2, ParentsHaveKids
<1>4. t.kids[p] \in Seq(Node) /\ IsInjective(t.kids[p])
  BY DEF Good, Tree, Forest, KidsAgree
<1> DEFINE s == t.kids[p]
<1> HIDE DEF s
<1>5. i < i + 1 /\ x # y
  <2>1. s \in Seq(Node) /\ i \in DOMAIN s /\ i + 1 \in DOMAIN s /\ s[i] = x /\ s[i + 1] = y
        /\ IsInjective(s)
    BY <1>2, <1>4 DEF s
  <2>2. i < i + 1 /\ i # i + 1
    BY <2>1
  <2> QED
    BY <2>1, <2>2 DEF IsInjective
<1>6. Precedes(t.kids[p], x, y)
  BY <1>2, <1>5 DEF Precedes
<1> QED
  BY <1>1, <1>3, <1>5, <1>6

\* A node has one neighbour on each side.
LEMMA NextToUnique ==
    ASSUME NEW S, NEW s \in Seq(S), IsInjective(s), NEW x, NEW y, NEW z
    PROVE  /\ NextTo(s, x, y) /\ NextTo(s, x, z) => y = z
           /\ NextTo(s, y, x) /\ NextTo(s, z, x) => y = z
           /\ NextTo(s, y, x) /\ NextTo(s, x, z) => y # z
<1>1. ASSUME NextTo(s, x, y), NextTo(s, x, z) PROVE y = z
  BY <1>1 DEF NextTo, IsInjective
<1>2. ASSUME NextTo(s, y, x), NextTo(s, z, x) PROVE y = z
  <2>1. PICK i \in DOMAIN s : i + 1 \in DOMAIN s /\ s[i] = y /\ s[i + 1] = x
    BY <1>2 DEF NextTo
  <2>2. PICK j \in DOMAIN s : j + 1 \in DOMAIN s /\ s[j] = z /\ s[j + 1] = x
    BY <1>2 DEF NextTo
  <2>3. i + 1 = j + 1
    BY <2>1, <2>2 DEF IsInjective
  <2>4. i = j
    BY <2>3
  <2> QED
    BY <2>1, <2>2, <2>4
<1>3. ASSUME NextTo(s, y, x), NextTo(s, x, z) PROVE y # z
  <2>1. PICK i \in DOMAIN s : i + 1 \in DOMAIN s /\ s[i] = y /\ s[i + 1] = x
    BY <1>3 DEF NextTo
  <2>2. PICK j \in DOMAIN s : j + 1 \in DOMAIN s /\ s[j] = x /\ s[j + 1] = z
    BY <1>3 DEF NextTo
  <2>3. i + 1 = j
    BY <2>1, <2>2 DEF IsInjective
  <2>4. i # j + 1
    BY <2>3
  <2> QED
    BY <2>1, <2>2, <2>4 DEF IsInjective
<1> QED
  BY <1>1, <1>2, <1>3

LEMMA BesideUnique ==
    ASSUME NEW t, Good(t), NEW x, NEW y, NEW z
    PROVE  /\ Beside(t, x, y) /\ Beside(t, x, z) => y = z
           /\ Beside(t, y, x) /\ Beside(t, z, x) => y = z
           /\ Beside(t, y, x) /\ Beside(t, x, z) => y # z
<1> DEFINE s == t.kids[t.parent[x]]
<1>1. \A v : (Beside(t, x, v) => NextTo(s, x, v)) /\ (Beside(t, v, x) => NextTo(s, v, x))
  BY BesideListed
<1>2. \A v : Beside(t, x, v) \/ Beside(t, v, x) => s \in Seq(Node) /\ IsInjective(s)
  <2>1. \A v : Beside(t, x, v) \/ Beside(t, v, x) => t.parent[x] \in Node
    BY BesideListed
  <2> QED
    BY <2>1 DEF Good, Tree, Forest, KidsAgree
<1> HIDE DEF s
<1> QED
  BY <1>1, <1>2, NextToUnique

\* Two normal neighbours are siblings of each other.
LEMMA BesideSiblings ==
    ASSUME NEW t, Good(t), NEW x \in Normal, NEW y \in Normal, Beside(t, x, y)
    PROVE  NextSibling(t, x) = y /\ PreviousSibling(t, y) = x
<1> DEFINE s == t.kids[t.parent[x]]
<1>1. /\ x \in Node /\ y \in Node
      /\ t.parent[x] \in Node /\ t.parent[y] = t.parent[x]
      /\ NextTo(s, x, y)
  BY BesideListed
<1>2. t.parent[x] # NoNode /\ t.parent[y] # NoNode
  BY <1>1, NoNodeIsNoNode
<1>3. /\ s \in Seq(Node) /\ IsInjective(s)
      /\ Position(t, x) \in 1 .. Len(s) /\ s[Position(t, x)] = x
      /\ Position(t, y) \in 1 .. Len(s) /\ s[Position(t, y)] = y
  BY <1>1, <1>2, PositionListed
<1>4. SameCategory(x, y) /\ SameCategory(y, x)
  BY KindsAreDisjoint DEF SameCategory, Normal, Abnormal
<1>5. /\ NextSibling(t, x) = IF Position(t, x) + 1 \in DOMAIN s
                                 /\ SameCategory(s[Position(t, x) + 1], x)
                              THEN s[Position(t, x) + 1] ELSE NoNode
      /\ PreviousSibling(t, y) = IF Position(t, y) + -1 \in DOMAIN s
                                     /\ SameCategory(s[Position(t, y) + -1], y)
                                  THEN s[Position(t, y) + -1] ELSE NoNode
  BY <1>1, <1>2 DEF NextSibling, PreviousSibling, Neighbour
<1> DEFINE i == Position(t, x)
           j == Position(t, y)
<1> HIDE DEF s, i, j
<1>6. PICK k \in DOMAIN s : k + 1 \in DOMAIN s /\ s[k] = x /\ s[k + 1] = y
  BY <1>1 DEF NextTo
<1>7. i = k /\ j = k + 1 /\ j + -1 = k
  BY <1>3, <1>6 DEF IsInjective, i, j
<1> QED
  BY <1>4, <1>5, <1>6, <1>7 DEF i, j

\* The siblings of a normal node are normal, and beside it.
LEMMA SiblingsBeside ==
    ASSUME NEW t, Good(t), NEW n \in Normal
    PROVE  /\ NextSibling(t, n) # NoNode =>
                NextSibling(t, n) \in Normal /\ Beside(t, n, NextSibling(t, n))
           /\ PreviousSibling(t, n) # NoNode =>
                PreviousSibling(t, n) \in Normal /\ Beside(t, PreviousSibling(t, n), n)
<1> DEFINE s == t.kids[t.parent[n]]
           i == Position(t, n)
<1>1. n \in Node
  BY DEF Node
<1>2. CASE t.parent[n] = NoNode
  BY <1>2 DEF NextSibling, PreviousSibling, Neighbour
<1>3. CASE t.parent[n] # NoNode
  <2>1. t.parent[n] \in Node /\ s \in Seq(Node) /\ i \in 1 .. Len(s) /\ s[i] = n
    BY <1>1, <1>3, PositionListed DEF Container, Node, Normal
  <2>2. /\ NextSibling(t, n) = IF i + 1 \in DOMAIN s /\ SameCategory(s[i + 1], n)
                               THEN s[i + 1] ELSE NoNode
        /\ PreviousSibling(t, n) = IF i + -1 \in DOMAIN s /\ SameCategory(s[i + -1], n)
                                   THEN s[i + -1] ELSE NoNode
    BY <1>3 DEF NextSibling, PreviousSibling, Neighbour
  <2>3. \A x, y : NextTo(s, x, y) => Beside(t, x, y)
    BY <2>1 DEF Beside
  <2> HIDE DEF s, i
  <2>4. i \in DOMAIN s /\ (i + -1) + 1 = i
    BY <2>1
  <2>5. /\ i + 1 \in DOMAIN s => NextTo(s, n, s[i + 1])
        /\ i + -1 \in DOMAIN s => NextTo(s, s[i + -1], n)
    BY <2>1, <2>4 DEF NextTo
  <2>6. \A x : SameCategory(x, n) => x \in Normal
    BY DEF SameCategory
  <2> QED
    BY <2>2, <2>3, <2>5, <2>6
<1> QED
  BY <1>2, <1>3

-----------------------------------------------------------------------------
(* What the primitives do to neighbours. *)

\* Taking n out.
LEMMA UnlinkBeside ==
    ASSUME NEW t, Good(t), NEW n \in Node, NEW x, NEW y, Beside(Unlink(t, n), x, y)
    PROVE  /\ x # n /\ y # n
           /\ Beside(t, x, y) \/ (Beside(t, x, n) /\ Beside(t, n, y))
<1> DEFINE u == Unlink(t, n)
           p == t.parent[n]
           i == Position(t, n)
           s == t.kids[p]
<1>1. Good(u) /\ u.parent = [t.parent EXCEPT ![n] = NoNode] /\ Beside(u, x, y)
  BY UnlinkGood
<1>2. \A q \in Node : u.kids[q] = IF q = p THEN Splice(t.kids[q], i - 1, i, <<>>)
                                   ELSE t.kids[q]
  BY UnlinkKids
<1> HIDE DEF u
<1>3. x # n /\ y # n
  <2>1. u.parent[n] = NoNode
    BY <1>1 DEF Good, Tree
  <2>2. u.parent[x] \in Node /\ u.parent[y] \in Node
    BY <1>1, BesideListed
  <2> QED
    BY <2>1, <2>2, NoNodeIsNoNode
<1>4. PICK q \in Node : NextTo(u.kids[q], x, y)
  BY <1>1 DEF Beside
<1>5. u.kids[q] = IF q = p THEN Splice(t.kids[q], i - 1, i, <<>>) ELSE t.kids[q]
  BY <1>2
<1>6. CASE q # p
  BY <1>3, <1>4, <1>5, <1>6 DEF Beside
<1>7. CASE q = p
  <2>1. p # NoNode
    BY <1>7, NoNodeIsNoNode
  <2>2. s \in Seq(Node) /\ i \in 1 .. Len(s) /\ s[i] = n
    BY <2>1, PositionListed
  <2>3. NextTo(Splice(s, i - 1, i, <<>>), x, y)
    BY <1>4, <1>5, <1>7
  <2>4. \A a, b : NextTo(s, a, b) => Beside(t, a, b)
    BY <1>7 DEF Beside
  <2> HIDE DEF s, i
  <2> DEFINE j == i - 1
  <2>5. j \in 0 .. Len(s) /\ i \in j .. Len(s) /\ j + 1 = i /\ i \in DOMAIN s
        /\ (1 <= j => j \in DOMAIN s) /\ (i < Len(s) => i + 1 \in DOMAIN s)
    BY <2>2
  <2> HIDE DEF j
  <2>6. NextTo(Splice(s, j, i, <<>>), x, y)
    BY <2>3 DEF j
  <2>7. \/ NextTo(s, x, y)
        \/ 1 <= j /\ x = s[j] /\ i < Len(s) /\ y = s[i + 1]
    BY <2>2, <2>5, <2>6, CutNext
  <2>8. /\ 1 <= j => NextTo(s, s[j], n)
        /\ i < Len(s) => NextTo(s, n, s[i + 1])
    BY <2>2, <2>5 DEF NextTo
  <2> QED
    BY <1>3, <2>4, <2>7, <2>8
<1> QED
  BY <1>6, <1>7

\* Putting n behind the first i children of p.
LEMMA LinkBeside ==
    ASSUME NEW t, Good(t), NEW n \in Node, NEW p \in Node, NEW i \in 0 .. Len(t.kids[p]),
           NEW x, NEW y, Beside(Link(t, p, i, n), x, y)
    PROVE  LET s == t.kids[p]
           IN \/ Beside(t, x, y) /\ (1 <= i => x # s[i])
              \/ 1 <= i /\ x = s[i] /\ y = n
              \/ i < Len(s) /\ x = n /\ y = s[i + 1]
<1> DEFINE u == Link(t, p, i, n)
           s == t.kids[p]
<1>1. PICK q \in Node : NextTo(u.kids[q], x, y)
  BY DEF Beside
<1>2. u.kids[q] = IF q = p THEN Splice(s, i, i, <<n>>) ELSE t.kids[q]
  BY LinkKids
<1> HIDE DEF u
<1>3. s \in Seq(Node) /\ IsInjective(s)
  BY DEF Good, Tree, Forest, KidsAgree
<1>4. CASE q # p
  <2>1. NextTo(t.kids[q], x, y) /\ Beside(t, x, y)
    BY <1>1, <1>2, <1>4 DEF Beside
  <2>2. t.parent[x] = q
    BY <2>1, ParentsHaveKids DEF NextTo
  <2>3. 1 <= i => t.parent[s[i]] = p
    <3>1. 1 <= i => i \in DOMAIN s
      BY <1>3
    <3> QED
      BY <3>1, ParentsHaveKids
  <2> QED
    BY <1>4, <2>1, <2>2, <2>3
<1>5. CASE q = p
  <2>1. NextTo(Splice(s, i, i, <<n>>), x, y)
    BY <1>1, <1>2, <1>5
  <2>2. \A a, b : NextTo(s, a, b) => Beside(t, a, b)
    BY DEF Beside
  <2> HIDE DEF s
  <2>3. i \in 0 .. Len(s)
    BY DEF s
  <2>4. \/ NextTo(s, x, y) /\ (1 <= i => x # s[i])
        \/ 1 <= i /\ x = s[i] /\ y = n
        \/ i < Len(s) /\ x = n /\ y = s[i + 1]
    BY <1>3, <2>1, <2>3, PutNext
  <2> QED
    BY <2>2, <2>4 DEF s
<1> QED
  BY <1>4, <1>5

\* Freeing a node, or joining its text to another one's, takes it out.
LEMMA AbsorbBeside ==
    ASSUME NEW t, Good(t), NEW n \in Texts, NEW m \in Texts, NEW s \in Seq(Node),
           NEW x, NEW y, Beside(Absorb(t, n, s, m), x, y)
    PROVE  /\ x # m /\ y # m
           /\ Beside(t, x, y) \/ (Beside(t, x, m) /\ Beside(t, m, y))
<1> DEFINE u == [t EXCEPT !.value[n] = s]
           v == Unlink(u, m)
<1>1. n \in Node /\ m \in Node
  BY DEF Node, Normal
<1>2. Good(u) /\ u.kids = t.kids
  BY <1>1, ValueGood
<1>3. Absorb(t, n, s, m).kids = v.kids
  BY DEF Absorb, Free
<1> HIDE DEF u
<1>4. Beside(v, x, y)
  BY <1>3 DEF Beside
<1> HIDE DEF v
<1>5. /\ x # m /\ y # m
      /\ Beside(u, x, y) \/ (Beside(u, x, m) /\ Beside(u, m, y))
  BY <1>1, <1>2, <1>4, UnlinkBeside DEF v
<1>6. \A a, b : Beside(u, a, b) => Beside(t, a, b)
  BY <1>2 DEF Beside
<1> QED
  BY <1>5, <1>6

\* Freeing a run of children.
LEMMA FreeRunBeside ==
    ASSUME NEW t, Good(t), NEW p \in Node,
           NEW i \in 0 .. Len(t.kids[p]), NEW j \in i .. Len(t.kids[p]),
           NEW x, NEW y, Beside(FreeRun(t, p, i, j), x, y)
    PROVE  \/ Beside(t, x, y)
           \/ 1 <= i /\ x = t.kids[p][i] /\ j < Len(t.kids[p]) /\ y = t.kids[p][j + 1]
<1> DEFINE f == FreeRun(t, p, i, j)
           s == t.kids[p]
<1>1. PICK q \in Node : NextTo(f.kids[q], x, y)
  BY DEF Beside
<1>2. f.kids[q] = IF q = p THEN Splice(s, i, j, <<>>) ELSE t.kids[q]
  BY FreeRunThinner
<1> HIDE DEF f
<1>3. CASE q # p
  BY <1>1, <1>2, <1>3 DEF Beside
<1>4. CASE q = p
  <2>1. NextTo(Splice(s, i, j, <<>>), x, y) /\ s \in Seq(Node)
        /\ i \in 0 .. Len(s) /\ j \in i .. Len(s)
    BY <1>1, <1>2, <1>4 DEF Good, Tree
  <2>2. NextTo(s, x, y) => Beside(t, x, y)
    BY DEF Beside
  <2> HIDE DEF s
  <2>3. \/ NextTo(s, x, y)
        \/ 1 <= i /\ x = s[i] /\ j < Len(s) /\ y = s[j + 1]
    BY <2>1, CutNext
  <2> QED
    BY <2>2, <2>3 DEF s
<1> QED
  BY <1>3, <1>4

\* Removing a subtree takes out its top; what is below has no children left.
LEMMA RemoveSubtreeBeside ==
    ASSUME NEW t, Good(t), NEW n \in Node, NEW x, NEW y, Beside(RemoveSubtree(t, n), x, y)
    PROVE  /\ x # n /\ y # n
           /\ Beside(t, x, y) \/ (Beside(t, x, n) /\ Beside(t, n, y))
<1> DEFINE f == RemoveSubtree(t, n)
<1>1. PICK q \in Node : NextTo(f.kids[q], x, y)
  BY DEF Beside
<1>2. f.kids[q] = IF q \in Subtree(t, n) THEN <<>> ELSE Unlink(t, n).kids[q]
  BY RemoveSubtreeThinner
<1> HIDE DEF f
<1>3. ~NextTo(<<>>, x, y)
  BY DEF NextTo
<1>4. NextTo(Unlink(t, n).kids[q], x, y)
  BY <1>1, <1>2, <1>3
<1>5. Beside(Unlink(t, n), x, y)
  BY <1>4 DEF Beside
<1> QED
  BY <1>5, UnlinkBeside

\* Dissolving an element that holds children.
LEMMA DissolveBeside ==
    ASSUME NEW t, Good(t), NEW n \in Elements, Dissolve(t, n).res = "ok",
           NEW k, k = t.kids[n], 1 <= Len(k),
           NEW x, NEW y, Beside(Dissolve(t, n).tree, x, y)
    PROVE  Beside(t, x, y) \/ y = k[1] \/ x = k[Len(k)]
<1> DEFINE d == Dissolve(t, n).tree
           p == t.parent[n]
           i == Position(t, n)
<1>1. n \in Node /\ k \in Seq(Node)
  BY DEF Node, Normal, Good, Tree
<1>2. \A q \in Node : d.kids[q] = IF q = n THEN <<>>
                                  ELSE IF q = p THEN Splice(t.kids[q], i - 1, i, k)
                                  ELSE t.kids[q]
  <2> DEFINE K == [m \in Node |->
                     IF m = n THEN <<>>
                     ELSE IF m = p THEN Splice(t.kids[m], i - 1, i, k)
                     ELSE t.kids[m]]
  <2>1. d.kids = K
    BY DEF Dissolve, Ok, Undefined
  <2> HIDE DEF d
  <2> QED
    BY <2>1
<1>3. PICK q \in Node : NextTo(d.kids[q], x, y)
  BY DEF Beside
<1> HIDE DEF d
<1>4. ~NextTo(<<>>, x, y)
  BY DEF NextTo
<1>5. CASE q # p
  <2>1. NextTo(t.kids[q], x, y)
    BY <1>2, <1>3, <1>4, <1>5
  <2> QED
    BY <2>1 DEF Beside
<1>6. CASE q = p
  <2> DEFINE s == t.kids[p]
  <2>1. p # NoNode
    BY <1>6, NoNodeIsNoNode
  <2>2. s \in Seq(Node) /\ i \in 1 .. Len(s)
    BY <1>1, <2>1, PositionListed
  <2>3. NextTo(Splice(s, i - 1, i, k), x, y)
    BY <1>2, <1>3, <1>4, <1>6
  <2>4. NextTo(s, x, y) => Beside(t, x, y)
    BY <1>6 DEF Beside
  <2>5. NextTo(k, x, y) => Beside(t, x, y)
    BY <1>1 DEF Beside
  <2> HIDE DEF s, i
  <2> DEFINE j == i - 1
  <2>6. j \in 0 .. Len(s) /\ i \in j .. Len(s) /\ NextTo(Splice(s, j, i, k), x, y)
    BY <2>2, <2>3
  <2> HIDE DEF j
  <2>7. \/ NextTo(s, x, y) \/ NextTo(k, x, y) \/ y = k[1] \/ x = k[Len(k)]
    <3>1. \/ \E l \in DOMAIN s : l + 1 \in DOMAIN s /\ s[l] = x /\ s[l + 1] = y
                                 /\ (l < j \/ i < l)
          \/ NextTo(k, x, y)
          \/ 1 <= j /\ x = s[j] /\ 1 <= Len(k) /\ y = k[1]
          \/ i < Len(s) /\ y = s[i + 1] /\ 1 <= Len(k) /\ x = k[Len(k)]
          \/ 1 <= j /\ x = s[j] /\ i < Len(s) /\ y = s[i + 1] /\ Len(k) = 0
      BY <1>1, <2>2, <2>6, SpliceNext
    <3>2. Len(k) # 0
      BY <1>1
    <3> QED
      BY <3>1, <3>2 DEF NextTo
  <2> QED
    BY <2>4, <2>5, <2>7
<1> QED
  BY <1>5, <1>6

-----------------------------------------------------------------------------
(* Gaps. *)

Spaced(t) == \A x, y \in Texts : ~Beside(t, x, y)

\* If two texts are side by side in t, they are a and b.
OnlyGap(t, a, b) == \A x, y \in Texts : Beside(t, x, y) => x = a /\ y = b

\* A text is a normal node, and no other kind of node.
LEMMA TextsAreNormal ==
    /\ Texts \subseteq Normal /\ Texts \subseteq Node \ Documents
    /\ Texts \cap Container = {} /\ Texts \cap Abnormal = {} /\ NoNode \notin Texts
    /\ Normal \subseteq Node /\ Normal \cap Abnormal = {} /\ Container \subseteq Node
  BY KindsAreDisjoint, NoNodeIsNoNode DEF Node, Normal, Container

\* No gap at all is a gap at any place at most.
LEMMA SpacedGaps ==
    ASSUME NEW t
    PROVE  /\ Spaced(t) <=> OnlyGap(t, NoNode, NoNode)
           /\ \A a, b : Spaced(t) => OnlyGap(t, a, b)
           /\ \A a, b : OnlyGap(t, a, b) /\ (a \notin Texts \/ b \notin Texts) => Spaced(t)
  BY TextsAreNormal DEF Spaced, OnlyGap

\* Trees with the same lists of children have the same gaps.
LEMMA SameKidsGaps ==
    ASSUME NEW t, NEW u, u.kids = t.kids
    PROVE  /\ \A x, y : Beside(u, x, y) <=> Beside(t, x, y)
           /\ Spaced(u) <=> Spaced(t)
           /\ \A a, b : OnlyGap(u, a, b) <=> OnlyGap(t, a, b)
  BY DEF Beside, Spaced, OnlyGap

\* What stands behind a normal node is normal.
LEMMA BesideNormal ==
    ASSUME NEW t, Good(t), Ordered(t), NEW x \in Normal, NEW y, Beside(t, x, y)
    PROVE  y \in Normal
<1>1. /\ t.parent[x] \in Node /\ y \in Node
      /\ Precedes(t.kids[t.parent[x]], x, y)
  BY BesideListed
<1>2. MayPrecede(x, y)
  BY <1>1 DEF Ordered
<1> QED
  BY <1>1, <1>2, NormalBefore

\* The gap that a node leaves is between its siblings.
LEMMA UnlinkGap ==
    ASSUME NEW t, Good(t), Ordered(t), NEW n \in Node,
           NEW x \in Texts, NEW y \in Texts, Beside(t, x, n), Beside(t, n, y)
    PROVE  n \in Normal /\ x = PreviousSibling(t, n) /\ y = NextSibling(t, n)
<1>1. x \in Normal /\ y \in Normal
  BY TextsAreNormal
<1>2. n \in Normal
  BY <1>1, BesideNormal
<1> QED
  BY <1>1, <1>2, BesideSiblings

\* A merge at the only gap closes it.
LEMMA Heal ==
    ASSUME NEW t, Good(t), t.consolidate, NEW a, NEW b, OnlyGap(t, a, b)
    PROVE  Spaced(RemoveConsolidate(t, a, b).tree)
<1> DEFINE s == t.value[a] \o t.value[b]
           u == Absorb(t, a, s, b)
<1>1. CASE a \notin Texts \/ b \notin Texts
  <2>1. RemoveConsolidate(t, a, b).tree = t
    BY <1>1 DEF RemoveConsolidate
  <2> QED
    BY <1>1, <2>1, SpacedGaps
<1>2. CASE a \in Texts /\ b \in Texts
  <2>1. RemoveConsolidate(t, a, b).tree = u
    BY <1>2 DEF RemoveConsolidate
  <2>2. t.value[a] \in Seq(Node) /\ t.value[b] \in Seq(Node)
    BY <1>2, TextsAreNormal DEF Good, Tree
  <2>3. s \in Seq(Node)
    BY <2>2
  <2> HIDE DEF s
  <2>4. ASSUME NEW x \in Texts, NEW y \in Texts, Beside(u, x, y) PROVE FALSE
    <3>1. /\ x # b /\ y # b
          /\ Beside(t, x, y) \/ (Beside(t, x, b) /\ Beside(t, b, y))
      BY <1>2, <2>3, <2>4, AbsorbBeside
    <3> QED
      BY <1>2, <3>1 DEF OnlyGap
  <2> QED
    BY <2>1, <2>4 DEF Spaced
<1> QED
  BY <1>1, <1>2

\* The primitives leave the switch alone.
LEMMA LinkSwitch ==
    ASSUME NEW t, NEW p, NEW i, NEW n
    PROVE  Link(t, p, i, n).consolidate = t.consolidate
  BY DEF Link

LEMMA SwitchKept ==
    ASSUME NEW t, Good(t), NEW n \in Node, NEW p \in Node, NEW i, NEW j, NEW s
    PROVE  /\ Unlink(t, n).consolidate = t.consolidate
           /\ Link(t, p, i, n).consolidate = t.consolidate
           /\ Absorb(t, p, s, n).consolidate = t.consolidate
           /\ FreeRun(t, p, i, j).consolidate = t.consolidate
           /\ RemoveSubtree(t, n).consolidate = t.consolidate
           /\ Dissolve(t, n).tree.consolidate = t.consolidate
           /\ NewNode(t, n).consolidate = t.consolidate
<1>1. t \in Tree
  BY DEF Good
<1>2. Unlink(t, n).consolidate = t.consolidate
  BY <1>1 DEF Unlink, Tree
<1>3. Link(t, p, i, n).consolidate = t.consolidate
  BY <1>1 DEF Link, Tree
<1>4. Absorb(t, p, s, n).consolidate = t.consolidate
  BY <1>1 DEF Absorb, Free, Unlink, Tree
<1>5. FreeRun(t, p, i, j).consolidate = t.consolidate
  BY <1>1 DEF FreeRun, Tree
<1>6. RemoveSubtree(t, n).consolidate = t.consolidate
  BY <1>1 DEF RemoveSubtree, Unlink, Tree
<1>7. Dissolve(t, n).tree.consolidate = t.consolidate
  BY <1>1 DEF Dissolve, Ok, Undefined, Tree
<1>8. NewNode(t, n).consolidate = t.consolidate
  BY <1>1 DEF NewNode, Tree
<1> QED
  BY <1>2, <1>3, <1>4, <1>5, <1>6, <1>7, <1>8

\* So does a merge.
LEMMA MergeSwitchKept ==
    ASSUME NEW t, Good(t), NEW n, NEW prev, NEW next
    PROVE  /\ RemoveConsolidate(t, prev, next).tree.consolidate = t.consolidate
           /\ AddConsolidate(t, n, prev, next).tree.consolidate = t.consolidate
           /\ LeaveNeighbours(t, n).consolidate = t.consolidate
<1>1. \A a, b, s : a \in Texts /\ b \in Texts => Absorb(t, a, s, b).consolidate = t.consolidate
  BY SwitchKept, TextsAreNormal
<1>2. \A a, b : RemoveConsolidate(t, a, b).tree.consolidate = t.consolidate
  BY <1>1 DEF RemoveConsolidate
<1>3. AddConsolidate(t, n, prev, next).tree.consolidate = t.consolidate
  BY <1>1 DEF AddConsolidate
<1> QED
  BY <1>2, <1>3 DEF LeaveNeighbours

-----------------------------------------------------------------------------
(* Moves. *)

\* Merging the neighbours that n leaves, and taking n out, makes no new gap,
\* unless the merge frees the left side of the gap that is there.
LEMMA LeaveGaps ==
    ASSUME NEW t, Good(t), Ordered(t), t.consolidate, NEW n \in Normal,
           NEW a, NEW b, OnlyGap(t, a, b),
           \/ NextSibling(t, n) # a
           \/ ~({PreviousSibling(t, n), NextSibling(t, n)} \subseteq Texts)
    PROVE  LET u == LeaveNeighbours(t, n)
           IN OnlyGap(u, a, b) /\ OnlyGap(Unlink(u, n), a, b)
<1> DEFINE prev == PreviousSibling(t, n)
           next == NextSibling(t, n)
           u == LeaveNeighbours(t, n)
<1>1. n \in Node /\ Good(u) /\ Ordered(u)
  BY AfterMerge, TextsAreNormal
<1>2. CASE ~({prev, next} \subseteq Texts)
  <2>1. u = t
    BY <1>2 DEF LeaveNeighbours, RemoveConsolidate
  <2>2. ASSUME NEW x \in Texts, NEW y \in Texts, Beside(Unlink(t, n), x, y)
        PROVE  x = a /\ y = b
    <3>1. Beside(t, x, y) \/ (Beside(t, x, n) /\ Beside(t, n, y))
      BY <1>1, <2>2, UnlinkBeside
    <3>2. ~(Beside(t, x, n) /\ Beside(t, n, y))
      BY <1>1, <1>2, UnlinkGap
    <3> QED
      BY <3>1, <3>2 DEF OnlyGap
  <2> QED
    BY <2>1, <2>2 DEF OnlyGap
<1>3. CASE {prev, next} \subseteq Texts
  <2> DEFINE s == t.value[prev] \o t.value[next]
  <2>1. u = Absorb(t, prev, s, next)
    BY <1>3 DEF LeaveNeighbours, RemoveConsolidate
  <2>2. t.value[prev] \in Seq(Node) /\ t.value[next] \in Seq(Node)
    BY <1>3, TextsAreNormal DEF Good, Tree
  <2>3. s \in Seq(Node)
    BY <2>2
  <2>4. prev \in Texts /\ next \in Texts /\ next # a
    BY <1>3
  <2>5. Beside(t, n, next)
    BY <2>4, SiblingsBeside, TextsAreNormal
  <2> HIDE DEF s, u, prev, next
  <2>6. ASSUME NEW y \in Texts, Beside(t, next, y)
        PROVE  FALSE
    BY <2>4, <2>6 DEF OnlyGap
  <2>7. ASSUME NEW x, NEW y, Beside(u, x, y)
        PROVE  /\ x # next /\ y # next
               /\ Beside(t, x, y) \/ (Beside(t, x, next) /\ Beside(t, next, y))
    BY <2>1, <2>3, <2>4, <2>7, AbsorbBeside
  <2>8. OnlyGap(u, a, b)
    BY <2>6, <2>7 DEF OnlyGap
  <2>9. ASSUME NEW x \in Texts, NEW y \in Texts, Beside(Unlink(u, n), x, y)
        PROVE  x = a /\ y = b
    <3>1. Beside(u, x, y) \/ (Beside(u, x, n) /\ Beside(u, n, y))
      BY <1>1, <2>9, UnlinkBeside
    <3>2. ASSUME Beside(u, n, y)
          PROVE  FALSE
      <4>1. y # next /\ Beside(t, n, y)
        BY <2>6, <2>7, <3>2
      <4> QED
        BY <2>5, <4>1, BesideUnique
    <3> QED
      BY <2>8, <3>1, <3>2 DEF OnlyGap
  <2> QED
    BY <2>8, <2>9 DEF OnlyGap, u
<1> QED
  BY <1>2, <1>3

\* So a spaced tree stays spaced.
LEMMA LeaveSpaced ==
    ASSUME NEW t, Good(t), Ordered(t), t.consolidate, NEW n \in Normal, Spaced(t)
    PROVE  LET u == LeaveNeighbours(t, n)
           IN Spaced(u) /\ Spaced(Unlink(u, n))
<1>1. \/ NextSibling(t, n) # NoNode
      \/ ~({PreviousSibling(t, n), NextSibling(t, n)} \subseteq Texts)
  BY TextsAreNormal
<1>2. OnlyGap(t, NoNode, NoNode)
  BY SpacedGaps
<1> QED
  BY <1>1, <1>2, LeaveGaps, SpacedGaps

\* Merging two texts wherever they are makes no gap.
LEMMA MergeSpaced ==
    ASSUME NEW t, Good(t), Spaced(t), NEW n, NEW prev, NEW next
    PROVE  /\ Spaced(AddConsolidate(t, n, prev, next).tree)
           /\ Spaced(RemoveConsolidate(t, prev, next).tree)
<1>1. ASSUME NEW a \in Texts, NEW m \in Texts, NEW s \in Seq(Node)
      PROVE  Spaced(Absorb(t, a, s, m))
  <2>1. ASSUME NEW x \in Texts, NEW y \in Texts, Beside(Absorb(t, a, s, m), x, y)
        PROVE  FALSE
    <3>1. Beside(t, x, y) \/ (Beside(t, x, m) /\ Beside(t, m, y))
      BY <2>1, AbsorbBeside
    <3> QED
      BY <3>1 DEF Spaced
  <2> QED
    BY <2>1 DEF Spaced
<1>2. ASSUME NEW a \in Texts, NEW m \in Texts
      PROVE  t.value[a] \o t.value[m] \in Seq(Node)
  <2>1. t.value[a] \in Seq(Node) /\ t.value[m] \in Seq(Node)
    BY TextsAreNormal DEF Good, Tree
  <2> QED
    BY <2>1
<1>3. Spaced(AddConsolidate(t, n, prev, next).tree)
  BY <1>1, <1>2 DEF AddConsolidate
<1>4. Spaced(RemoveConsolidate(t, prev, next).tree)
  BY <1>1, <1>2 DEF RemoveConsolidate
<1> QED
  BY <1>3, <1>4

\* Putting n where it parts the only gap, and not beside a text when it is
\* one itself.
LEMMA LinkSpaced ==
    ASSUME NEW t, Good(t), NEW n \in Node, NEW p \in Node, NEW i \in 0 .. Len(t.kids[p]),
           NEW a, NEW b, OnlyGap(t, a, b),
           Spaced(t) \/ (1 <= i /\ t.kids[p][i] = a),
           n \in Texts => /\ 1 <= i => t.kids[p][i] \notin Texts
                          /\ i < Len(t.kids[p]) => t.kids[p][i + 1] \notin Texts
    PROVE  Spaced(Link(t, p, i, n))
<1>1. ASSUME NEW x \in Texts, NEW y \in Texts, Beside(Link(t, p, i, n), x, y)
      PROVE  FALSE
  <2>1. \/ Beside(t, x, y) /\ (1 <= i => x # t.kids[p][i])
        \/ 1 <= i /\ x = t.kids[p][i] /\ y = n
        \/ i < Len(t.kids[p]) /\ x = n /\ y = t.kids[p][i + 1]
    BY <1>1, LinkBeside
  <2> QED
    BY <2>1 DEF OnlyGap, Spaced
<1> QED
  BY <1>1 DEF Spaced

-----------------------------------------------------------------------------
(* The calls keep the tree spaced. *)

\* What every call relies on and keeps while the switch is on.
Fit(t) == Spaced(t) /\ t.consolidate

\* Taking a node out leaves a gap between its siblings at most.
LEMMA TakeOutGaps ==
    ASSUME NEW t, Good(t), Ordered(t), Spaced(t), NEW n \in Node
    PROVE  /\ OnlyGap(Unlink(t, n), PreviousSibling(t, n), NextSibling(t, n))
           /\ OnlyGap(RemoveSubtree(t, n), PreviousSibling(t, n), NextSibling(t, n))
           /\ n \notin Normal => Spaced(Unlink(t, n))
<1>1. ASSUME NEW x \in Texts, NEW y \in Texts,
             Beside(t, x, y) \/ (Beside(t, x, n) /\ Beside(t, n, y))
      PROVE  n \in Normal /\ x = PreviousSibling(t, n) /\ y = NextSibling(t, n)
  BY <1>1, UnlinkGap DEF Spaced
<1>2. \A x, y \in Texts : Beside(Unlink(t, n), x, y) =>
          Beside(t, x, y) \/ (Beside(t, x, n) /\ Beside(t, n, y))
  BY UnlinkBeside
<1>3. \A x, y \in Texts : Beside(RemoveSubtree(t, n), x, y) =>
          Beside(t, x, y) \/ (Beside(t, x, n) /\ Beside(t, n, y))
  BY RemoveSubtreeBeside
<1> QED
  BY <1>1, <1>2, <1>3 DEF OnlyGap, Spaced

\* detach and remove.
LEMMA TakeOutFit ==
    ASSUME NEW t, Good(t), Ordered(t), Fit(t), NEW n \in Node
    PROVE  Fit(DetachNode(t, n).tree) /\ Fit(RemoveNode(t, n).tree)
<1> DEFINE prev == PreviousSibling(t, n)
           next == NextSibling(t, n)
           u == Unlink(t, n)
           v == RemoveSubtree(t, n)
<1>1. Spaced(t) /\ t.consolidate
  BY DEF Fit
<1>2. Good(u) /\ Good(v) /\ u.consolidate /\ v.consolidate
  BY <1>1, UnlinkGood, RemoveSubtreeGood, SwitchKept
<1>3. OnlyGap(u, prev, next) /\ OnlyGap(v, prev, next)
  BY <1>1, TakeOutGaps
<1> HIDE DEF u, v, prev, next
<1>4. Fit(RemoveConsolidate(u, prev, next).tree)
  BY <1>2, <1>3, Heal, MergeSwitchKept DEF Fit
<1>5. Fit(RemoveConsolidate(v, prev, next).tree)
  BY <1>2, <1>3, Heal, MergeSwitchKept DEF Fit
<1> QED
  BY <1>4, <1>5 DEF DetachNode, RemoveNode, Ok, u, v, prev, next

\* The arena's moves leave the switch alone.
LEMMA CheckedSwitchKept ==
    ASSUME NEW t, Good(t), NEW n \in Node, NEW p \in Node,
           NEW i, Good(Unlink(t, n))
    PROVE  Link(Unlink(t, n), p, i, n).consolidate = t.consolidate
<1>1. Unlink(t, n).consolidate = t.consolidate
  BY SwitchKept
<1> QED
  BY <1>1, SwitchKept

\* The first and the last member of a splice.
LEMMA SpliceEnds ==
    ASSUME NEW S, NEW s \in Seq(S), NEW q \in Seq(S),
           NEW i \in 0 .. Len(s), NEW j \in i .. Len(s)
    PROVE  LET r == Splice(s, i, j, q)
           IN /\ r \in Seq(S) /\ Len(r) = i + Len(q) + (Len(s) - j)
              /\ j < Len(s) => r[Len(r)] = s[Len(s)]
              /\ 1 <= i => r[1] = s[1]
<1> DEFINE r == Splice(s, i, j, q)
<1>1. Len(s) \in Nat /\ Len(q) \in Nat
  OBVIOUS
<1>2. r \in Seq(S) /\ Len(r) = i + Len(q) + (Len(s) - j)
  BY SpliceShifts
<1>3. \A k \in 1 .. i : r[k] = s[k]
  BY SpliceShifts
<1>4. \A k \in j + 1 .. Len(s) : r[k - j + i + Len(q)] = s[k]
  BY SpliceShifts
<1> HIDE DEF r
<1>5. j < Len(s) => r[Len(s) - j + i + Len(q)] = s[Len(s)]
  BY <1>1, <1>4
<1>6. Len(s) - j + i + Len(q) = Len(r)
  BY <1>1, <1>2
<1>7. 1 <= i => r[1] = s[1]
  BY <1>1, <1>3
<1> QED
  BY <1>2, <1>5, <1>6, <1>7 DEF r

LEMMA CutEnds ==
    ASSUME NEW S, NEW s \in Seq(S), NEW i \in 1 .. Len(s)
    PROVE  LET r == Splice(s, i - 1, i, <<>>)
           IN /\ r \in Seq(S) /\ Len(r) = Len(s) - 1
              /\ i < Len(s) => r[Len(r)] = s[Len(s)]
              /\ 1 < i => r[1] = s[1]
<1> DEFINE e == <<>>
           h == i - 1
           r == Splice(s, h, i, e)
<1>1. e \in Seq(S) /\ s \in Seq(S) /\ h \in 0 .. Len(s) /\ i \in h .. Len(s)
  OBVIOUS
<1>2. Len(s) \in Nat /\ i \in Nat /\ h = i - 1 /\ Len(e) = 0
  OBVIOUS
<1> HIDE DEF e, h
<1>3. r \in Seq(S) /\ Len(r) = h + Len(e) + (Len(s) - i)
  BY <1>1, SpliceEnds
<1>4. i < Len(s) => r[Len(r)] = s[Len(s)]
  BY <1>1, SpliceEnds
<1>5. 1 <= h => r[1] = s[1]
  BY <1>1, SpliceEnds
<1> QED
  BY <1>2, <1>3, <1>4, <1>5 DEF e, h

\* Where a text node that is not merged at an end of p is put, no text stands
\* at that end when the node is out.
LEMMA EndsAfterCut ==
    ASSUME NEW t, Good(t), NEW n \in Texts, NEW p \in Node
    PROVE  LET s == t.kids[p]
               r == Unlink(t, n).kids[p]
           IN /\ LastChild(t, p) \notin Texts /\ 1 <= Len(r) => r[Len(r)] \notin Texts
              /\ (1 <= Len(s) => s[1] \notin Texts) /\ 1 <= Len(r) => r[1] \notin Texts
<1> DEFINE s == t.kids[p]
           r == Unlink(t, n).kids[p]
           i == Position(t, n)
<1>1. n \in Node /\ s \in Seq(Node)
  BY TextsAreNormal DEF Good, Tree
<1>2. LastChild(t, p) \notin Texts /\ 1 <= Len(s) => s[Len(s)] \notin Texts
  BY <1>1, TextsAreNormal DEF LastChild, Last
<1>3. CASE t.parent[n] # p
  <2>1. r = s
    BY <1>1, <1>3, UnlinkKids
  <2> QED
    BY <1>2, <2>1
<1>4. CASE t.parent[n] = p
  <2>1. i \in 1 .. Len(s) /\ s[i] = n
    BY <1>1, <1>4, PositionListed, NoNodeIsNoNode
  <2>2. r = Splice(s, i - 1, i, <<>>)
    BY <1>1, <1>4, UnlinkKids
  <2> HIDE DEF s, r, i
  <2>3. /\ Len(r) = Len(s) - 1
        /\ i < Len(s) => r[Len(r)] = s[Len(s)]
        /\ 1 < i => r[1] = s[1]
    BY <1>1, <2>1, <2>2, CutEnds
  <2>4. Len(s) \in Nat /\ i \in Nat /\ 1 <= i /\ i <= Len(s)
    BY <1>1, <2>1
  <2>5. ASSUME LastChild(t, p) \notin Texts, 1 <= Len(r)
        PROVE  r[Len(r)] \notin Texts
    <3>1. s[Len(s)] \notin Texts
      BY <1>2, <2>3, <2>4, <2>5
    <3>2. i # Len(s)
      BY <2>1, <3>1
    <3> QED
      BY <2>3, <2>4, <3>1, <3>2
  <2>6. ASSUME 1 <= Len(s) => s[1] \notin Texts, 1 <= Len(r)
        PROVE  r[1] \notin Texts
    <3>1. s[1] \notin Texts
      BY <2>4, <2>6
    <3>2. i # 1
      BY <2>1, <3>1
    <3> QED
      BY <2>3, <2>4, <3>1, <3>2
  <2> QED
    BY <2>5, <2>6 DEF s, r
<1> QED
  BY <1>3, <1>4

\* A text that is not merged has no text on the sides it was held against.
LEMMA Unmerged ==
    ASSUME NEW t, t.consolidate, NEW n \in Texts, NEW prev, NEW next,
           ~AddConsolidate(t, n, prev, next).merged
    PROVE  prev \notin Texts /\ next \notin Texts
BY DEF AddConsolidate

\* What a move does first, and what a merge leaves.
LEMMA MoveStarts ==
    ASSUME NEW t, Good(t), Ordered(t), Fit(t), NEW n \in Normal
    PROVE  LET u == LeaveNeighbours(t, n)
               v == Unlink(u, n)
           IN /\ Good(u) /\ Ordered(u) /\ Fit(u)
              /\ Good(v) /\ Fit(v)
              /\ \A prev, next : Fit(AddConsolidate(u, n, prev, next).tree)
              /\ \A p \in Node : \A i : Link(v, p, i, n).consolidate
              /\ \A p \in Node : v.kids[p] \in Seq(Node) /\ u.kids[p] \in Seq(Node)
<1> DEFINE u == LeaveNeighbours(t, n)
           v == Unlink(u, n)
<1>1. n \in Node /\ Spaced(t) /\ t.consolidate
  BY TextsAreNormal DEF Fit
<1>2. Good(u) /\ Ordered(u)
  BY <1>1, AfterMerge
<1>3. Spaced(u) /\ u.consolidate /\ Spaced(v)
  BY <1>1, LeaveSpaced, MergeSwitchKept
<1> HIDE DEF u
<1>4. Good(v) /\ v.consolidate
  BY <1>1, <1>2, <1>3, UnlinkGood, SwitchKept
<1> HIDE DEF v
<1>5. \A prev, next : Fit(AddConsolidate(u, n, prev, next).tree)
  BY <1>2, <1>3, MergeSpaced, MergeSwitchKept DEF Fit
<1>6. \A p \in Node : \A i : Link(v, p, i, n).consolidate
  BY <1>1, <1>4, SwitchKept
<1>7. \A p \in Node : v.kids[p] \in Seq(Node) /\ u.kids[p] \in Seq(Node)
  BY <1>2, <1>4 DEF Good, Tree
<1> QED
  BY <1>2, <1>3, <1>4, <1>5, <1>6, <1>7 DEF Fit, u, v

LEMMA AppendNodeFit ==
    ASSUME NEW t, Good(t), Ordered(t), Fit(t), NEW p \in Node, NEW n \in Node
    PROVE  Fit(AppendNode(t, p, n).tree)
<1> DEFINE u == LeaveNeighbours(t, n)
           v == Unlink(u, n)
           a == AddConsolidate(u, n, LastChild(u, p), NoNode)
           i == Len(v.kids[p])
<1>1. CASE ~MayBeChild(p, n)
  BY <1>1 DEF AppendNode, Err
<1>2. CASE MayBeChild(p, n)
  <2>1. n \in Normal
    BY <1>2 DEF MayBeChild
  <2>2. /\ Good(u) /\ Ordered(u) /\ Fit(u) /\ Good(v) /\ Fit(v)
        /\ Fit(a.tree)
        /\ Link(v, p, i, n).consolidate
        /\ v.kids[p] \in Seq(Node)
    BY <2>1, MoveStarts
  <2>3. AppendNode(t, p, n).tree =
           IF a.merged THEN a.tree
           ELSE IF n \in AncestorsOrSelf(u, p) THEN u ELSE Link(v, p, i, n)
    BY <1>2 DEF AppendNode, CheckedAppend, Ok, Err
  <2>4. ASSUME ~a.merged, n \in Texts, 1 <= i
        PROVE  v.kids[p][i] \notin Texts
    <3>1. LastChild(u, p) \notin Texts
      BY <2>2, <2>4, Unmerged DEF Fit
    <3> QED
      BY <2>2, <2>4, <3>1, EndsAfterCut
  <2> HIDE DEF u, v, a
  <2>5. i \in 0 .. Len(v.kids[p]) /\ ~(i < Len(v.kids[p]))
    BY <2>2
  <2> HIDE DEF i
  <2>6. OnlyGap(v, NoNode, NoNode) /\ Spaced(v)
    BY <2>2, SpacedGaps DEF Fit
  <2>7. ~a.merged => Spaced(Link(v, p, i, n))
    BY <2>2, <2>4, <2>5, <2>6, LinkSpaced
  <2> QED
    BY <2>2, <2>3, <2>7 DEF Fit
<1> QED
  BY <1>1, <1>2

\* The node behind the entries is the first child.
LEMMA BehindEntries ==
    ASSUME NEW t, Good(t), NEW p \in Node
    PROVE  LET ab == AbnormalChildren(t, p)
               s == t.kids[p]
           IN /\ ab = <<>> /\ 1 <= Len(s) => FirstChild(t, p) = s[1]
              /\ \A y : ab # <<>> /\ Beside(t, Last(ab), y) => FirstChild(t, p) = y
<1> DEFINE s == t.kids[p]
           h == Leading(s, Abnormal)
           ab == AbnormalChildren(t, p)
<1>1. s \in Seq(Node) /\ IsInjective(s)
  BY DEF Good, Tree, Forest, KidsAgree
<1>2. h \in 0 .. Len(s)
  BY <1>1, LeadingPrefix
<1>3. ab = SubSeq(s, 1, h) /\ Children(t, p) = SubSeq(s, h + 1, Len(s))
  BY DEF AbnormalChildren, Children
<1> HIDE DEF h
<1>4. /\ Len(SubSeq(s, 1, h)) = h
      /\ h < Len(s) => /\ Len(SubSeq(s, h + 1, Len(s))) = Len(s) - h
                       /\ SubSeq(s, h + 1, Len(s))[1] = s[h + 1]
  BY <1>1, <1>2
<1>5. h < Len(s) => FirstChild(t, p) = s[h + 1]
  <2> SUFFICES ASSUME h < Len(s) PROVE FirstChild(t, p) = s[h + 1]
    OBVIOUS
  <2> DEFINE c == Children(t, p)
  <2>1. h + 1 \in 1 .. Len(s) /\ Len(s) \in Nat /\ h \in Nat
    BY <1>1, <1>2
  <2>2. SubSeq(s, h + 1, Len(s)) \in Seq(Node)
    BY <1>1, <2>1
  <2>3. c \in Seq(Node) /\ Len(c) = Len(s) - h /\ c[1] = s[h + 1]
    BY <1>3, <1>4, <2>2
  <2>4. FirstChild(t, p) = IF c = <<>> THEN NoNode ELSE Head(c)
    BY DEF FirstChild
  <2> HIDE DEF c
  <2>5. Len(c) # 0
    BY <2>1, <2>3
  <2>6. c # <<>> /\ Head(c) = c[1]
    BY <2>3, <2>5
  <2> QED
    BY <2>3, <2>4, <2>6
<1>6. ab = <<>> <=> h = 0
  BY <1>1, <1>2, <1>3, <1>4
<1>7. ASSUME NEW y, ab # <<>>, Beside(t, Last(ab), y)
      PROVE  FirstChild(t, p) = y
  <2>1. h \in 1 .. Len(s)
    BY <1>2, <1>6, <1>7
  <2>2. Last(ab) = s[h]
    BY <1>1, <1>3, <1>4, <2>1 DEF Last
  <2>3. t.parent[s[h]] = p
    BY <2>1, <1>1, ParentsHaveKids
  <2>4. NextTo(s, s[h], y)
    BY <1>7, <2>2, <2>3, BesideListed
  <2>5. PICK k \in DOMAIN s : k + 1 \in DOMAIN s /\ s[k] = s[h] /\ s[k + 1] = y
    BY <2>4 DEF NextTo
  <2>6. k = h
    BY <1>1, <2>1, <2>5 DEF IsInjective
  <2>7. h + 1 \in DOMAIN s
    BY <2>5, <2>6
  <2>8. h < Len(s)
    BY <1>1, <2>1, <2>7
  <2> QED
    BY <1>5, <2>5, <2>6, <2>8
<1>8. ASSUME ab = <<>>, 1 <= Len(s)
      PROVE  FirstChild(t, p) = s[1]
  BY <1>1, <1>5, <1>6, <1>8
<1> QED
  BY <1>7, <1>8

\* Putting n beside r.
LEMMA BesideSpaced ==
    ASSUME NEW v, Good(v), NEW n \in Node, NEW r \in Node, v.parent[r] # NoNode,
           NEW offset \in {0, -1}, NEW a, NEW b, OnlyGap(v, a, b),
           Spaced(v) \/ (offset = 0 /\ r = a),
           n \in Texts => /\ r \notin Texts
                          /\ offset = 0 => \A y \in Texts : ~Beside(v, r, y)
                          /\ offset = -1 => \A x \in Texts : ~Beside(v, x, r)
    PROVE  Spaced(Link(v, v.parent[r], Position(v, r) + offset, n))
<1> DEFINE p == v.parent[r]
           s == v.kids[p]
           j == Position(v, r)
           i == j + offset
<1>1. p \in Node /\ s \in Seq(Node) /\ j \in 1 .. Len(s) /\ s[j] = r
  BY PositionListed, TextsAreNormal
<1> HIDE DEF p, j
<1>2. i \in 0 .. Len(s) /\ i + 1 \in Nat /\ Len(s) \in Nat
  BY <1>1
<1>3. CASE offset = 0
  <2>1. i = j /\ 1 <= i /\ s[i] = r
    BY <1>1, <1>3
  <2> HIDE DEF i, s
  <2>2. i < Len(s) => NextTo(s, r, s[i + 1])
    <3> SUFFICES ASSUME i < Len(s) PROVE NextTo(s, r, s[i + 1])
      OBVIOUS
    <3>1. i \in DOMAIN s /\ i + 1 \in DOMAIN s
      BY <1>1, <1>2, <2>1
    <3> QED
      BY <2>1, <3>1 DEF NextTo
  <2>3. i < Len(s) => Beside(v, r, s[i + 1])
    BY <1>1, <2>2 DEF Beside, s
  <2>4. n \in Texts => /\ 1 <= i => s[i] \notin Texts
                       /\ i < Len(s) => s[i + 1] \notin Texts
    BY <1>3, <2>1, <2>3
  <2>5. Spaced(Link(v, p, i, n))
    BY <1>1, <1>2, <2>1, <2>4, LinkSpaced DEF s
  <2> QED
    BY <2>5 DEF i, p, j
<1>4. CASE offset = -1
  <2>1. i = j + -1 /\ i < Len(s) /\ s[i + 1] = r
    BY <1>1, <1>4
  <2> HIDE DEF i, s
  <2>2. 1 <= i => NextTo(s, s[i], r)
    <3> SUFFICES ASSUME 1 <= i PROVE NextTo(s, s[i], r)
      OBVIOUS
    <3>1. i \in DOMAIN s /\ i + 1 \in DOMAIN s
      BY <1>1, <1>2, <2>1
    <3> QED
      BY <2>1, <3>1 DEF NextTo
  <2> USE DEF s
  <2>3. 1 <= i => Beside(v, s[i], r)
    BY <1>1, <2>2 DEF Beside
  <2>4. n \in Texts => /\ 1 <= i => s[i] \notin Texts
                       /\ i < Len(s) => s[i + 1] \notin Texts
    BY <1>4, <2>1, <2>3
  <2>5. Spaced(v)
    BY <1>4
  <2>6. Spaced(Link(v, p, i, n))
    BY <1>1, <1>2, <2>4, <2>5, LinkSpaced
  <2> QED
    BY <2>6 DEF i, p, j
<1> QED
  BY <1>3, <1>4

\* What stands beside a node when n is out stood there before, or n did.
LEMMA SidesWithout ==
    ASSUME NEW u, Good(u), Ordered(u), Spaced(u), NEW n \in Texts, NEW r \in Normal
    PROVE  /\ NextSibling(u, r) \notin Texts => \A y \in Texts : ~Beside(Unlink(u, n), r, y)
           /\ PreviousSibling(u, r) \notin Texts => \A x \in Texts : ~Beside(Unlink(u, n), x, r)
<1>1. n \in Node /\ n \in Normal
  BY TextsAreNormal
<1>2. ASSUME NEW y \in Texts, Beside(Unlink(u, n), r, y)
      PROVE  NextSibling(u, r) \in Texts
  <2>1. \E z \in Texts : Beside(u, r, z)
    BY <1>1, <1>2, UnlinkBeside
  <2> QED
    BY <2>1, BesideSiblings, TextsAreNormal
<1>3. ASSUME NEW x \in Texts, Beside(Unlink(u, n), x, r)
      PROVE  PreviousSibling(u, r) \in Texts
  <2>1. \E z \in Texts : Beside(u, z, r)
    BY <1>1, <1>3, UnlinkBeside
  <2> QED
    BY <2>1, BesideSiblings, TextsAreNormal
<1> QED
  BY <1>2, <1>3

\* The arena's insertion beside r after the neighbours of n are merged.
LEMMA InsertBesideFit ==
    ASSUME NEW t, Good(t), Ordered(t), Fit(t), NEW n \in Normal, NEW r \in Node,
           NEW offset \in {0, -1},
           LET u == LeaveNeighbours(t, n)
               v == Unlink(u, n)
           IN /\ u.parent[r] # NoNode
              /\ n \in Texts => /\ r \notin Texts
                                /\ offset = 0 => \A y \in Texts : ~Beside(v, r, y)
                                /\ offset = -1 => \A x \in Texts : ~Beside(v, x, r)
    PROVE  Fit(InsertBeside(LeaveNeighbours(t, n), r, n, offset).tree)
<1> DEFINE u == LeaveNeighbours(t, n)
           v == Unlink(u, n)
           w == Link(v, v.parent[r], Position(v, r) + offset, n)
<1>1. /\ Good(u) /\ Fit(u) /\ Good(v) /\ Fit(v) /\ n \in Node
      /\ \A p \in Node : \A i : Link(v, p, i, n).consolidate
  BY MoveStarts, TextsAreNormal
<1>2. /\ u.parent[r] # NoNode
      /\ n \in Texts => /\ r \notin Texts
                        /\ offset = 0 => \A y \in Texts : ~Beside(v, r, y)
                        /\ offset = -1 => \A x \in Texts : ~Beside(v, x, r)
  OBVIOUS
<1>3. InsertBeside(u, r, n, offset).tree \in {u, w}
        /\ (r = n => InsertBeside(u, r, n, offset).tree = u)
  BY DEF InsertBeside, Ok, Err, Undefined
<1> HIDE DEF u
<1>4. CASE r = n
  BY <1>1, <1>3, <1>4 DEF u
<1>5. CASE r # n
  <2>1. v.parent = [u.parent EXCEPT ![n] = NoNode] /\ u.parent \in [Node -> Node \cup {NoNode}]
    BY <1>1, UnlinkGood DEF Good, Tree
  <2>2. v.parent[r] # NoNode
    BY <1>2, <1>5, <2>1
  <2> HIDE DEF v
  <2>3. Spaced(v) /\ OnlyGap(v, NoNode, NoNode)
    BY <1>1, SpacedGaps DEF Fit
  <2>4. Spaced(w)
    BY <1>1, <1>2, <2>2, <2>3, BesideSpaced
  <2>5. v.parent[r] \in Node
    BY <1>1, <2>2 DEF Good, Tree
  <2>6. w.consolidate
    BY <1>1, <2>5
  <2> HIDE DEF w
  <2> QED
    BY <1>1, <1>3, <2>4, <2>6 DEF Fit, u
<1> QED
  BY <1>4, <1>5

LEMMA PrependNodeFit ==
    ASSUME NEW t, Good(t), Ordered(t), Fit(t), NEW p \in Node, NEW n \in Node
    PROVE  Fit(PrependNode(t, p, n).tree)
<1> DEFINE u == LeaveNeighbours(t, n)
           v == Unlink(u, n)
           a == AddConsolidate(u, n, NoNode, FirstChild(u, p))
           ab == AbnormalChildren(u, p)
           r == Last(ab)
<1>1. CASE ~MayBeChild(p, n)
  BY <1>1 DEF PrependNode, Err
<1>2. CASE MayBeChild(p, n)
  <2>1. n \in Normal
    BY <1>2 DEF MayBeChild
  <2>2. /\ Good(u) /\ Ordered(u) /\ Fit(u) /\ Good(v) /\ Fit(v)
        /\ Fit(a.tree)
        /\ Link(v, p, 0, n).consolidate
        /\ v.kids[p] \in Seq(Node) /\ u.kids[p] \in Seq(Node)
    BY <2>1, MoveStarts
  <2>3. PrependNode(t, p, n).tree =
           IF a.merged THEN a.tree
           ELSE IF ab # <<>> THEN InsertBeside(u, r, n, 0).tree
           ELSE IF n \in AncestorsOrSelf(u, p) THEN u ELSE Link(v, p, 0, n)
    BY <1>2 DEF PrependNode, CheckedPrepend, CheckedInsertAfter, Ok, Err
  <2>4. ~a.merged /\ n \in Texts => FirstChild(u, p) \notin Texts
    BY <2>2, Unmerged DEF Fit
  <2>5. ASSUME ~a.merged, ab # <<>>
        PROVE  Fit(InsertBeside(u, r, n, 0).tree)
    <3>1. r \in Node /\ u.parent[r] = p
      BY <2>2, <2>5, AbnormalChildrenListed
    <3>2. p # NoNode
      BY NoNodeIsNoNode
    <3>3. ASSUME n \in Texts, NEW y \in Texts, Beside(u, r, y) \/ Beside(u, r, n)
          PROVE  FALSE
      <4>1. FirstChild(u, p) \in Texts
        BY <2>2, <2>5, <3>3, BehindEntries
      <4> QED
        BY <2>4, <2>5, <3>3, <4>1
    <3>4. ASSUME n \in Texts
          PROVE  r \notin Texts /\ \A y \in Texts : ~Beside(v, r, y)
      <4>1. ab \in Seq(Abnormal)
        <5>1. Leading(u.kids[p], Abnormal) \in 0 .. Len(u.kids[p])
              /\ \A i \in 1 .. Leading(u.kids[p], Abnormal) : u.kids[p][i] \in Abnormal
          BY <2>2, LeadingPrefix
        <5> QED
          BY <2>2, <5>1 DEF AbnormalChildren
      <4>2. r \in Abnormal
        BY <2>5, <4>1 DEF Last
      <4>3. \A y \in Texts : Beside(v, r, y) => Beside(u, r, y) \/ Beside(u, r, n)
        BY <2>1, <2>2, TextsAreNormal, UnlinkBeside
      <4> QED
        BY <3>3, <3>4, <4>2, <4>3, TextsAreNormal
    <3> QED
      BY <2>1, <3>1, <3>2, <3>4, InsertBesideFit
  <2>6. ASSUME ~a.merged, ab = <<>>
        PROVE  Fit(Link(v, p, 0, n))
    <3> DEFINE s == v.kids[p]
    <3>1. n \in Texts => (1 <= Len(u.kids[p]) => u.kids[p][1] \notin Texts)
      BY <2>2, <2>4, <2>6, BehindEntries
    <3>2. n \in Texts => (1 <= Len(s) => s[1] \notin Texts)
      BY <2>2, <3>1, EndsAfterCut
    <3> HIDE DEF u, v, a
    <3>3. Spaced(v) /\ OnlyGap(v, NoNode, NoNode) /\ 0 \in 0 .. Len(s) /\ Len(s) \in Nat
      BY <2>2, SpacedGaps DEF Fit
    <3>4. n \in Texts => (0 < Len(s) => s[0 + 1] \notin Texts)
      BY <3>2, <3>3
    <3>5. Spaced(Link(v, p, 0, n))
      BY <2>2, <3>3, <3>4, LinkSpaced
    <3> QED
      BY <2>2, <3>5 DEF Fit
  <2> HIDE DEF a, ab, r, u, v
  <2> QED
    BY <2>2, <2>3, <2>5, <2>6
<1> QED
  BY <1>1, <1>2

LEMMA InsertFit ==
    ASSUME NEW t, Good(t), Ordered(t), Fit(t), NEW r \in Normal, NEW n \in Node
    PROVE  Fit(InsertAfter(t, r, n).tree) /\ Fit(InsertBefore(t, r, n).tree)
<1> DEFINE u == LeaveNeighbours(t, n)
           v == Unlink(u, n)
           a == AddConsolidate(u, n, r, NextSibling(u, r))
           b == AddConsolidate(u, n, PreviousSibling(u, r), r)
<1>1. CASE ~MayBeChild(t.parent[r], n)
  BY <1>1 DEF InsertAfter, InsertBefore, Err
<1>2. CASE MayBeChild(t.parent[r], n)
  <2>1. n \in Normal /\ r \in Node /\ t.parent[r] # NoNode
    BY <1>2, TextsAreNormal, NoNodeIsNoNode DEF MayBeChild
  <2>2. /\ Good(u) /\ Ordered(u) /\ Fit(u) /\ Good(v) /\ Fit(v)
        /\ Fit(a.tree) /\ Fit(b.tree)
    BY <2>1, MoveStarts
  <2>3. Live(u, r) => u.parent[r] # NoNode
    BY <2>1, AfterMerge
  <2>4. /\ InsertAfter(t, r, n).tree =
              IF ~Live(u, r) THEN u ELSE IF a.merged THEN a.tree
              ELSE InsertBeside(u, r, n, 0).tree
        /\ InsertBefore(t, r, n).tree =
              IF ~Live(u, r) THEN u ELSE IF b.merged THEN b.tree
              ELSE InsertBeside(u, r, n, -1).tree
    BY <1>2 DEF InsertAfter, InsertBefore, CheckedInsertAfter, CheckedInsertBefore, Ok, Panic
  <2>5. Spaced(u) /\ u.consolidate
    BY <2>2 DEF Fit
  <2>6. ASSUME Live(u, r), ~a.merged
        PROVE  Fit(InsertBeside(u, r, n, 0).tree)
    <3>1. n \in Texts => r \notin Texts /\ NextSibling(u, r) \notin Texts
      BY <2>5, <2>6, Unmerged
    <3>2. n \in Texts => \A y \in Texts : ~Beside(v, r, y)
      BY <2>2, <2>5, <3>1, SidesWithout
    <3> QED
      BY <2>1, <2>3, <2>6, <3>1, <3>2, InsertBesideFit
  <2>7. ASSUME Live(u, r), ~b.merged
        PROVE  Fit(InsertBeside(u, r, n, -1).tree)
    <3>1. n \in Texts => r \notin Texts /\ PreviousSibling(u, r) \notin Texts
      BY <2>5, <2>7, Unmerged
    <3>2. n \in Texts => \A x \in Texts : ~Beside(v, x, r)
      BY <2>2, <2>5, <3>1, SidesWithout
    <3> QED
      BY <2>1, <2>3, <2>7, <3>1, <3>2, InsertBesideFit
  <2> HIDE DEF a, b, u, v
  <2> QED
    BY <2>2, <2>4, <2>6, <2>7
<1> QED
  BY <1>1, <1>2

\* The reference of a move is alive when its siblings are read, unless it is
\* the second of two texts that the move brings together.
LEMMA SurvivesMove ==
    ASSUME NEW t, Good(t), NEW n \in Node, NEW r \in Node, Live(t, r),
           \/ NextSibling(t, n) # r
           \/ ~({PreviousSibling(t, n), NextSibling(t, n)} \subseteq Texts)
    PROVE  Live(LeaveNeighbours(t, n), r)
<1>1. CASE ~({PreviousSibling(t, n), NextSibling(t, n)} \subseteq Texts)
  <2>1. LeaveNeighbours(t, n) = t
    BY <1>1 DEF LeaveNeighbours, RemoveConsolidate
  <2> QED
    BY <2>1
<1>2. CASE NextSibling(t, n) # r
  BY <1>2, LeaveNeighboursKeeps DEF SameBut, Live
<1> QED
  BY <1>1, <1>2

\* A node that is not text, put behind the left side of the only gap.
LEMMA InsertAfterFills ==
    ASSUME NEW t, Good(t), Ordered(t), t.consolidate,
           NEW r \in Normal, Live(t, r), t.parent[r] \in Container,
           NEW b, OnlyGap(t, r, b),
           NEW n \in Normal, n \notin Texts, n # r,
           \/ NextSibling(t, n) # r
           \/ ~({PreviousSibling(t, n), NextSibling(t, n)} \subseteq Texts),
           InsertAfter(t, r, n).res = "ok"
    PROVE  Fit(InsertAfter(t, r, n).tree)
<1> DEFINE u == LeaveNeighbours(t, n)
           v == Unlink(u, n)
           w == Link(v, v.parent[r], Position(v, r) + 0, n)
           o == InsertBeside(u, r, n, 0)
<1>1. r \in Node /\ n \in Node /\ t.parent[r] # NoNode
  BY TextsAreNormal, NoNodeIsNoNode DEF Container, Node, Normal
<1>2. Good(u) /\ u.consolidate /\ OnlyGap(u, r, b) /\ OnlyGap(v, r, b)
  BY <1>1, AfterMerge, MergeSwitchKept, LeaveGaps
<1>3. Live(u, r) /\ u.parent[r] = t.parent[r]
  BY <1>1, SurvivesMove, AfterMerge
<1>4. ~AddConsolidate(u, n, r, NextSibling(u, r)).merged
  BY DEF AddConsolidate
<1>5. MayBeChild(t.parent[r], n) => InsertAfter(t, r, n) = o
  BY <1>3, <1>4 DEF InsertAfter, CheckedInsertAfter
<1>6. MayBeChild(t.parent[r], n)
  BY DEF InsertAfter, Err
<1>7. o.res = "ok" => o.tree = w
  BY DEF InsertBeside, Ok, Err, Undefined
<1>8. Good(v) /\ v.consolidate /\ v.parent[r] = t.parent[r]
  <2>1. v.parent = [u.parent EXCEPT ![n] = NoNode] /\ u.parent \in [Node -> Node \cup {NoNode}]
    BY <1>1, <1>2, UnlinkGood DEF Good, Tree
  <2> QED
    BY <1>1, <1>2, <1>3, <2>1, UnlinkGood, SwitchKept
<1> HIDE DEF u, v, o
<1>9. Spaced(w)
  BY <1>1, <1>2, <1>8, BesideSpaced
<1>10. w.consolidate
  BY <1>8, LinkSwitch
<1> QED
  BY <1>5, <1>6, <1>7, <1>9, <1>10 DEF Fit

\* The members behind the first h.
LEMMA Behind ==
    ASSUME NEW S, NEW s \in Seq(S), NEW h \in 0 .. Len(s)
    PROVE  LET c == SubSeq(s, h + 1, Len(s))
           IN c \in Seq(S) /\ Len(c) = Len(s) - h /\ (1 <= Len(c) => c[1] = s[h + 1])
OBVIOUS

\* What is left when the first members are cut off.
LEMMA CutFront ==
    ASSUME NEW S, NEW s \in Seq(S), NEW h \in 0 .. Len(s), h < Len(s)
    PROVE  LET r == Splice(s, 0, h, <<>>)
           IN /\ r \in Seq(S) /\ Len(r) = Len(s) - h
              /\ r[1] = s[h + 1] /\ r[Len(r)] = s[Len(s)]
<1> DEFINE e == <<>>
           z == 0
           r == Splice(s, z, h, e)
<1>1. e \in Seq(S) /\ s \in Seq(S) /\ z \in 0 .. Len(s) /\ h \in z .. Len(s)
  OBVIOUS
<1>2. Len(s) \in Nat /\ h \in Nat /\ z = 0 /\ Len(e) = 0
  OBVIOUS
<1> HIDE DEF e, z
<1>3. r \in Seq(S) /\ Len(r) = z + Len(e) + (Len(s) - h)
  BY <1>1, SpliceEnds
<1>4. r[Len(r)] = s[Len(s)]
  BY <1>1, SpliceEnds
<1>5. \A k \in h + 1 .. Len(s) : r[k - h + z + Len(e)] = s[k]
  BY <1>1, SpliceShifts
<1> HIDE DEF r
<1>6. r[(h + 1) - h + z + Len(e)] = s[h + 1]
  BY <1>2, <1>5
<1>7. (h + 1) - h + z + Len(e) = 1
  BY <1>2
<1> QED
  BY <1>2, <1>3, <1>4, <1>6, <1>7 DEF e, z, r

\* remove_element and the two merges after it.
LEMMA RemoveElementGaps ==
    ASSUME NEW t, Good(t), Ordered(t), Fit(t), NEW n \in Elements,
           FirstChild(t, n) # NoNode
    PROVE  LET r == RemoveElement(t, n)
               first == FirstChild(t, n)
           IN /\ Good(r.tree) /\ Ordered(r.tree) /\ r.tree.consolidate
              /\ r.res # "ok" => Spaced(r.tree)
              /\ r.res = "ok" => \A x, y \in Texts :
                    Beside(r.tree, x, y) => y = first \/ x = LastChild(t, n)
<1> DEFINE s == t.kids[n]
           h == Leading(s, Abnormal)
           f == FreeRun(t, n, 0, h)
           k == f.kids[n]
           first == FirstChild(t, n)
           last == LastChild(t, n)
<1>1. n \in Node /\ s \in Seq(Node) /\ Len(s) \in Nat
  BY DEF Node, Normal, Good, Tree
<1>2. h \in 0 .. Len(s) /\ 0 \in 0 .. Len(s)
  BY <1>1, LeadingPrefix
<1>3. Good(f) /\ Ordered(f) /\ Range(k) \subseteq Normal
  BY EntriesFreed
<1>4. Spaced(f) /\ f.consolidate
  <2>1. \A x, y : Beside(f, x, y) => Beside(t, x, y)
    BY <1>1, <1>2, FreeRunBeside
  <2> QED
    BY <1>1, <2>1, SwitchKept DEF Fit, Spaced
<1>5. k = Splice(s, 0, h, <<>>)
  BY <1>1, <1>2, FreeRunThinner
<1>6. Children(t, n) = SubSeq(s, h + 1, Len(s))
  BY DEF Children
<1>7. h < Len(s) /\ first = s[h + 1]
  <2> DEFINE c == Children(t, n)
  <2>1. c # <<>> /\ first = Head(c)
    BY DEF FirstChild
  <2>2. c \in Seq(Node) /\ Len(c) = Len(s) - h /\ (1 <= Len(c) => c[1] = s[h + 1])
    <3> HIDE DEF s, h
    <3> QED
      BY <1>1, <1>2, <1>6, Behind
  <2> HIDE DEF c
  <2>3. Len(c) # 0 /\ Head(c) = c[1]
    BY <2>1, <2>2
  <2> QED
    BY <1>1, <1>2, <2>1, <2>2, <2>3
<1>8. s[Len(s)] \in Normal /\ last = s[Len(s)]
  <2>1. Len(s) \in DOMAIN s /\ h < Len(s) /\ s # <<>>
    BY <1>1, <1>2, <1>7
  <2>2. s[Len(s)] \in Normal
    BY <1>1, <2>1, BehindLeading
  <2> QED
    BY <2>1, <2>2 DEF LastChild, Last
<1>9. k \in Seq(Node) /\ Len(k) = Len(s) - h /\ k[1] = s[h + 1] /\ k[Len(k)] = s[Len(s)]
  BY <1>1, <1>2, <1>5, <1>7, CutFront
<1>10. RemoveElement(t, n) = Dissolve(f, n)
  BY DEF RemoveElement
<1> HIDE DEF f
<1>11. /\ Good(Dissolve(f, n).tree) /\ Ordered(Dissolve(f, n).tree)
       /\ Dissolve(f, n).tree.consolidate
  BY <1>1, <1>3, <1>4, DissolveSound, DissolveOrdered, SwitchKept DEF Sound, Container
<1>12. Dissolve(f, n).res # "ok" => Dissolve(f, n).tree = f
  BY DEF Dissolve, Ok, Undefined
<1>13. ASSUME Dissolve(f, n).res = "ok", NEW x \in Texts, NEW y \in Texts,
              Beside(Dissolve(f, n).tree, x, y)
       PROVE  y = first \/ x = last
  <2>1. 1 <= Len(k)
    BY <1>1, <1>2, <1>7, <1>9
  <2>2. Beside(f, x, y) \/ y = k[1] \/ x = k[Len(k)]
    BY <1>3, <1>13, <2>1, DissolveBeside
  <2> QED
    BY <1>4, <1>7, <1>8, <1>9, <2>2 DEF Spaced
<1> QED
  BY <1>4, <1>10, <1>11, <1>12, <1>13

\* Two gaps at most, on the left of first and on the right of last, are closed
\* by the merges that follow.
LEMMA TwoMerges ==
    ASSUME NEW d, Good(d), Ordered(d), d.consolidate,
           NEW first \in Normal, NEW last \in Normal,
           \A x, y \in Texts : Beside(d, x, y) => y = first \/ x = last
    PROVE  LET prev == PreviousSibling(d, first)
               next == NextSibling(d, last)
               a    == RemoveConsolidate(d, prev, first)
               b    == IF a.merged /\ first = last
                       THEN RemoveConsolidate(a.tree, prev, next)
                       ELSE RemoveConsolidate(a.tree, last, NextSibling(a.tree, last))
           IN Fit(b.tree)
<1> DEFINE prev == PreviousSibling(d, first)
           next == NextSibling(d, last)
           a    == RemoveConsolidate(d, prev, first)
           c    == RemoveConsolidate(a.tree, prev, next)
           e    == RemoveConsolidate(a.tree, last, NextSibling(a.tree, last))
<1>1. Good(a.tree) /\ Ordered(a.tree) /\ a.tree.consolidate
  BY RemoveConsolidateFrees, RemoveConsolidateThinner, ThinnerOrdered, MergeSwitchKept
     DEF SameBut
<1>2. \A x \in Texts : Beside(d, x, first) /\ first \in Texts => x = prev
  BY BesideSiblings, TextsAreNormal
<1>3. \A y \in Texts : Beside(d, last, y) /\ last \in Texts => y = next
  BY BesideSiblings, TextsAreNormal
<1>4. ASSUME \A x, y \in Texts : Beside(a.tree, x, y) => x = last
      PROVE  Fit(e.tree)
  <2>1. \A y \in Texts : last \in Texts /\ Beside(a.tree, last, y) =>
             y = NextSibling(a.tree, last)
    BY <1>1, BesideSiblings, TextsAreNormal
  <2>2. OnlyGap(a.tree, last, NextSibling(a.tree, last))
    BY <1>4, <2>1 DEF OnlyGap
  <2> HIDE DEF a
  <2> QED
    BY <1>1, <2>2, Heal, MergeSwitchKept DEF Fit
<1>5. CASE a.merged
  <2> DEFINE s == d.value[prev] \o d.value[first]
  <2>1. prev \in Texts /\ first \in Texts /\ a.tree = Absorb(d, prev, s, first)
    BY <1>5 DEF RemoveConsolidate
  <2>2. d.value[prev] \in Seq(Node) /\ d.value[first] \in Seq(Node)
    BY <2>1, TextsAreNormal DEF Good, Tree
  <2>3. s \in Seq(Node)
    BY <2>2
  <2> HIDE DEF s, prev, next
  <2>4. ASSUME NEW x \in Texts, NEW y \in Texts, Beside(a.tree, x, y)
        PROVE  /\ x # first /\ y # first
               /\ \/ Beside(d, x, y)
                  \/ Beside(d, x, first) /\ Beside(d, first, y)
    BY <2>1, <2>3, <2>4, AbsorbBeside
  <2>5. CASE first # last
    <3>1. ASSUME NEW x \in Texts, NEW y \in Texts, Beside(a.tree, x, y)
          PROVE  x = last
      BY <2>1, <2>4, <2>5, <3>1
    <3> QED
      BY <1>4, <2>5, <3>1 DEF prev, next
  <2>6. CASE first = last
    <3>1. OnlyGap(a.tree, prev, next)
      BY <1>2, <1>3, <2>1, <2>4, <2>6 DEF OnlyGap
    <3> HIDE DEF a
    <3>2. Fit(c.tree)
      BY <1>1, <3>1, Heal, MergeSwitchKept DEF Fit
    <3> QED
      BY <1>5, <2>6, <3>2 DEF prev, next, a
  <2> QED
    BY <2>5, <2>6
<1>6. CASE ~a.merged
  <2>1. a.tree = d /\ ~(prev \in Texts /\ first \in Texts)
    BY <1>6 DEF RemoveConsolidate
  <2>2. \A x, y \in Texts : Beside(a.tree, x, y) => x = last
    BY <1>2, <2>1
  <2> QED
    BY <1>4, <1>6, <2>2
<1> QED
  BY <1>5, <1>6

\* A child that is found is normal.
LEMMA ChildIsNormal ==
    ASSUME NEW t, Good(t), Ordered(t), NEW p \in Node
    PROVE  /\ FirstChild(t, p) # NoNode =>
                /\ FirstChild(t, p) \in Normal
                /\ LastChild(t, p) \in Normal /\ LastChild(t, p) # NoNode
           /\ LastChild(t, p) \in Normal \cup {NoNode}
<1> DEFINE s == t.kids[p]
           h == Leading(s, Abnormal)
           c == Children(t, p)
<1>1. s \in Seq(Node) /\ Len(s) \in Nat /\ DOMAIN s = 1 .. Len(s)
  BY DEF Good, Tree
<1>2. h \in 0 .. Len(s)
  BY <1>1, LeadingPrefix
<1>3. c = SubSeq(s, h + 1, Len(s))
  BY DEF Children
<1>4. LastChild(t, p) \in Normal \cup {NoNode}
  BY DEF LastChild
<1>5. \A k \in DOMAIN s : h < k => s[k] \in Normal
  BY BehindLeading
<1>6. FirstChild(t, p) = IF c = <<>> THEN NoNode ELSE Head(c)
  BY DEF FirstChild
<1> HIDE DEF h
<1>7. ASSUME FirstChild(t, p) # NoNode
      PROVE  FirstChild(t, p) \in Normal /\ LastChild(t, p) \in Normal
  <2>1. c \in Seq(Node) /\ Len(c) = (IF h < Len(s) THEN Len(s) - h ELSE 0)
        /\ (h < Len(s) => c[1] = s[h + 1])
    BY <1>1, <1>2, <1>3
  <2> HIDE DEF c
  <2>2. c # <<>> /\ Len(c) # 0 /\ FirstChild(t, p) = c[1]
    BY <1>6, <1>7, <2>1
  <2>3. h < Len(s) /\ h + 1 \in DOMAIN s /\ Len(s) \in DOMAIN s /\ h < h + 1
    BY <1>1, <1>2, <2>1, <2>2
  <2>4. s[h + 1] \in Normal /\ s[Len(s)] \in Normal
    BY <1>5, <2>3
  <2>5. s # <<>>
    BY <1>1, <2>3
  <2> QED
    BY <2>1, <2>2, <2>3, <2>4, <2>5 DEF LastChild, Last
<1> QED
  BY <1>4, <1>7, NoNodeIsNoNode DEF Node

LEMMA ElementUnwrapFit ==
    ASSUME NEW t, Good(t), Ordered(t), Fit(t), NEW n \in Node
    PROVE  Fit(ElementUnwrap(t, n).tree)
<1> DEFINE first == FirstChild(t, n)
           last == LastChild(t, n)
           r    == RemoveElement(t, n)
           d    == r.tree
           prev == PreviousSibling(d, first)
           next == NextSibling(d, last)
           a    == RemoveConsolidate(d, prev, first)
           b    == IF a.merged /\ first = last
                   THEN RemoveConsolidate(a.tree, prev, next)
                   ELSE RemoveConsolidate(a.tree, last, NextSibling(a.tree, last))
<1>1. ElementUnwrap(t, n).tree =
         IF n \notin Elements THEN t
         ELSE IF first = NoNode THEN RemoveNode(t, n).tree
         ELSE IF last = NoNode THEN t
         ELSE IF r.res # "ok" THEN d
         ELSE b.tree
  BY DEF ElementUnwrap, Ok, Err, Panic
<1>2. Fit(RemoveNode(t, n).tree)
  BY TakeOutFit
<1>3. ASSUME n \in Elements, first # NoNode
      PROVE  /\ Good(d) /\ Ordered(d) /\ d.consolidate
             /\ r.res # "ok" => Spaced(d)
             /\ r.res = "ok" => \A x, y \in Texts : Beside(d, x, y) => y = first \/ x = last
  BY <1>3, RemoveElementGaps
<1>4. first # NoNode => first \in Normal /\ last \in Normal
  BY ChildIsNormal
<1> HIDE DEF r, first, last
<1>5. ASSUME n \in Elements, first # NoNode, r.res = "ok"
      PROVE  Fit(b.tree)
  <2>1. /\ Good(d) /\ Ordered(d) /\ d.consolidate
        /\ \A x, y \in Texts : Beside(d, x, y) => y = first \/ x = last
    BY <1>3, <1>5
  <2>2. first \in Normal /\ last \in Normal
    BY <1>4, <1>5
  <2> HIDE DEF d
  <2> QED
    BY <2>1, <2>2, TwoMerges
<1> HIDE DEF b
<1> QED
  BY <1>1, <1>2, <1>3, <1>5 DEF Fit

\* A node without a parent is taken out by nothing.
LEMMA LooseLeaves ==
    ASSUME NEW t, Good(t), NEW n \in Node, t.parent[n] = NoNode
    PROVE  /\ Unlink(t, n) = t /\ LeaveNeighbours(t, n) = t
           /\ NextSibling(t, n) = NoNode /\ PreviousSibling(t, n) = NoNode
<1>1. NextSibling(t, n) = NoNode /\ PreviousSibling(t, n) = NoNode
  BY DEF NextSibling, PreviousSibling, Neighbour
<1>2. Unlink(t, n) = t
  BY DEF Unlink
<1> QED
  BY <1>1, <1>2, TextsAreNormal DEF LeaveNeighbours, RemoveConsolidate

\* What element_wrap has done when the new element w holds n.
LEMMA WrapHolds ==
    ASSUME NEW t, Good(t), Ordered(t), NEW n \in Normal \ Documents, Live(t, n),
           NEW w \in Elements, t.phase[w] = "fresh"
    PROVE  LET z0 == Unlink(NewNode(t, w), n)
               z  == Link(z0, w, 0, n)
           IN /\ AppendNode(z0, w, n) = Ok(z)
              /\ Good(z) /\ Ordered(z) /\ z.consolidate = t.consolidate
              /\ Spaced(t) => OnlyGap(z, PreviousSibling(t, n), NextSibling(t, n))
              /\ z.parent[w] = NoNode
              /\ \A m \in Node : Live(t, m) => Live(z, m)
              /\ \A m \in Node \ {n} : z.parent[m] = t.parent[m]
<1> DEFINE y  == NewNode(t, w)
           z0 == Unlink(y, n)
           z  == Link(z0, w, 0, n)
<1>1. n \in Node /\ w \in Node /\ n # w /\ w \in Container
  BY TextsAreNormal DEF Live, Container
<1>2. /\ Good(y) /\ y.parent = t.parent /\ y.kids = t.kids
      /\ y.phase = [t.phase EXCEPT ![w] = "live"]
      /\ y.consolidate = t.consolidate
  BY <1>1, NewNodeGood, SwitchKept
<1>3. Ordered(y) /\ (Spaced(t) => Spaced(y))
  BY <1>2, SameKidsGaps DEF Ordered
<1>4. t.parent[w] = NoNode /\ t.kids[w] = <<>>
  <2>1. ~Live(t, w)
    BY DEF Live
  <2> QED
    BY <1>1, <2>1, Childless DEF Good, Forest, ParentsAreContainers
<1>5. PreviousSibling(y, n) = PreviousSibling(t, n) /\ NextSibling(y, n) = NextSibling(t, n)
  BY <1>2 DEF PreviousSibling, NextSibling, Neighbour, Position
<1> HIDE DEF y
<1>6. /\ Good(z0) /\ z0.parent = [t.parent EXCEPT ![n] = NoNode] /\ z0.phase = y.phase
      /\ Ordered(z0) /\ z0.consolidate = t.consolidate
      /\ Spaced(t) => OnlyGap(z0, PreviousSibling(t, n), NextSibling(t, n))
  <2>1. Good(z0) /\ z0.parent = [y.parent EXCEPT ![n] = NoNode] /\ z0.phase = y.phase
    BY <1>1, <1>2, UnlinkGood
  <2>2. Ordered(z0)
    BY <1>1, <1>2, <1>3, UnlinkThinner, ThinnerOrdered
  <2>3. z0.consolidate = y.consolidate
    BY <1>1, <1>2, SwitchKept
  <2>4. Spaced(y) => OnlyGap(z0, PreviousSibling(y, n), NextSibling(y, n))
    BY <1>1, <1>2, <1>3, TakeOutGaps
  <2> QED
    BY <1>2, <1>3, <1>5, <2>1, <2>2, <2>3, <2>4
<1>7. t.parent \in [Node -> Node \cup {NoNode}] /\ t.phase \in [Node -> Phases]
  BY DEF Good, Tree
<1>8. /\ z0.parent[n] = NoNode /\ z0.parent[w] = NoNode
      /\ \A m \in Node \ {n} : z0.parent[m] = t.parent[m]
      /\ Live(z0, w) /\ Live(z0, n) /\ \A m \in Node : Live(t, m) => Live(z0, m)
  BY <1>1, <1>2, <1>4, <1>6, <1>7 DEF Live
<1>9. z0.kids[w] = <<>>
  <2>1. z0.kids[w] = IF w = y.parent[n] THEN Splice(y.kids[w], Position(y, n) - 1, Position(y, n), <<>>)
                     ELSE y.kids[w]
    BY <1>1, <1>2, UnlinkKids
  <2>2. w # y.parent[n]
    <3>1. ~Live(t, w)
      BY DEF Live
    <3> QED
      BY <1>1, <1>2, <3>1, Childless
  <2> QED
    BY <1>2, <1>4, <2>1, <2>2
<1> HIDE DEF z0
<1>10. Unlink(z0, n) = z0 /\ LeaveNeighbours(z0, n) = z0
  BY <1>1, <1>6, <1>8, LooseLeaves
<1>11. LastChild(z0, w) = NoNode
  BY <1>9 DEF LastChild
<1>12. ~AddConsolidate(z0, n, NoNode, NoNode).merged
  BY TextsAreNormal DEF AddConsolidate
<1>13. Ancestors(z0, w) = {}
  BY <1>1, <1>8, RootsHaveNone
<1>14. n \notin AncestorsOrSelf(z0, w)
  BY <1>1, <1>13 DEF AncestorsOrSelf
<1>15. MayBeChild(w, n)
  BY <1>1 DEF MayBeChild
<1>16. CheckedAppend(z0, w, n) = Ok(z)
  <2>1. Len(z0.kids[w]) = 0
    BY <1>9
  <2> QED
    BY <1>10, <1>14, <2>1 DEF CheckedAppend
<1>17. AppendNode(z0, w, n) = Ok(z)
  BY <1>10, <1>11, <1>12, <1>15, <1>16 DEF AppendNode
<1>18. 0 \in 0 .. Len(z0.kids[w]) /\ ~(1 <= 0) /\ ~(0 < Len(z0.kids[w]))
  BY <1>9
<1>19. Good(z) /\ z.phase = z0.phase
  <2>1. /\ n \in Node /\ n \notin Documents /\ w \in Container
        /\ Live(z0, n) /\ Live(z0, w) /\ z0.parent[n] = NoNode
    BY <1>1, <1>6, <1>8
  <2>2. Good(z0) /\ 0 \in 0 .. Len(z0.kids[w]) /\ n \notin AncestorsOrSelf(z0, w)
    BY <1>6, <1>14, <1>18
  <2>3. Good(Link(z0, w, 0, n)) /\ Link(z0, w, 0, n).phase = z0.phase
    <3> HIDE DEF z
    <3> QED
      BY ONLY <2>1, <2>2, LinkGood, Zenon
  <2> QED
    BY <2>3
<1>20. Ordered(z)
  <2>1. Ordered(AppendNode(z0, w, n).tree)
    BY <1>1, <1>6, AppendNodeOrdered
  <2> QED
    BY <1>17, <2>1 DEF Ok
<1>21. \A a, b : Beside(z, a, b) => Beside(z0, a, b)
  BY <1>1, <1>6, <1>18, LinkBeside
<1>22. z.consolidate = t.consolidate
  BY <1>1, <1>6, SwitchKept
<1>23. z.parent = [z0.parent EXCEPT ![n] = w]
  BY <1>1, <1>6 DEF Link, Good, Tree
<1>24. z0.parent \in [Node -> Node \cup {NoNode}]
  BY <1>6 DEF Good, Tree
<1> HIDE DEF z
<1>25. Spaced(t) => OnlyGap(z, PreviousSibling(t, n), NextSibling(t, n))
  BY <1>6, <1>21 DEF OnlyGap
<1>26. z.parent[w] = NoNode /\ \A m \in Node \ {n} : z.parent[m] = t.parent[m]
  BY <1>1, <1>8, <1>23, <1>24
<1>27. \A m \in Node : Live(t, m) => Live(z, m)
  BY <1>8, <1>19 DEF Live
<1> QED
  BY <1>17, <1>19, <1>20, <1>22, <1>25, <1>26, <1>27 DEF y, z0, z

\* An insertion beside a node that survives the first merge does not panic,
\* and is not refused when the kinds of the nodes allow it.
LEMMA InsertSafe ==
    ASSUME NEW t, Good(t), NEW n \in Node, NEW r \in Node, Live(t, r),
           \/ NextSibling(t, n) # r
           \/ ~({PreviousSibling(t, n), NextSibling(t, n)} \subseteq Texts)
    PROVE  /\ InsertAfter(t, r, n).res # "panic" /\ InsertBefore(t, r, n).res # "panic"
           /\ MayBeChild(t.parent[r], n) /\ n # r =>
                 InsertAfter(t, r, n).res \in {"ok", "undefined"}
<1> DEFINE u == LeaveNeighbours(t, n)
<1>1. Live(u, r)
  BY SurvivesMove
<1>2. \A offset : /\ InsertBeside(u, r, n, offset).res \in {"ok", "err", "undefined"}
                  /\ n # r => InsertBeside(u, r, n, offset).res \in {"ok", "undefined"}
  BY DEF InsertBeside, Ok, Err, Undefined
<1> HIDE DEF u
<1>3. /\ InsertAfter(t, r, n).res \in {"ok", "err", "undefined"}
      /\ MayBeChild(t.parent[r], n) /\ n # r => InsertAfter(t, r, n).res \in {"ok", "undefined"}
  BY <1>1, <1>2 DEF InsertAfter, CheckedInsertAfter, Ok, Err, u
<1>4. InsertBefore(t, r, n).res \in {"ok", "err", "undefined"}
  BY <1>1, <1>2 DEF InsertBefore, CheckedInsertBefore, Ok, Err, u
<1> QED
  BY <1>3, <1>4

\* Appending and prepending never panic.
LEMMA EndsSafe ==
    ASSUME NEW t, NEW p, NEW n
    PROVE  AppendNode(t, p, n).res # "panic" /\ PrependNode(t, p, n).res # "panic"
<1>1. \A u : CheckedAppend(u, p, n).res \in {"ok", "err"}
  BY DEF CheckedAppend, Ok, Err
<1>2. \A u : CheckedPrepend(u, p, n).res \in {"ok", "err"}
  BY DEF CheckedPrepend, Ok, Err
<1>3. \A u, r : CheckedInsertAfter(u, r, n).res \in {"ok", "err", "undefined"}
  BY DEF CheckedInsertAfter, InsertBeside, Ok, Err, Undefined
<1>4. AppendNode(t, p, n).res \in {"ok", "err"}
  BY <1>1 DEF AppendNode, Ok, Err
<1>5. PrependNode(t, p, n).res \in {"ok", "err", "undefined"}
  BY <1>2, <1>3 DEF PrependNode, Ok, Err
<1> QED
  BY <1>4, <1>5

\* What element_wrap inserts its new element beside.
LEMMA WrapBeside ==
    ASSUME NEW t, Good(t), Ordered(t), NEW n \in Normal \ Documents, Live(t, n),
           NEW w \in Elements, t.phase[w] = "fresh",
           PreviousSibling(t, n) # NoNode
    PROVE  LET z    == Link(Unlink(NewNode(t, w), n), w, 0, n)
               prev == PreviousSibling(t, n)
           IN /\ prev \in Normal /\ Live(z, prev) /\ z.parent[prev] \in Container
              /\ w \in Normal /\ w \notin Texts /\ w # prev
              /\ NextSibling(z, w) # prev
              /\ InsertAfter(z, prev, w).res \in {"ok", "undefined"}
<1> DEFINE z    == Link(Unlink(NewNode(t, w), n), w, 0, n)
           prev == PreviousSibling(t, n)
<1>1. /\ Good(z) /\ z.parent[w] = NoNode
      /\ \A m \in Node : Live(t, m) => Live(z, m)
      /\ \A m \in Node \ {n} : z.parent[m] = t.parent[m]
  BY WrapHolds
<1>2. n \in Node /\ w \in Node /\ w \in Normal \ Documents /\ w \notin Texts /\ prev # NoNode
  BY TextsAreNormal, KindsAreDisjoint DEF Normal
<1>3. prev \in Normal /\ t.parent[prev] = t.parent[n]
  BY <1>2, NeighbourIsNormal DEF PreviousSibling
<1>4. Beside(t, prev, n)
  BY <1>2, SiblingsBeside
<1>5. prev \in Node /\ prev # n /\ Live(t, prev) /\ t.parent[prev] \in Node
  BY <1>3, <1>4, BesideListed
<1>6. t.parent[prev] \in Container
  BY <1>5, NoNodeIsNoNode DEF Good, Forest, ParentsAreContainers
<1> HIDE DEF z, prev
<1>7. Live(z, prev) /\ z.parent[prev] \in Container /\ w # prev
  <2>1. prev # w
    BY <1>5 DEF Live
  <2> QED
    BY <1>1, <1>5, <1>6, <2>1
<1>8. NextSibling(z, w) # prev
  BY <1>1, <1>2, LooseLeaves
<1>9. MayBeChild(z.parent[prev], w)
  BY <1>2, <1>7 DEF MayBeChild
<1>10. InsertAfter(z, prev, w).res \in {"ok", "undefined"}
  BY <1>1, <1>2, <1>5, <1>7, <1>8, <1>9, InsertSafe
<1> QED
  BY <1>2, <1>3, <1>7, <1>8, <1>10 DEF z, prev

LEMMA ElementWrapFit ==
    ASSUME NEW t, Good(t), Ordered(t), Fit(t), NEW n \in Node, Live(t, n),
           NEW w \in Elements, t.phase[w] = "fresh",
           ElementWrap(t, n, w).res # "undefined"
    PROVE  Fit(ElementWrap(t, n, w).tree)
<1> DEFINE p    == t.parent[n]
           prev == PreviousSibling(t, n)
           z0   == Unlink(NewNode(t, w), n)
           z    == Link(z0, w, 0, n)
           a    == AppendNode(z0, w, n)
<1>1. ElementWrap(t, n, w) =
        IF n \in Documents \/ (p \in Documents /\ n \notin Elements) THEN Err(t)
        ELSE IF p = NoNode \/ a.res # "ok" THEN a
        ELSE IF prev # NoNode THEN InsertAfter(a.tree, prev, w)
        ELSE PrependNode(a.tree, p, w)
  BY DEF ElementWrap
<1>2. w \in Node /\ Spaced(t) /\ t.consolidate
  BY TextsAreNormal DEF Fit, Node, Normal
<1>3. CASE n \in Documents
  BY <1>1, <1>3 DEF Err
<1>4. CASE n \notin Normal
  <2> DEFINE y == NewNode(t, w)
  <2>1. Good(y) /\ y.kids = t.kids /\ y.consolidate
    BY <1>2, NewNodeGood, SwitchKept
  <2>2. Ordered(y) /\ Spaced(y)
    BY <1>2, <2>1, SameKidsGaps DEF Ordered
  <2> HIDE DEF y
  <2>3. Spaced(Unlink(y, n)) /\ Unlink(y, n).consolidate
    BY <1>4, <2>1, <2>2, TakeOutGaps, SwitchKept
  <2>4. a = Err(z0)
    BY <1>4 DEF AppendNode, MayBeChild
  <2> QED
    BY <1>1, <2>3, <2>4 DEF Err, Fit, y
<1>5. CASE n \in Normal \ Documents
  <2>1. /\ a = Ok(z) /\ Good(z) /\ Ordered(z) /\ z.consolidate
        /\ OnlyGap(z, prev, NextSibling(t, n))
    BY <1>2, <1>5, WrapHolds
  <2>2. a.res = "ok" /\ a.tree = z
    BY <2>1 DEF Ok
  <2> HIDE DEF a, z0
  <2>3. CASE prev = NoNode
    <3> HIDE DEF z
    <3>1. Fit(z)
      BY <2>1, <2>3, SpacedGaps, TextsAreNormal DEF Fit
    <3>2. p \in Node => Fit(PrependNode(z, p, w).tree)
      BY <1>2, <2>1, <3>1, PrependNodeFit
    <3>3. p \in Node \cup {NoNode}
      BY DEF Good, Tree
    <3> QED
      BY <1>1, <1>2, <2>2, <2>3, <3>1, <3>2, <3>3 DEF Err, Fit
  <2>4. CASE prev # NoNode
    <3>1. /\ prev \in Normal /\ Live(z, prev) /\ z.parent[prev] \in Container
          /\ w \in Normal /\ w \notin Texts /\ w # prev /\ NextSibling(z, w) # prev
          /\ InsertAfter(z, prev, w).res \in {"ok", "undefined"}
      BY <1>5, <2>4, WrapBeside DEF z0
    <3>2. p # NoNode
      BY <2>4 DEF PreviousSibling, Neighbour
    <3> HIDE DEF z, prev
    <3>3. InsertAfter(z, prev, w).res = "ok" => Fit(InsertAfter(z, prev, w).tree)
      BY <2>1, <3>1, InsertAfterFills
    <3> QED
      BY <1>1, <1>2, <2>2, <2>4, <3>1, <3>2, <3>3 DEF Err, Fit
  <2> QED
    BY <2>3, <2>4
<1> QED
  BY <1>3, <1>4, <1>5

\* What replace inserts the replacing node m beside, when n is gone.
LEMMA ReplaceBeside ==
    ASSUME NEW t, Good(t), Ordered(t), NEW n \in Node, NEW m \in Node, Live(t, m),
           CarefulReplace(t, n, m), PreviousSibling(t, n) # NoNode
    PROVE  LET u    == RemoveSubtree(t, n)
               prev == PreviousSibling(t, n)
           IN /\ prev \in Normal /\ Live(u, prev) /\ u.parent[prev] \in Container
              /\ m \in Normal \ Documents /\ m # prev
              /\ \/ NextSibling(u, m) # prev
                 \/ ~({PreviousSibling(u, m), NextSibling(u, m)} \subseteq Texts)
              /\ InsertAfter(u, prev, m).res \in {"ok", "undefined"}
<1> DEFINE u    == RemoveSubtree(t, n)
           prev == PreviousSibling(t, n)
           next == NextSibling(t, n)
           p    == t.parent[n]
<1>1. /\ n \in Normal /\ p # NoNode /\ m \in Normal \ Documents
      /\ m \notin Subtree(t, n) /\ m # prev
      /\ m = next => ~({prev, NextSibling(t, m)} \subseteq Texts)
      /\ ~(prev = NextSibling(t, m) /\ {prev, PreviousSibling(t, m)} \subseteq Texts)
  BY DEF CarefulReplace
<1>2. prev \in Normal /\ t.parent[prev] = p /\ Beside(t, prev, n)
  BY <1>1, NeighbourIsNormal, SiblingsBeside DEF PreviousSibling
<1>3. prev \in Node /\ prev # n /\ Live(t, prev) /\ p \in Node
  BY <1>2, BesideListed
<1>4. prev \notin Subtree(t, n)
  BY <1>1, <1>2, <1>3, SubtreeHasParents, ParentOutside
<1>5. Good(u) /\ Live(u, prev)
  BY <1>3, <1>4, RemoveSubtreeGood DEF Live
<1>6. u.parent[prev] = p
  <2>1. Unlink(t, n).parent = [t.parent EXCEPT ![n] = NoNode]
    BY UnlinkGood
  <2>2. Unlink(t, n).parent[prev] = t.parent[prev]
    BY <1>3, <2>1 DEF Good, Tree
  <2>3. u.parent = [x \in Node |-> IF x \in Subtree(t, n) THEN NoNode ELSE Unlink(t, n).parent[x]]
    BY UnlinkGood DEF RemoveSubtree, Good, Tree
  <2> QED
    BY <1>2, <1>3, <1>4, <2>2, <2>3
<1>7. p \in Container
  BY <1>1 DEF Good, Forest, ParentsAreContainers
<1> HIDE DEF u, prev, next, p
<1>8. ASSUME NextSibling(u, m) = prev, PreviousSibling(u, m) \in Texts, prev \in Texts
      PROVE  FALSE
  <2> DEFINE q == PreviousSibling(u, m)
  <2>1. q \in Texts /\ q \in Normal /\ prev # NoNode /\ q # NoNode /\ m \in Normal
    BY <1>1, <1>8, TextsAreNormal
  <2>2. Beside(u, m, prev)
    BY <1>5, <1>8, <2>1, SiblingsBeside
  <2>3. Beside(u, q, m)
    BY <1>5, <2>1, SiblingsBeside
  <2> HIDE DEF q
  <2>4. Beside(t, m, prev)
    <3>1. Beside(t, m, prev) \/ (Beside(t, m, n) /\ Beside(t, n, prev))
      BY <2>2, RemoveSubtreeBeside DEF u
    <3>2. ~Beside(t, n, prev)
      BY <1>2, BesideUnique
    <3> QED
      BY <3>1, <3>2
  <2>5. prev = NextSibling(t, m)
    BY <1>2, <2>1, <2>4, BesideSiblings
  <2>6. Beside(t, q, m) \/ (Beside(t, q, n) /\ Beside(t, n, m))
    BY <2>3, RemoveSubtreeBeside DEF u
  <2>7. ~Beside(t, q, m)
    <3>1. Beside(t, q, m) => PreviousSibling(t, m) = q
      BY <2>1, BesideSiblings
    <3> QED
      BY <1>1, <1>8, <2>1, <2>5, <3>1
  <2>8. ~Beside(t, n, m)
    <3>1. Beside(t, n, m) => m = next
      BY <1>1, <2>1, BesideSiblings DEF next
    <3> QED
      BY <1>1, <1>8, <2>5, <3>1
  <2> QED
    BY <2>6, <2>7, <2>8
<1>9. \/ NextSibling(u, m) # prev
      \/ ~({PreviousSibling(u, m), NextSibling(u, m)} \subseteq Texts)
  BY <1>8
<1>10. MayBeChild(u.parent[prev], m)
  BY <1>1, <1>6, <1>7 DEF MayBeChild
<1>11. InsertAfter(u, prev, m).res \in {"ok", "undefined"}
  BY <1>1, <1>3, <1>5, <1>9, <1>10, InsertSafe
<1> QED
  BY <1>1, <1>2, <1>5, <1>6, <1>7, <1>9, <1>11 DEF u, prev

\* What a careful replace does.
LEMMA ReplaceCases ==
    ASSUME NEW t, Good(t), NEW n \in Node, NEW m \in Node, Live(t, m),
           CarefulReplace(t, n, m)
    PROVE  LET u    == RemoveSubtree(t, n)
               prev == PreviousSibling(t, n)
           IN /\ t.parent[n] \in Container
              /\ n \in Documents => Replace(t, n, m) = Err(t)
              /\ n \notin Documents =>
                   Replace(t, n, m) = IF prev # NoNode THEN InsertAfter(u, prev, m)
                                      ELSE PrependNode(u, t.parent[n], m)
<1> DEFINE u == RemoveSubtree(t, n)
<1>1. n \in Normal /\ t.parent[n] # NoNode /\ m \notin Subtree(t, n)
  BY DEF CarefulReplace
<1>2. Live(u, m)
  BY <1>1, RemoveSubtreeGood DEF Live
<1>3. t.parent[n] \in Container
  BY <1>1 DEF Good, Forest, ParentsAreContainers
<1> HIDE DEF u
<1> QED
  BY <1>1, <1>2, <1>3 DEF Replace, u

LEMMA ReplaceFit ==
    ASSUME NEW t, Good(t), Ordered(t), Fit(t), NEW n \in Node, NEW m \in Node, Live(t, m),
           CarefulReplace(t, n, m), Replace(t, n, m).res # "undefined"
    PROVE  Fit(Replace(t, n, m).tree)
<1> DEFINE u    == RemoveSubtree(t, n)
           prev == PreviousSibling(t, n)
           next == NextSibling(t, n)
           p    == t.parent[n]
<1>1. /\ Good(u) /\ Ordered(u) /\ u.consolidate /\ OnlyGap(u, prev, next)
  BY RemoveSubtreeGood, RemoveSubtreeThinner, ThinnerOrdered, SwitchKept, TakeOutGaps DEF Fit
<1>2. /\ p \in Container
      /\ n \in Documents => Replace(t, n, m) = Err(t)
      /\ n \notin Documents => Replace(t, n, m) = IF prev # NoNode THEN InsertAfter(u, prev, m)
                                                  ELSE PrependNode(u, p, m)
  BY ReplaceCases
<1>3. m \in Texts => ~({prev, next} \subseteq Texts)
  BY DEF CarefulReplace
<1>4. prev # NoNode =>
        /\ prev \in Normal /\ Live(u, prev) /\ u.parent[prev] \in Container
        /\ m \in Normal \ Documents /\ m # prev
        /\ \/ NextSibling(u, m) # prev
           \/ ~({PreviousSibling(u, m), NextSibling(u, m)} \subseteq Texts)
        /\ InsertAfter(u, prev, m).res \in {"ok", "undefined"}
  BY ReplaceBeside
<1> HIDE DEF u, prev, next, p
<1>5. CASE n \in Documents
  BY <1>2, <1>5 DEF Err
<1>6. CASE n \notin Documents /\ prev = NoNode
  <2>1. Fit(u)
    BY <1>1, <1>6, SpacedGaps, TextsAreNormal DEF Fit
  <2>2. p \in Node
    BY <1>2, TextsAreNormal
  <2> QED
    BY <1>1, <1>2, <1>6, <2>1, <2>2, PrependNodeFit
<1>7. CASE n \notin Documents /\ prev # NoNode
  <2>1. CASE m \in Texts
    <3>1. Fit(u)
      BY <1>1, <1>3, <2>1, SpacedGaps DEF Fit
    <3> QED
      BY <1>1, <1>2, <1>4, <1>7, <3>1, InsertFit
  <2>2. CASE m \notin Texts
    <3>1. InsertAfter(u, prev, m).res = "ok"
      BY <1>2, <1>4, <1>7
    <3>2. Fit(InsertAfter(u, prev, m).tree)
      BY <1>1, <1>4, <1>7, <2>2, <3>1, InsertAfterFills
    <3> QED
      BY <1>2, <1>7, <3>2
  <2> QED
    BY <2>1, <2>2
<1> QED
  BY <1>5, <1>6, <1>7

-----------------------------------------------------------------------------
(* The maps. *)

LEMMA PlaceEntryFit ==
    ASSUME NEW t, Good(t), Ordered(t), Fit(t), NEW e \in Elements, NEW K \in Maps, NEW a \in K,
           GetNode(t, e, K, NameOf[a]) = NoNode
    PROVE  Fit(PlaceEntry(t, e, K, a).tree)
<1> DEFINE u == Unlink(t, a)
           c == MapEnd(t, e, K)
<1>1. e \in Node /\ a \in Node /\ a \notin Texts /\ a \notin Normal
  BY KindsAreDisjoint DEF Maps, Node, Normal, Abnormal
<1>2. \A x \in Range(t.kids[e]) \cap K : NameOf[x] # NameOf[a]
  BY <1>1, NameUnused
<1>3. u.kids[e] = t.kids[e] /\ PlaceEntry(t, e, K, a).tree = Link(u, e, c, a)
  BY <1>2, PlaceEntryPuts DEF Ok
<1>4. Good(u) /\ Spaced(u) /\ u.consolidate
  BY <1>1, UnlinkGood, TakeOutGaps, SwitchKept DEF Fit
<1>5. c \in 0 .. Len(u.kids[e])
  BY <1>1, <1>3, InsertionPointIsEnd
<1> HIDE DEF u, c
<1>6. OnlyGap(u, NoNode, NoNode)
  BY <1>4, SpacedGaps
<1>7. Spaced(Link(u, e, c, a))
  BY <1>1, <1>4, <1>5, <1>6, LinkSpaced
<1>8. Link(u, e, c, a).consolidate
  BY <1>1, <1>4, SwitchKept
<1> QED
  BY <1>3, <1>7, <1>8 DEF Fit

\* Changing values and allocating nodes changes no list of children.
LEMMA ValuesFit ==
    ASSUME NEW t, Good(t), NEW n \in Node, NEW v
    PROVE  LET u == [t EXCEPT !.value[n] = v]
               w == NewNode(t, n)
           IN /\ u.kids = t.kids /\ w.kids = t.kids
              /\ Fit(t) => Fit(u) /\ Fit(w)
              /\ Ordered(t) => Ordered(w)
<1> DEFINE u == [t EXCEPT !.value[n] = v]
           w == NewNode(t, n)
<1>1. u.kids = t.kids /\ u.consolidate = t.consolidate
  BY DEF Good, Tree
<1>2. w.kids = t.kids /\ w.consolidate = t.consolidate
  BY NewNodeGood, SwitchKept
<1> HIDE DEF u, w
<1>3. Fit(t) => Fit(u) /\ Fit(w)
  BY <1>1, <1>2, SameKidsGaps DEF Fit
<1>4. Ordered(t) => Ordered(w)
  BY <1>2 DEF Ordered
<1> QED
  BY <1>1, <1>2, <1>3, <1>4 DEF u, w

LEMMA InsertEntryFit ==
    ASSUME NEW t, Good(t), Ordered(t), Fit(t), NEW e \in Elements, NEW K \in Maps, NEW a \in K
    PROVE  Fit(InsertNode(t, e, K, a).tree) /\ Fit(InsertEntry(t, e, K, a).tree)
<1> DEFINE old == GetNode(t, e, K, NameOf[a])
           w == NewNode(t, a)
<1>1. e \in Node /\ a \in Node
  BY DEF Maps, Node, Normal, Abnormal
<1>2. old \in Node \cup {NoNode}
  BY <1>1, GetNodeIsNode
<1>3. CASE old # NoNode
  BY <1>2, <1>3, ValuesFit DEF InsertNode, InsertEntry, Ok
<1>4. CASE old = NoNode
  <2>1. Good(w) /\ Ordered(w) /\ Fit(w) /\ w.kids = t.kids
    BY <1>1, ValuesFit, NewNodeGood
  <2> HIDE DEF w
  <2>2. GetNode(w, e, K, NameOf[a]) = NoNode
    <3>1. w.kids = t.kids
      BY <2>1
    <3>2. GetNode(w, e, K, NameOf[a]) = GetNode(t, e, K, NameOf[a])
      BY <3>1 DEF GetNode, MapNodes, MapEnd, MapStart
    <3> QED
      BY <1>4, <3>2
  <2>3. Fit(PlaceEntry(w, e, K, a).tree) /\ Fit(PlaceEntry(t, e, K, a).tree)
    BY <1>4, <2>1, <2>2, PlaceEntryFit
  <2> QED
    BY <1>4, <2>3 DEF InsertNode, InsertEntry, w
<1> QED
  BY <1>3, <1>4

LEMMA AnyAppendFit ==
    ASSUME NEW t, Good(t), Ordered(t), Fit(t), NEW p \in Node, NEW n \in Node
    PROVE  Fit(AnyAppend(t, p, n).tree)
<1>1. ASSUME NEW K \in Maps
      PROVE  Fit(AppendEntryNode(t, p, K, n).tree)
  BY InsertEntryFit DEF AppendEntryNode, Err
<1>2. Fit(AppendNode(t, p, n).tree)
  BY AppendNodeFit
<1> QED
  BY <1>1, <1>2 DEF AnyAppend, Maps

LEMMA RemoveEntryFit ==
    ASSUME NEW t, Good(t), Ordered(t), Fit(t), NEW e \in Elements, NEW K \in Maps, NEW name
    PROVE  Fit(RemoveEntry(t, e, K, name).tree)
<1>1. e \in Node
  BY DEF Node, Normal
<1>2. GetNode(t, e, K, name) \in Node \cup {NoNode}
  BY <1>1, GetNodeIsNode
<1> QED
  BY <1>2, TakeOutFit DEF RemoveEntry, Ok

LEMMA ClearMapFit ==
    ASSUME NEW t, Good(t), Fit(t), NEW e \in Elements, NEW K \in Maps
    PROVE  Fit(ClearMap(t, e, K).tree)
<1> DEFINE b == MapStart(t, e, K)
           c == MapEnd(t, e, K)
           s == t.kids[e]
<1>1. e \in Node /\ s \in Seq(Node)
  BY DEF Node, Normal, Good, Tree
<1>2. b \in 0 .. Len(s) /\ c \in b .. Len(s)
  BY <1>1, MapIsRun
<1>3. 1 <= b => s[b] \notin Texts
  <2>1. CASE K = Namespaces
    BY <2>1 DEF MapStart
  <2>2. CASE K # Namespaces
    <3>1. b = Leading(s, Namespaces)
      BY <2>2 DEF MapStart
    <3>2. \A i \in 1 .. b : s[i] \in Namespaces
      BY <1>1, <3>1, LeadingPrefix
    <3> QED
      BY <1>1, <1>2, <3>2, KindsAreDisjoint DEF Abnormal
  <2> QED
    BY <2>1, <2>2
<1>4. ClearMap(t, e, K).tree = FreeRun(t, e, b, c)
  BY DEF ClearMap, Ok
<1> HIDE DEF b, c
<1>5. ASSUME NEW x \in Texts, NEW y \in Texts, Beside(FreeRun(t, e, b, c), x, y)
      PROVE  FALSE
  <2>1. Beside(t, x, y) \/ (1 <= b /\ x = s[b])
    BY <1>1, <1>2, <1>5, FreeRunBeside
  <2> QED
    BY <1>3, <2>1 DEF Fit, Spaced
<1>6. FreeRun(t, e, b, c).consolidate
  BY <1>1, SwitchKept DEF Fit
<1> QED
  BY <1>4, <1>5, <1>6 DEF Fit, Spaced

-----------------------------------------------------------------------------
(* No call panics. *)

LEMMA ElementUnwrapSafe ==
    ASSUME NEW t, Good(t), Ordered(t), NEW n \in Node
    PROVE  ElementUnwrap(t, n).res # "panic"
<1>1. FirstChild(t, n) # NoNode => LastChild(t, n) # NoNode
  BY ChildIsNormal
<1>2. RemoveNode(t, n).res = "ok" /\ RemoveElement(t, n).res \in {"ok", "undefined"}
  BY DEF RemoveNode, RemoveElement, Dissolve, Ok, Undefined
<1> QED
  BY <1>1, <1>2 DEF ElementUnwrap, Ok, Err

LEMMA ElementWrapSafe ==
    ASSUME NEW t, Good(t), Ordered(t), NEW n \in Node, Live(t, n),
           NEW w \in Elements, t.phase[w] = "fresh"
    PROVE  ElementWrap(t, n, w).res # "panic"
<1> DEFINE p    == t.parent[n]
           prev == PreviousSibling(t, n)
           z0   == Unlink(NewNode(t, w), n)
           z    == Link(z0, w, 0, n)
           a    == AppendNode(z0, w, n)
<1>1. ElementWrap(t, n, w) =
        IF n \in Documents \/ (p \in Documents /\ n \notin Elements) THEN Err(t)
        ELSE IF p = NoNode \/ a.res # "ok" THEN a
        ELSE IF prev # NoNode THEN InsertAfter(a.tree, prev, w)
        ELSE PrependNode(a.tree, p, w)
  BY DEF ElementWrap
<1>2. a.res # "panic" /\ PrependNode(a.tree, p, w).res # "panic"
  BY EndsSafe
<1>3. n \notin Normal => a.res # "ok"
  BY DEF AppendNode, MayBeChild, Err
<1>4. n \in Normal \ Documents => a = Ok(z)
  BY WrapHolds
<1>5. n \in Normal \ Documents /\ prev # NoNode => InsertAfter(z, prev, w).res # "panic"
  BY WrapBeside
<1> HIDE DEF a, z, prev, p
<1> QED
  BY <1>1, <1>2, <1>3, <1>4, <1>5 DEF Ok, Err

LEMMA ReplaceSafe ==
    ASSUME NEW t, Good(t), Ordered(t), NEW n \in Node, NEW m \in Node, Live(t, m),
           CarefulReplace(t, n, m)
    PROVE  Replace(t, n, m).res # "panic"
<1> DEFINE u    == RemoveSubtree(t, n)
           prev == PreviousSibling(t, n)
           p    == t.parent[n]
<1>1. /\ n \in Documents => Replace(t, n, m) = Err(t)
      /\ n \notin Documents => Replace(t, n, m) = IF prev # NoNode THEN InsertAfter(u, prev, m)
                                                  ELSE PrependNode(u, p, m)
  BY ReplaceCases
<1>2. prev # NoNode => InsertAfter(u, prev, m).res # "panic"
  BY ReplaceBeside
<1>3. PrependNode(u, p, m).res # "panic"
  BY EndsSafe
<1> HIDE DEF u, prev, p
<1> QED
  BY <1>1, <1>2, <1>3 DEF Err

LEMMA EntriesSafe ==
    ASSUME NEW t, Good(t), Ordered(t), NEW p \in Node, NEW n \in Node
    PROVE  /\ AnyAppend(t, p, n).res # "panic"
           /\ \A e \in Elements, K \in Maps : \A name : RemoveEntry(t, e, K, name).res = "ok"
           /\ \A e \in Elements, K \in Maps : ClearMap(t, e, K).res = "ok"
<1>1. \A K \in Maps : AppendEntryNode(t, p, K, n).res \in {"ok", "err"}
  BY InsertOrderedEntry DEF AppendEntryNode, Err
<1>2. AnyAppend(t, p, n).res # "panic"
  BY <1>1, EndsSafe DEF AnyAppend, Maps
<1> QED
  BY <1>2 DEF RemoveEntry, RemoveNode, ClearMap, Ok

\* The conditions of a careful caller keep the reference of a move alive.
LEMMA CarefulSafe ==
    ASSUME NEW t, Good(t), NEW r \in Node, NEW n \in Node, Live(t, r), CarefulBeside(t, r, n)
    PROVE  InsertAfter(t, r, n).res # "panic" /\ InsertBefore(t, r, n).res # "panic"
<1>1. \/ NextSibling(t, n) # r
      \/ ~({PreviousSibling(t, n), NextSibling(t, n)} \subseteq Texts)
  BY DEF CarefulBeside
<1> QED
  BY <1>1, InsertSafe

\* No call of a careful caller panics.
LEMMA NextSafe ==
    ASSUME ~AnyCall, OrderInv, Next
    PROVE  ~panicked'
<1> USE DEF OrderInv, Inv
<1>1. LiveNodes \subseteq Node /\ \A n \in LiveNodes : Live(tree, n)
  BY DEF LiveNodes
<1>2. ASSUME NEW o, Call(o), o.res # "panic"
      PROVE  ~panicked'
  BY <1>2 DEF Call
<1>3. CASE New \/ SetTextConsolidation
  <2>1. \E t : Call(Ok(t))
    BY <1>3 DEF New, SetTextConsolidation
  <2> QED
    BY <1>2, <2>1 DEF Ok
<1>4. CASE AppendNew
  <2>1. PICK p \in LiveNodes, n \in Node : Call(AnyAppend(NewNode(tree, n), p, n))
    BY <1>4 DEF AppendNew
  <2> QED
    BY <1>1, <1>2, <2>1, FreshOrdered, EntriesSafe
<1>5. CASE NewDocumentWithElement
  <2>1. PICK d \in Documents, e \in LiveNodes :
            Call(AppendNode(NewNode(tree, d), d, e)) \/ Call(Err(tree))
    BY <1>5 DEF NewDocumentWithElement
  <2>2. AppendNode(NewNode(tree, d), d, e).res # "panic" /\ Err(tree).res # "panic"
    BY EndsSafe DEF Err
  <2> QED
    BY <1>2, <2>1, <2>2
<1>6. CASE CallAppend
  <2>1. PICK p \in LiveNodes, n \in LiveNodes : Call(AnyAppend(tree, p, n))
    BY <1>6 DEF CallAppend
  <2> QED
    BY <1>1, <1>2, <2>1, EntriesSafe
<1>7. CASE CallPrepend
  <2>1. PICK p \in LiveNodes, n \in LiveNodes : Call(PrependNode(tree, p, n))
    BY <1>7 DEF CallPrepend
  <2> QED
    BY <1>2, <2>1, EndsSafe
<1>8. CASE CallInsertAfter \/ CallInsertBefore
  <2>1. PICK r \in LiveNodes, n \in LiveNodes :
            /\ CarefulBeside(tree, r, n)
            /\ Call(InsertAfter(tree, r, n)) \/ Call(InsertBefore(tree, r, n))
    BY <1>8 DEF CallInsertAfter, CallInsertBefore
  <2> QED
    BY <1>1, <1>2, <2>1, CarefulSafe
<1>9. CASE CallDetach \/ CallRemove
  <2>1. PICK n \in LiveNodes : Call(DetachNode(tree, n)) \/ Call(RemoveNode(tree, n))
    BY <1>9 DEF CallDetach, CallRemove
  <2>2. DetachNode(tree, n).res = "ok" /\ RemoveNode(tree, n).res = "ok"
    BY DEF DetachNode, RemoveNode, Ok
  <2> QED
    BY <1>2, <2>1, <2>2
<1>10. CASE CallElementUnwrap
  <2>1. PICK n \in LiveNodes : Call(ElementUnwrap(tree, n))
    BY <1>10 DEF CallElementUnwrap
  <2> QED
    BY <1>1, <1>2, <2>1, ElementUnwrapSafe
<1>11. CASE CallElementWrap
  <2>1. PICK n \in LiveNodes, w \in Elements : Fresh(w) /\ Call(ElementWrap(tree, n, w))
    BY <1>11 DEF CallElementWrap
  <2> QED
    BY <1>1, <1>2, <2>1, ElementWrapSafe DEF Fresh
<1>12. CASE CallReplace
  <2>1. PICK n \in LiveNodes, m \in LiveNodes :
            CarefulReplace(tree, n, m) /\ Call(Replace(tree, n, m))
    BY <1>12 DEF CallReplace
  <2> QED
    BY <1>1, <1>2, <2>1, ReplaceSafe
<1>13. CASE CallInsertEntry
  <2>1. PICK e \in LiveNodes \cap Elements, a \in Abnormal, K \in Maps :
            a \in K /\ Call(InsertEntry(tree, e, K, a))
    BY <1>13 DEF CallInsertEntry, Maps
  <2>2. InsertEntry(tree, e, K, a).res = "ok"
    BY <2>1, InsertOrderedEntry
  <2> QED
    BY <1>2, <2>1, <2>2
<1>14. CASE CallRemoveEntry \/ CallClear
  <2>1. PICK e \in LiveNodes \cap Elements, K \in Maps : \E name :
            Call(RemoveEntry(tree, e, K, name)) \/ Call(ClearMap(tree, e, K))
    BY <1>14 DEF CallRemoveEntry, CallClear, Maps
  <2>1a. PICK name : Call(RemoveEntry(tree, e, K, name)) \/ Call(ClearMap(tree, e, K))
    BY <2>1
  <2>2. RemoveEntry(tree, e, K, name).res = "ok" /\ ClearMap(tree, e, K).res = "ok"
    BY <1>1, <2>1, <2>1a, EntriesSafe
  <2> QED
    BY <1>2, <2>1, <2>1a, <2>2
<1> QED
  BY <1>3, <1>4, <1>5, <1>6, <1>7, <1>8, <1>9, <1>10, <1>11, <1>12, <1>13, <1>14 DEF Next

\* Careful callers never make a call panic: not on a reference that the move
\* has merged away, not on the missing last child of an element that has a
\* first one, not on a place for an entry that the arena refuses.
THEOREM CarefulNeverPanic ==
    ASSUME ~AnyCall
    PROVE  Spec => []NoPanic
<1>1. Init => NoPanic
  BY DEF Init, NoPanic
<1>2. OrderInv /\ NoPanic /\ [Next]_vars => NoPanic'
  <2>1. ASSUME OrderInv, Next PROVE NoPanic'
    BY <2>1, NextSafe DEF NoPanic
  <2>2. ASSUME NoPanic, UNCHANGED vars PROVE NoPanic'
    BY <2>2 DEF NoPanic, vars
  <2> QED
    BY <2>1, <2>2
<1> QED
  BY <1>1, <1>2, OrderInvariance, PTL DEF Spec

-----------------------------------------------------------------------------
(* No two texts side by side. *)

\* While nobody turns consolidation off, every call of a careful caller keeps
\* the tree spaced.
LEMMA NextFit ==
    ASSUME ~AnyCall, ~MaySwitch, OrderInv, Fit(tree), Next
    PROVE  Fit(tree')
<1> USE DEF OrderInv, Inv
<1>1. LiveNodes \subseteq Node /\ \A n \in LiveNodes : Live(tree, n)
  BY DEF LiveNodes
<1>2. ASSUME NEW o, Call(o), o.res # "undefined" => Fit(o.tree)
      PROVE  Fit(tree')
  BY <1>2 DEF Call
<1>3. ASSUME NEW n \in Node
      PROVE  Good(NewNode(tree, n)) /\ Ordered(NewNode(tree, n)) /\ Fit(NewNode(tree, n))
  BY <1>3, FreshOrdered, ValuesFit
<1>4. CASE New
  <2>1. PICK n \in Node : Call(Ok(NewNode(tree, n)))
    BY <1>4 DEF New
  <2> QED
    BY <1>2, <1>3, <2>1 DEF Ok
<1>5. CASE AppendNew
  <2>1. PICK p \in LiveNodes, n \in Node : Call(AnyAppend(NewNode(tree, n), p, n))
    BY <1>5 DEF AppendNew
  <2> QED
    BY <1>1, <1>2, <1>3, <2>1, AnyAppendFit
<1>6. CASE NewDocumentWithElement
  <2>1. PICK d \in Documents, e \in LiveNodes :
            Call(AppendNode(NewNode(tree, d), d, e)) \/ Call(Err(tree))
    BY <1>6 DEF NewDocumentWithElement
  <2>2. d \in Node
    BY DEF Node, Normal
  <2>3. Fit(AppendNode(NewNode(tree, d), d, e).tree) /\ Fit(Err(tree).tree)
    BY <1>1, <1>3, <2>2, AppendNodeFit DEF Err
  <2> QED
    BY <1>2, <2>1, <2>3
<1>7. CASE CallAppend
  <2>1. PICK p \in LiveNodes, n \in LiveNodes : Call(AnyAppend(tree, p, n))
    BY <1>7 DEF CallAppend
  <2> QED
    BY <1>1, <1>2, <2>1, AnyAppendFit
<1>8. CASE CallPrepend
  <2>1. PICK p \in LiveNodes, n \in LiveNodes : Call(PrependNode(tree, p, n))
    BY <1>8 DEF CallPrepend
  <2> QED
    BY <1>1, <1>2, <2>1, PrependNodeFit
<1>9. CASE CallInsertAfter \/ CallInsertBefore
  <2>1. PICK r \in LiveNodes, n \in LiveNodes :
            /\ CarefulBeside(tree, r, n)
            /\ Call(InsertAfter(tree, r, n)) \/ Call(InsertBefore(tree, r, n))
    BY <1>9 DEF CallInsertAfter, CallInsertBefore
  <2>2. r \in Normal
    BY <2>1 DEF CarefulBeside
  <2> QED
    BY <1>1, <1>2, <2>1, <2>2, InsertFit
<1>10. CASE CallDetach \/ CallRemove
  <2>1. PICK n \in LiveNodes : Call(DetachNode(tree, n)) \/ Call(RemoveNode(tree, n))
    BY <1>10 DEF CallDetach, CallRemove
  <2> QED
    BY <1>1, <1>2, <2>1, TakeOutFit
<1>11. CASE CallElementUnwrap
  <2>1. PICK n \in LiveNodes : Call(ElementUnwrap(tree, n))
    BY <1>11 DEF CallElementUnwrap
  <2> QED
    BY <1>1, <1>2, <2>1, ElementUnwrapFit
<1>12. CASE CallElementWrap
  <2>1. PICK n \in LiveNodes, w \in Elements : Fresh(w) /\ Call(ElementWrap(tree, n, w))
    BY <1>12 DEF CallElementWrap
  <2>2. ElementWrap(tree, n, w).res # "undefined" => Fit(ElementWrap(tree, n, w).tree)
    BY <1>1, <2>1, ElementWrapFit DEF Fresh
  <2> QED
    BY <1>2, <2>1, <2>2
<1>13. CASE CallReplace
  <2>1. PICK n \in LiveNodes, m \in LiveNodes :
            CarefulReplace(tree, n, m) /\ Call(Replace(tree, n, m))
    BY <1>13 DEF CallReplace
  <2>2. Replace(tree, n, m).res # "undefined" => Fit(Replace(tree, n, m).tree)
    BY <1>1, <2>1, ReplaceFit
  <2> QED
    BY <1>2, <2>1, <2>2
<1>14. CASE CallInsertEntry
  <2>1. PICK e \in LiveNodes \cap Elements, a \in Abnormal, K \in Maps :
            a \in K /\ Call(InsertEntry(tree, e, K, a))
    BY <1>14 DEF CallInsertEntry, Maps
  <2>2. Fit(InsertEntry(tree, e, K, a).tree)
    BY <2>1, InsertEntryFit
  <2> QED
    BY <1>2, <2>1, <2>2
<1>15. CASE CallRemoveEntry \/ CallClear
  <2>1. PICK e \in LiveNodes \cap Elements, K \in Maps : \E name :
            Call(RemoveEntry(tree, e, K, name)) \/ Call(ClearMap(tree, e, K))
    BY <1>15 DEF CallRemoveEntry, CallClear, Maps
  <2>1a. PICK name : Call(RemoveEntry(tree, e, K, name)) \/ Call(ClearMap(tree, e, K))
    BY <2>1
  <2>2. Fit(RemoveEntry(tree, e, K, name).tree) /\ Fit(ClearMap(tree, e, K).tree)
    BY <2>1, <2>1a, RemoveEntryFit, ClearMapFit
  <2> QED
    BY <1>2, <2>1, <2>1a, <2>2
<1>16. ~SetTextConsolidation
  BY DEF SetTextConsolidation
<1> QED
  BY <1>4, <1>5, <1>6, <1>7, <1>8, <1>9, <1>10, <1>11, <1>12, <1>13, <1>14, <1>15,
     <1>16 DEF Next

LEMMA FitInvariance ==
    ASSUME ~AnyCall, ~MaySwitch
    PROVE  Spec => [](OrderInv /\ Fit(tree))
<1>1. Init => Fit(tree)
  BY DEF Init, Fit, Spaced, Beside, NextTo
<1>2. OrderInv /\ Fit(tree) /\ [Next]_vars => Fit(tree)'
  <2>1. ASSUME OrderInv, Fit(tree), Next PROVE Fit(tree)'
    BY <2>1, NextFit
  <2>2. ASSUME Fit(tree), UNCHANGED vars PROVE Fit(tree)'
    BY <2>2 DEF vars
  <2> QED
    BY <2>1, <2>2
<1> QED
  BY <1>1, <1>2, OrderInvariance, PTL DEF Spec

\* While consolidation has always been on, two text nodes are never adjacent,
\* whatever careful callers move, unwrap, wrap, replace or remove.
THEOREM TextsNeverMeet ==
    ASSUME ~AnyCall, ~MaySwitch
    PROVE  Spec => []NoAdjacentTexts
<1>1. OrderInv /\ Fit(tree) => NoAdjacentTexts
  <2> SUFFICES ASSUME OrderInv, Fit(tree), NEW p \in Node,
                      NEW i \in 1 .. Len(tree.kids[p]) - 1,
                      {tree.kids[p][i], tree.kids[p][i + 1]} \subseteq Texts
               PROVE  FALSE
    BY DEF NoAdjacentTexts
  <2> DEFINE s == tree.kids[p]
  <2>1. s \in Seq(Node)
    BY DEF OrderInv, Inv, Good, Tree
  <2>2. i \in DOMAIN s /\ i + 1 \in DOMAIN s
    BY <2>1
  <2>3. Beside(tree, s[i], s[i + 1])
    BY <2>2 DEF Beside, NextTo
  <2> QED
    BY <2>3 DEF Fit, Spaced
<1> QED
  BY <1>1, FitInvariance, PTL

-----------------------------------------------------------------------------
(* What happens to text. *)

HeldBy(t, x) == \E m \in Texts : \E i \in DOMAIN t.value[m] : t.value[m][i] = x

HeldOnce(t) ==
    \A m, n \in Texts : \A i \in DOMAIN t.value[m], j \in DOMAIN t.value[n] :
        t.value[m][i] = t.value[n][j] => m = n /\ i = j

\* A text node in use that holds nothing.
Blank(t, m) == Live(t, m) /\ t.value[m] = <<>>

\* u holds no piece that t does not hold, none of them twice when t does not,
\* takes no handle back and blanks no text.
Conserves(t, u) ==
    /\ HeldOnce(t) => HeldOnce(u)
    /\ \A x : HeldBy(u, x) => HeldBy(t, x)
    /\ \A x \in Node : u.phase[x] = "fresh" => t.phase[x] = "fresh"
    /\ \A m \in Texts : Blank(u, m) => Blank(t, m)

LEMMA ConservesTwice ==
    ASSUME NEW t, NEW u, NEW v, Conserves(t, u), Conserves(u, v)
    PROVE  Conserves(t, v)
BY DEF Conserves

Kept(t, u, m) == u.value[m] = t.value[m] /\ (Live(u, m) => Live(t, m))

\* Emptying nodes that go.
LEMMA EmptiedConserves ==
    ASSUME NEW t, NEW u, \A m \in Texts : \/ Kept(t, u, m)
                                          \/ u.value[m] = <<>> /\ ~Live(u, m),
           \A x \in Node : u.phase[x] = "fresh" => t.phase[x] = "fresh"
    PROVE  Conserves(t, u)
<1> USE DEF Kept
<1>1. ASSUME NEW m \in Texts, NEW i \in DOMAIN u.value[m]
      PROVE  i \in DOMAIN t.value[m] /\ u.value[m][i] = t.value[m][i]
  <2>1. u.value[m] # <<>>
    BY <1>1
  <2> QED
    BY <1>1, <2>1
<1> QED
  BY <1>1 DEF Conserves, HeldOnce, HeldBy, Blank

\* Where the members of a joined sequence come from.
LEMMA JoinSources ==
    ASSUME NEW S, NEW f \in Seq(S), NEW g \in Seq(S), NEW i \in DOMAIN (f \o g)
    PROVE  \/ i \in DOMAIN f /\ (f \o g)[i] = f[i]
           \/ i \notin DOMAIN f /\ i - Len(f) \in DOMAIN g /\ (f \o g)[i] = g[i - Len(f)]
OBVIOUS

\* The texts of p and q are joined in a, one of the two; the other is emptied.
Joined(t, u, p, q, a) ==
    /\ p # q /\ a \in {p, q}
    /\ u.value[a] = t.value[p] \o t.value[q]
    /\ \A m \in {p, q} \ {a} : u.value[m] = <<>>
    /\ \A m \in Texts \ {p, q} : u.value[m] = t.value[m]

LEMMA JoinConserves ==
    ASSUME NEW t, Good(t), NEW p \in Texts, NEW q \in Texts,
           NEW a, NEW u, Joined(t, u, p, q, a)
    PROVE  /\ HeldOnce(t) => HeldOnce(u)
           /\ \A x : HeldBy(u, x) => HeldBy(t, x)
<1> USE DEF Joined
<1> DEFINE f == t.value[p]
           g == t.value[q]
<1>1. f \in Seq(Node) /\ g \in Seq(Node) /\ Len(f) \in Nat /\ DOMAIN g \subseteq Int
      /\ DOMAIN f \subseteq Int
  BY TextsAreNormal DEF Good, Tree
<1>2. ASSUME NEW i \in DOMAIN u.value[a]
      PROVE  /\ i \in Int
             /\ \/ i \in DOMAIN f /\ u.value[a][i] = f[i]
                \/ i - Len(f) \in DOMAIN g /\ u.value[a][i] = g[i - Len(f)]
  <2> DEFINE w == f \o g
  <2>1. u.value[a] = w /\ f \in Seq(Node) /\ g \in Seq(Node)
    BY <1>1
  <2> HIDE DEF f, g
  <2>2. w \in Seq(Node)
    BY <2>1
  <2>3. \A k \in DOMAIN w : \/ k \in DOMAIN f /\ w[k] = f[k]
                            \/ k - Len(f) \in DOMAIN g /\ w[k] = g[k - Len(f)]
    BY <2>1, JoinSources
  <2> HIDE DEF w
  <2>4. \A k \in DOMAIN w : k \in Int
    BY <2>2
  <2> QED
    BY <1>2, <2>1, <2>3, <2>4
<1> HIDE DEF f, g
<1>3. ASSUME NEW m \in Texts, m # a, NEW i \in DOMAIN u.value[m]
      PROVE  m \notin {p, q} /\ u.value[m] = t.value[m]
  <2>1. DOMAIN <<>> = {}
    OBVIOUS
  <2> QED
    BY <1>3, <2>1
<1>4. ASSUME NEW x, HeldBy(u, x)
      PROVE  HeldBy(t, x)
  <2>1. PICK m \in Texts : \E i \in DOMAIN u.value[m] : u.value[m][i] = x
    BY <1>4 DEF HeldBy
  <2>2. PICK i \in DOMAIN u.value[m] : u.value[m][i] = x
    BY <2>1
  <2>3. CASE m = a
    BY <1>2, <2>2, <2>3 DEF HeldBy, f, g
  <2>4. CASE m # a
    BY <1>3, <2>2, <2>4 DEF HeldBy
  <2> QED
    BY <2>3, <2>4
<1>5. ASSUME HeldOnce(t)
      PROVE  HeldOnce(u)
  <2>1. /\ \A m, n \in Texts : \A i \in DOMAIN t.value[m], j \in DOMAIN t.value[n] :
              t.value[m][i] = t.value[n][j] => m = n /\ i = j
    BY <1>5 DEF HeldOnce
  <2>2. /\ \A i, j \in DOMAIN f : f[i] = f[j] => i = j
        /\ \A i, j \in DOMAIN g : g[i] = g[j] => i = j
        /\ \A i \in DOMAIN f, j \in DOMAIN g : f[i] # g[j]
        /\ \A m \in Texts \ {p, q} : \A i \in DOMAIN f, j \in DOMAIN t.value[m] :
              f[i] # t.value[m][j]
        /\ \A m \in Texts \ {p, q} : \A i \in DOMAIN g, j \in DOMAIN t.value[m] :
              g[i] # t.value[m][j]
    BY <2>1 DEF f, g
  <2>3. \A i, j \in DOMAIN u.value[a] : u.value[a][i] = u.value[a][j] => i = j
    <3> SUFFICES ASSUME NEW i \in DOMAIN u.value[a], NEW j \in DOMAIN u.value[a],
                        u.value[a][i] = u.value[a][j]
                 PROVE  i = j
      OBVIOUS
    <3>1. /\ i \in Int /\ j \in Int /\ Len(f) \in Int
      BY <1>1, <1>2
    <3>2. \/ i \in DOMAIN f /\ u.value[a][i] = f[i]
          \/ i - Len(f) \in DOMAIN g /\ u.value[a][i] = g[i - Len(f)]
      BY <1>2
    <3>3. \/ j \in DOMAIN f /\ u.value[a][j] = f[j]
          \/ j - Len(f) \in DOMAIN g /\ u.value[a][j] = g[j - Len(f)]
      BY <1>2
    <3>4. CASE i \in DOMAIN f /\ u.value[a][i] = f[i]
      BY <2>2, <3>3, <3>4
    <3>5. CASE i - Len(f) \in DOMAIN g /\ u.value[a][i] = g[i - Len(f)]
      <4>1. i - Len(f) = j - Len(f)
        BY <2>2, <3>3, <3>5
      <4> QED
        BY <3>1, <4>1
    <3> QED
      BY <3>2, <3>4, <3>5
  <2>4. ASSUME NEW m \in Texts, m # a, NEW i \in DOMAIN u.value[a], NEW j \in DOMAIN u.value[m]
        PROVE  u.value[a][i] # u.value[m][j]
    <3>1. m \in Texts \ {p, q} /\ u.value[m] = t.value[m]
      BY <1>3, <2>4
    <3>2. CASE i \in DOMAIN f /\ u.value[a][i] = f[i]
      BY <2>2, <2>4, <3>1, <3>2
    <3>3. CASE i - Len(f) \in DOMAIN g /\ u.value[a][i] = g[i - Len(f)]
      <4> DEFINE h == i - Len(f)
      <4> HIDE DEF h
      <4>1. h \in DOMAIN g /\ u.value[a][i] = g[h]
        BY <3>3 DEF h
      <4> QED
        BY <2>2, <2>4, <3>1, <4>1
    <3> QED
      BY <1>2, <3>2, <3>3
  <2>5. ASSUME NEW m \in Texts, m # a, NEW n \in Texts, n # a,
               NEW i \in DOMAIN u.value[m], NEW j \in DOMAIN u.value[n],
               u.value[m][i] = u.value[n][j]
        PROVE  m = n /\ i = j
    <3>1. u.value[m] = t.value[m] /\ u.value[n] = t.value[n]
      BY <1>3, <2>5
    <3> QED
      BY <2>1, <2>5, <3>1
  <2>6. ASSUME NEW m \in Texts, NEW n \in Texts,
               NEW i \in DOMAIN u.value[m], NEW j \in DOMAIN u.value[n],
               u.value[m][i] = u.value[n][j]
        PROVE  m = n /\ i = j
    <3>1. CASE m = a /\ n = a
      BY <2>3, <2>6, <3>1
    <3>2. CASE m = a /\ n # a
      BY <2>4, <2>6, <3>2
    <3>3. CASE m # a /\ n = a
      BY <2>4, <2>6, <3>3
    <3>4. CASE m # a /\ n # a
      BY <2>5, <2>6, <3>4
    <3> QED
      BY <3>1, <3>2, <3>3, <3>4
  <2> QED
    BY <2>6 DEF HeldOnce
<1> QED
  BY <1>4, <1>5

\* Freeing a node empties it.
LEMMA FreeEmpties ==
    ASSUME NEW t, Good(t), NEW n \in Node
    PROVE  /\ Free(t, n).value = [t.value EXCEPT ![n] = <<>>]
           /\ Free(t, n).phase = [t.phase EXCEPT ![n] = "removed"]
           /\ Unlink(t, n).value = t.value /\ Unlink(t, n).phase = t.phase
<1> DEFINE u == Unlink(t, n)
<1>1. Good(u) /\ u.phase = t.phase
  BY UnlinkGood
<1>2. u.value = t.value
  BY DEF Unlink, Good, Tree
<1> HIDE DEF u
<1>3. LET w == [u EXCEPT !.phase[n] = "removed", !.value[n] = <<>>]
      IN w.value = [u.value EXCEPT ![n] = <<>>] /\ w.phase = [u.phase EXCEPT ![n] = "removed"]
  BY <1>1 DEF Good, Tree
<1> QED
  BY <1>1, <1>2, <1>3 DEF Free, u

\* A merge moves pieces and makes none, even of a node with itself.
LEMMA AbsorbConserves ==
    ASSUME NEW t, Good(t), NEW a \in Texts, NEW m \in Texts,
           NEW s \in {t.value[a] \o t.value[m], t.value[m] \o t.value[a]}
    PROVE  Conserves(t, Absorb(t, a, s, m))
<1> DEFINE y == [t EXCEPT !.value[a] = s]
           u == Absorb(t, a, s, m)
<1>1. a \in Node /\ m \in Node /\ t.value \in [Node -> Seq(Node)] /\ t.phase \in [Node -> Phases]
  BY TextsAreNormal DEF Good, Tree
<1>2. s \in Seq(Node)
  <2>1. t.value[a] \in Seq(Node) /\ t.value[m] \in Seq(Node)
    BY <1>1
  <2>2. t.value[a] \o t.value[m] \in Seq(Node)
    BY <2>1
  <2>3. t.value[m] \o t.value[a] \in Seq(Node)
    BY <2>1
  <2> QED
    BY <2>2, <2>3
<1>3. /\ u.value = [[t.value EXCEPT ![a] = s] EXCEPT ![m] = <<>>]
      /\ u.phase = [t.phase EXCEPT ![m] = "removed"]
  <2>1. Good(y) /\ y.value = [t.value EXCEPT ![a] = s] /\ y.phase = t.phase
    BY <1>1, <1>2, ValueGood DEF Good, Tree
  <2>2. Absorb(t, a, s, m) = Free(y, m)
    BY DEF Absorb
  <2> HIDE DEF y
  <2>3. Free(y, m).value = [y.value EXCEPT ![m] = <<>>]
        /\ Free(y, m).phase = [y.phase EXCEPT ![m] = "removed"]
    BY <1>1, <2>1, FreeEmpties
  <2> QED
    BY <2>1, <2>2, <2>3
<1> HIDE DEF u
<1>4. \A x \in Node : u.phase[x] = "fresh" => t.phase[x] = "fresh"
  BY <1>1, <1>3
<1>5. /\ u.value[m] = <<>> /\ (a # m => u.value[a] = s)
      /\ \A n \in Texts \ {a, m} : u.value[n] = t.value[n]
  BY <1>1, <1>3, TextsAreNormal
<1>5a. ~Live(u, m) /\ \A n \in Texts \ {m} : Live(u, n) => Live(t, n)
  BY <1>1, <1>3, TextsAreNormal DEF Live
<1>5b. s = <<>> => t.value[a] = <<>>
  <2> DEFINE f == t.value[a]
             g == t.value[m]
  <2>1. f \in Seq(Node) /\ g \in Seq(Node)
    BY <1>1
  <2>2. s \in {f \o g, g \o f}
    OBVIOUS
  <2> HIDE DEF f, g
  <2>3. f \o g = <<>> => f = <<>>
    BY <2>1
  <2>4. g \o f = <<>> => f = <<>>
    BY <2>1
  <2> QED
    BY <2>2, <2>3, <2>4 DEF f
<1>6. CASE a = m
  BY <1>4, <1>5, <1>5a, <1>6, EmptiedConserves DEF u, Kept
<1>7. CASE a # m
  <2>1. Joined(t, u, a, m, a) \/ Joined(t, u, m, a, a)
    BY <1>5, <1>7 DEF Joined
  <2>2. (HeldOnce(t) => HeldOnce(u)) /\ \A x : HeldBy(u, x) => HeldBy(t, x)
    BY <2>1, JoinConserves
  <2> QED
    BY <1>4, <1>5, <1>5a, <1>5b, <1>7, <2>2 DEF Conserves, Blank, u
<1> QED
  BY <1>6, <1>7

\* The same texts in the same phases: what operations on links leave.
SameTexts(t, u) ==
    /\ \A m \in Texts : u.value[m] = t.value[m]
    /\ \A x \in Node : u.phase[x] = t.phase[x]

LEMMA SameConserves ==
    ASSUME NEW t, NEW u, SameTexts(t, u)
    PROVE  Conserves(t, u)
BY EmptiedConserves, TextsAreNormal DEF SameTexts, Kept, Live

\* Linking and unlinking write no text.
LEMMA LinksKeepTexts ==
    ASSUME NEW t, Good(t), NEW n \in Node, NEW p \in Node
    PROVE  /\ SameTexts(t, t) /\ SameTexts(t, Unlink(t, n))
           /\ \A i : SameTexts(t, Link(t, p, i, n)) /\ SameTexts(t, Link(Unlink(t, n), p, i, n))
<1>1. SameTexts(t, t)
  BY DEF SameTexts
<1>2. ASSUME NEW v, v \in Tree, NEW i
      PROVE  Link(v, p, i, n).value = v.value /\ Link(v, p, i, n).phase = v.phase
  BY <1>2 DEF Link, Tree
<1> DEFINE u == Unlink(t, n)
<1>3. Good(u) /\ u.value = t.value /\ u.phase = t.phase
  BY FreeEmpties, UnlinkGood
<1>4. t \in Tree /\ u \in Tree
  BY <1>3 DEF Good
<1> HIDE DEF u
<1>5. SameTexts(t, u)
  BY <1>3 DEF SameTexts
<1>6. ASSUME NEW i
      PROVE  SameTexts(t, Link(t, p, i, n)) /\ SameTexts(t, Link(u, p, i, n))
  <2>1. Link(t, p, i, n).value = t.value /\ Link(t, p, i, n).phase = t.phase
    BY <1>2, <1>4
  <2>2. Link(u, p, i, n).value = u.value /\ Link(u, p, i, n).phase = u.phase
    BY <1>2, <1>4
  <2> QED
    BY <2>1, <2>2, <1>3 DEF SameTexts
<1> QED
  BY <1>1, <1>5, <1>6 DEF u

LEMMA CheckedKeepTexts ==
    ASSUME NEW t, Good(t), NEW n \in Node
    PROVE  /\ \A p \in Node : /\ SameTexts(t, CheckedAppend(t, p, n).tree)
                              /\ SameTexts(t, CheckedPrepend(t, p, n).tree)
           /\ \A r \in Node : \A offset : t.parent[r] # NoNode =>
                 SameTexts(t, InsertBeside(t, r, n, offset).tree)
<1>1. ASSUME NEW p \in Node
      PROVE  /\ SameTexts(t, CheckedAppend(t, p, n).tree)
             /\ SameTexts(t, CheckedPrepend(t, p, n).tree)
  BY LinksKeepTexts DEF CheckedAppend, CheckedPrepend, Ok, Err
<1>2. ASSUME NEW r \in Node, NEW offset, t.parent[r] # NoNode
      PROVE  SameTexts(t, InsertBeside(t, r, n, offset).tree)
  <2>1. CASE n = r \/ n \in Ancestors(t, r)
    BY <2>1, LinksKeepTexts DEF InsertBeside, Err, Undefined
  <2>2. CASE n # r /\ n \notin Ancestors(t, r)
    <3> DEFINE u == Unlink(t, n)
               i == Position(u, r) + offset
    <3>1. u.parent[r] = t.parent[r]
      <4>1. n # r /\ u.parent = [t.parent EXCEPT ![n] = NoNode] /\ t \in Tree
        BY <2>2, UnlinkGood DEF Good
      <4> HIDE DEF u
      <4> QED
        BY <4>1 DEF Tree
    <3>2. t.parent[r] \in Node
      BY <1>2 DEF Good, Tree
    <3>3. InsertBeside(t, r, n, offset).tree = Link(u, u.parent[r], i, n)
      BY <2>2 DEF InsertBeside, Ok
    <3> HIDE DEF i
    <3> QED
      BY <3>1, <3>2, <3>3, LinksKeepTexts
  <2> QED
    BY <2>1, <2>2
<1> QED
  BY <1>1, <1>2

\* Merges move pieces, whatever nodes they are given.
LEMMA MergesConserve ==
    ASSUME NEW t, Good(t), NEW n, NEW prev, NEW next
    PROVE  /\ Conserves(t, RemoveConsolidate(t, prev, next).tree)
           /\ Conserves(t, AddConsolidate(t, n, prev, next).tree)
<1>1. Conserves(t, t)
  BY SameConserves DEF SameTexts
<1>2. Conserves(t, RemoveConsolidate(t, prev, next).tree)
  BY <1>1, AbsorbConserves DEF RemoveConsolidate
<1>3. Conserves(t, AddConsolidate(t, n, prev, next).tree)
  BY <1>1, AbsorbConserves DEF AddConsolidate
<1> QED
  BY <1>2, <1>3

LEMMA LeaveConserves ==
    ASSUME NEW t, Good(t), NEW n \in Node
    PROVE  LET u == LeaveNeighbours(t, n)
           IN /\ Good(u) /\ Conserves(t, u)
              /\ \A prev, next : Conserves(t, AddConsolidate(u, n, prev, next).tree)
              /\ \A v : SameTexts(u, v) => Conserves(t, v)
<1> DEFINE u == LeaveNeighbours(t, n)
<1>1. Good(u)
  BY LeaveNeighboursKeeps DEF SameBut
<1>2. Conserves(t, u)
  BY MergesConserve DEF LeaveNeighbours
<1> HIDE DEF u
<1>3. \A prev, next : Conserves(u, AddConsolidate(u, n, prev, next).tree)
  BY <1>1, MergesConserve
<1>4. \A v : SameTexts(u, v) => Conserves(u, v)
  BY SameConserves
<1> QED
  BY <1>1, <1>2, <1>3, <1>4, ConservesTwice DEF u

LEMMA AppendConserves ==
    ASSUME NEW t, Good(t), NEW p \in Node, NEW n \in Node
    PROVE  Conserves(t, AppendNode(t, p, n).tree)
<1> DEFINE u == LeaveNeighbours(t, n)
           a == AddConsolidate(u, n, LastChild(u, p), NoNode)
<1>1. /\ Good(u) /\ Conserves(t, u) /\ Conserves(t, a.tree)
      /\ \A v : SameTexts(u, v) => Conserves(t, v)
  BY LeaveConserves
<1>2. \/ AppendNode(t, p, n).tree = t \/ AppendNode(t, p, n).tree = a.tree
      \/ AppendNode(t, p, n) = CheckedAppend(u, p, n)
  BY DEF AppendNode, Ok, Err
<1> HIDE DEF u, a
<1>3. Conserves(t, t) /\ Conserves(t, CheckedAppend(u, p, n).tree)
  BY <1>1, CheckedKeepTexts, SameConserves, LinksKeepTexts
<1> QED
  BY <1>1, <1>2, <1>3

LEMMA PrependConserves ==
    ASSUME NEW t, Good(t), NEW p \in Node, NEW n \in Node
    PROVE  Conserves(t, PrependNode(t, p, n).tree)
<1> DEFINE u == LeaveNeighbours(t, n)
           a == AddConsolidate(u, n, NoNode, FirstChild(u, p))
           r == Last(AbnormalChildren(u, p))
<1>1. /\ Good(u) /\ Conserves(t, u) /\ Conserves(t, a.tree)
      /\ \A v : SameTexts(u, v) => Conserves(t, v)
  BY LeaveConserves
<1>2. \/ PrependNode(t, p, n).tree = t \/ PrependNode(t, p, n).tree = a.tree
      \/ PrependNode(t, p, n) = CheckedPrepend(u, p, n)
      \/ AbnormalChildren(u, p) # <<>> /\ PrependNode(t, p, n) = InsertBeside(u, r, n, 0)
  BY DEF PrependNode, Ok, Err, CheckedInsertAfter
<1> HIDE DEF u, a
<1>3. Conserves(t, t) /\ Conserves(t, CheckedPrepend(u, p, n).tree)
  BY <1>1, CheckedKeepTexts, SameConserves, LinksKeepTexts
<1>4. AbnormalChildren(u, p) # <<>> => r \in Node /\ u.parent[r] # NoNode
  BY <1>1, AbnormalChildrenListed, NoNodeIsNoNode
<1> HIDE DEF r
<1>5. AbnormalChildren(u, p) # <<>> => SameTexts(u, InsertBeside(u, r, n, 0).tree)
  BY <1>1, <1>4, CheckedKeepTexts
<1> QED
  BY <1>1, <1>2, <1>3, <1>5

\* A reference that is live after the merge has its parent.
LEMMA KeepsParent ==
    ASSUME NEW t, Good(t), NEW r \in Node, NEW n, MayBeChild(t.parent[r], n),
           Live(LeaveNeighbours(t, n), r)
    PROVE  n \in Node /\ LeaveNeighbours(t, n).parent[r] \in Container
<1>1. t.parent[r] \in Container /\ n \in Node
  BY MayBeChildKinds
<1>2. SameBut(t, LeaveNeighbours(t, n), NextSibling(t, n))
  BY <1>1, LeaveNeighboursKeeps
<1> QED
  BY <1>1, <1>2 DEF SameBut, Live

LEMMA InsertConserves ==
    ASSUME NEW t, Good(t), NEW r \in Node, NEW n \in Node
    PROVE  /\ Conserves(t, InsertAfter(t, r, n).tree)
           /\ Conserves(t, InsertBefore(t, r, n).tree)
<1> DEFINE u == LeaveNeighbours(t, n)
           a == AddConsolidate(u, n, r, NextSibling(u, r))
           b == AddConsolidate(u, n, PreviousSibling(u, r), r)
<1>1. /\ Good(u) /\ Conserves(t, u) /\ Conserves(t, a.tree) /\ Conserves(t, b.tree)
      /\ \A v : SameTexts(u, v) => Conserves(t, v)
  BY LeaveConserves
<1>2. Conserves(t, t)
  BY SameConserves DEF SameTexts
<1>3. MayBeChild(t.parent[r], n) /\ Live(u, r) => u.parent[r] # NoNode
  BY KeepsParent, NoNodeIsNoNode, TextsAreNormal
<1>4. \/ InsertAfter(t, r, n).tree \in {t, u, a.tree}
      \/ /\ MayBeChild(t.parent[r], n) /\ Live(u, r)
         /\ InsertAfter(t, r, n) = InsertBeside(u, r, n, 0)
  BY DEF InsertAfter, Ok, Err, Panic, CheckedInsertAfter
<1>5. \/ InsertBefore(t, r, n).tree \in {t, u, b.tree}
      \/ /\ MayBeChild(t.parent[r], n) /\ Live(u, r)
         /\ InsertBefore(t, r, n) = InsertBeside(u, r, n, -1)
  BY DEF InsertBefore, Ok, Err, Panic, CheckedInsertBefore
<1> HIDE DEF u, a, b
<1>6. MayBeChild(t.parent[r], n) /\ Live(u, r) =>
        /\ Conserves(t, InsertBeside(u, r, n, 0).tree)
        /\ Conserves(t, InsertBeside(u, r, n, -1).tree)
  BY <1>1, <1>3, CheckedKeepTexts
<1> QED
  BY <1>1, <1>2, <1>4, <1>5, <1>6

\* Freeing nodes empties them.
LEMMA RemovalsConserve ==
    ASSUME NEW t, Good(t), NEW n \in Node
    PROVE  /\ Conserves(t, RemoveSubtree(t, n)) /\ Conserves(t, Dissolve(t, n).tree)
           /\ \A i, j : Conserves(t, FreeRun(t, n, i, j))
<1>1. \A m \in Node : t.value[m] = t.value[m]
  OBVIOUS
<1>2. Conserves(t, RemoveSubtree(t, n))
  <2> DEFINE u == Unlink(t, n)
             w == RemoveSubtree(t, n)
  <2>1. u \in Tree /\ u.value = t.value /\ u.phase = t.phase
    BY FreeEmpties, UnlinkGood DEF Good
  <2> HIDE DEF u
  <2>2. LET G == Subtree(t, n)
            v == [u EXCEPT
              !.parent = [m \in Node |-> IF m \in G THEN NoNode ELSE @[m]],
              !.kids   = [m \in Node |-> IF m \in G THEN <<>> ELSE @[m]],
              !.value  = [m \in Node |-> IF m \in G THEN <<>> ELSE @[m]],
              !.phase  = [m \in Node |-> IF m \in G THEN "removed" ELSE @[m]]]
        IN \A m \in Node : \/ v.value[m] = u.value[m] /\ v.phase[m] = u.phase[m]
                           \/ v.value[m] = <<>> /\ v.phase[m] = "removed"
    BY <2>1 DEF Tree
  <2>3. \A m \in Node : \/ w.value[m] = t.value[m] /\ w.phase[m] = t.phase[m]
                        \/ w.value[m] = <<>> /\ w.phase[m] = "removed"
    BY <2>1, <2>2 DEF RemoveSubtree, u
  <2> HIDE DEF w
  <2> QED
    BY <2>3, EmptiedConserves, TextsAreNormal DEF w, Kept, Live
<1>3. Conserves(t, Dissolve(t, n).tree)
  <2> DEFINE w == Dissolve(t, n).tree
  <2>1. t \in Tree
    BY DEF Good
  <2>2. \A m \in Node : \/ w.value[m] = t.value[m] /\ w.phase[m] = t.phase[m]
                        \/ w.value[m] = <<>> /\ w.phase[m] = "removed"
    BY <2>1 DEF Dissolve, Ok, Undefined, Tree
  <2> HIDE DEF w
  <2> QED
    BY <2>2, EmptiedConserves, TextsAreNormal DEF w, Kept, Live
<1>4. ASSUME NEW i, NEW j
      PROVE  Conserves(t, FreeRun(t, n, i, j))
  <2> DEFINE w == FreeRun(t, n, i, j)
  <2>1. t \in Tree
    BY DEF Good
  <2>2. \A m \in Node : \/ w.value[m] = t.value[m] /\ w.phase[m] = t.phase[m]
                        \/ w.value[m] = <<>> /\ w.phase[m] = "removed"
    BY <2>1 DEF FreeRun, Tree
  <2> HIDE DEF w
  <2> QED
    BY <2>2, EmptiedConserves, TextsAreNormal DEF w, Kept, Live
<1> QED
  BY <1>2, <1>3, <1>4

LEMMA TakeOutConserves ==
    ASSUME NEW t, Good(t), NEW n \in Node
    PROVE  /\ Conserves(t, DetachNode(t, n).tree)
           /\ Conserves(t, RemoveNode(t, n).tree)
<1> DEFINE prev == PreviousSibling(t, n)
           next == NextSibling(t, n)
           u == Unlink(t, n)
           v == RemoveSubtree(t, n)
<1>1. /\ DetachNode(t, n).tree = RemoveConsolidate(u, prev, next).tree
      /\ RemoveNode(t, n).tree = RemoveConsolidate(v, prev, next).tree
  BY DEF DetachNode, RemoveNode, Ok
<1>2. Good(u) /\ Conserves(t, u)
  BY UnlinkGood, LinksKeepTexts, SameConserves
<1>3. Good(v) /\ Conserves(t, v)
  BY RemoveSubtreeGood, RemovalsConserve
<1> HIDE DEF u, v, prev, next
<1> QED
  BY <1>1, <1>2, <1>3, MergesConserve, ConservesTwice

LEMMA UnwrapConserves ==
    ASSUME NEW t, Good(t), NEW n \in Node
    PROVE  Conserves(t, ElementUnwrap(t, n).tree)
<1> DEFINE first == FirstChild(t, n)
           last  == LastChild(t, n)
           r     == RemoveElement(t, n)
           d     == r.tree
           prev  == PreviousSibling(d, first)
           next  == NextSibling(d, last)
           a     == RemoveConsolidate(d, prev, first)
           b     == RemoveConsolidate(a.tree, prev, next)
           c     == RemoveConsolidate(a.tree, last, NextSibling(a.tree, last))
<1>1. \/ ElementUnwrap(t, n).tree = t
      \/ ElementUnwrap(t, n) = RemoveNode(t, n)
      \/ n \in Elements /\ ElementUnwrap(t, n).tree \in {d, b.tree, c.tree}
  BY DEF ElementUnwrap, Ok, Err, Panic
<1>2. Conserves(t, t)
  BY LinksKeepTexts, SameConserves
<1>3. ASSUME n \in Elements
      PROVE  Good(d) /\ Conserves(t, d)
  <2> DEFINE h == Leading(t.kids[n], Abnormal)
             f == FreeRun(t, n, 0, h)
  <2>1. Good(d)
    BY <1>3, RemoveElementSound DEF Sound
  <2>2. Good(f)
    <3>1. t.kids[n] \in Seq(Node)
      BY DEF Good, Tree
    <3>2. h \in 0 .. Len(t.kids[n]) /\ \A k \in 1 .. h : t.kids[n][k] \in Abnormal
      BY <3>1, LeadingPrefix
    <3>3. Abnormal \cap Container = {}
      BY KindsAreDisjoint DEF Container
    <3> DEFINE z == 0
    <3>4. z \in 0 .. Len(t.kids[n]) /\ h \in z .. Len(t.kids[n])
          /\ \A k \in z + 1 .. h : t.kids[n][k] \notin Container
      BY <3>1, <3>2, <3>3
    <3> HIDE DEF z, h
    <3>5. Good(FreeRun(t, n, z, h))
      BY <3>4, FreeRunGood
    <3> QED
      BY <3>5 DEF z
  <2>3. Conserves(t, f)
    BY RemovalsConserve
  <2>4. d = Dissolve(f, n).tree
    BY DEF RemoveElement
  <2> HIDE DEF f, d
  <2>5. Conserves(f, Dissolve(f, n).tree)
    BY <2>2, RemovalsConserve
  <2> QED
    BY <2>1, <2>3, <2>4, <2>5, ConservesTwice
<1> HIDE DEF d
<1>4. ASSUME n \in Elements
      PROVE  Good(a.tree) /\ Conserves(t, a.tree)
  BY <1>3, <1>4, RemoveConsolidateFrees, MergesConserve, ConservesTwice DEF SameBut
<1> HIDE DEF a
<1>5. ASSUME n \in Elements
      PROVE  Conserves(t, b.tree) /\ Conserves(t, c.tree)
  BY <1>4, <1>5, MergesConserve, ConservesTwice
<1>6. Conserves(t, RemoveNode(t, n).tree)
  BY TakeOutConserves
<1> HIDE DEF b, c
<1> QED
  BY <1>1, <1>2, <1>3, <1>5, <1>6

\* A new handle is a new piece.
FreshUnheld(t) == \A x \in Node : HeldBy(t, x) => t.phase[x] # "fresh"

\* Texts hold handles of texts, and those in use hold some.
Written(t) ==
    \A m \in Texts : /\ \A i \in DOMAIN t.value[m] : t.value[m][i] \in Texts
                     /\ Live(t, m) => t.value[m] # <<>>

Once(t) == HeldOnce(t) /\ FreshUnheld(t) /\ Written(t)

LEMMA NewKeepsOnce ==
    ASSUME NEW t, Good(t), Once(t), NEW n \in Node, t.phase[n] = "fresh"
    PROVE  Once(NewNode(t, n))
<1> USE DEF Once
<1> DEFINE u == NewNode(t, n)
<1>1. /\ t \in Tree /\ u.phase = [t.phase EXCEPT ![n] = "live"]
      /\ u.value = [t.value EXCEPT ![n] = IF n \in Texts \cup Abnormal THEN <<n>> ELSE <<>>]
  BY DEF NewNode, Good, Tree
<1>2. /\ \A m \in Texts : m # n => u.value[m] = t.value[m]
      /\ n \in Texts => u.value[n] = <<n>>
  BY <1>1, TextsAreNormal DEF Tree
<1>3. /\ \A x \in Node : x # n => u.phase[x] = t.phase[x]
      /\ u.phase[n] = "live"
  BY <1>1 DEF Tree
<1> HIDE DEF u
<1>4. \A m \in Texts : \A i \in DOMAIN t.value[m] : t.value[m][i] # n
  BY DEF FreshUnheld, HeldBy
<1>5. n \in Texts => \A i \in DOMAIN u.value[n] : i = 1 /\ u.value[n][i] = n
  BY <1>2
<1>6. ASSUME NEW l \in Texts, NEW m \in Texts,
             NEW i \in DOMAIN u.value[l], NEW j \in DOMAIN u.value[m],
             u.value[l][i] = u.value[m][j]
      PROVE  l = m /\ i = j
  <2>1. CASE l = n /\ m = n
    BY <1>5, <1>6, <2>1
  <2>2. CASE l = n /\ m # n
    BY <1>2, <1>4, <1>5, <1>6, <2>2
  <2>3. CASE l # n /\ m = n
    BY <1>2, <1>4, <1>5, <1>6, <2>3
  <2>4. CASE l # n /\ m # n
    BY <1>2, <1>6, <2>4 DEF HeldOnce
  <2> QED
    BY <2>1, <2>2, <2>3, <2>4
<1>7. ASSUME NEW x \in Node, HeldBy(u, x)
      PROVE  u.phase[x] # "fresh"
  <2>1. x = n \/ HeldBy(t, x)
    BY <1>2, <1>5, <1>7 DEF HeldBy
  <2> QED
    BY <1>3, <2>1 DEF FreshUnheld
<1>8. Written(u)
  <2> SUFFICES ASSUME NEW m \in Texts
               PROVE  /\ \A i \in DOMAIN u.value[m] : u.value[m][i] \in Texts
                      /\ Live(u, m) => u.value[m] # <<>>
    BY DEF Written
  <2>1. CASE m = n
    BY <1>2, <1>5, <2>1
  <2>2. CASE m # n
    BY <1>2, <1>3, <2>2, TextsAreNormal DEF Written, Live
  <2> QED
    BY <2>1, <2>2
<1> QED
  BY <1>6, <1>7, <1>8 DEF HeldOnce, FreshUnheld, u

\* What conserves keeps all three.
LEMMA ConservesOnce ==
    ASSUME NEW t, NEW u, Conserves(t, u), Once(t)
    PROVE  Once(u)
<1>1. HeldOnce(u) /\ FreshUnheld(u)
  BY DEF Conserves, FreshUnheld, Once
<1>2. \A m \in Texts : \A i \in DOMAIN t.value[m] : t.value[m][i] \in Texts
  BY DEF Once, Written
<1>3. \A x : HeldBy(u, x) => x \in Texts
  BY <1>2 DEF Conserves, HeldBy
<1>4. \A m \in Texts : \A i \in DOMAIN u.value[m] : u.value[m][i] \in Texts
  BY <1>3 DEF HeldBy
<1>5. \A m \in Texts : ~Blank(u, m)
  BY DEF Conserves, Once, Written, Blank
<1> QED
  BY <1>1, <1>4, <1>5 DEF Once, Written, Blank

LEMMA WrapKeepsOnce ==
    ASSUME NEW t, Good(t), Once(t), NEW n \in Node, Live(t, n),
           NEW w \in Elements, t.phase[w] = "fresh"
    PROVE  Once(ElementWrap(t, n, w).tree)
<1> DEFINE p    == t.parent[n]
           prev == PreviousSibling(t, n)
           v    == NewNode(t, w)
           u    == Unlink(v, n)
           a    == AppendNode(u, w, n)
           z    == a.tree
<1>1. w \in Node /\ w # n
  BY DEF Live, Node, Normal
<1>2. Good(v) /\ Once(v)
  BY <1>1, NewNodeGood, NewKeepsOnce
<1>3. v.phase = [t.phase EXCEPT ![w] = "live"] /\ t.phase \in [Node -> Phases]
  BY <1>1, NewNodeGood DEF Good, Tree
<1>4. \/ ElementWrap(t, n, w).tree \in {t, z}
      \/ prev # NoNode /\ ElementWrap(t, n, w) = InsertAfter(z, prev, w)
      \/ p # NoNode /\ ElementWrap(t, n, w) = PrependNode(z, p, w)
  BY DEF ElementWrap, Err
<1>5. prev \in Node \cup {NoNode} /\ p \in Node \cup {NoNode}
  BY NeighbourIsOther DEF PreviousSibling, Good, Tree
<1> HIDE DEF v, prev, p
<1>6. Good(u) /\ Conserves(v, u) /\ u.phase = v.phase
  BY <1>2, UnlinkGood, LinksKeepTexts, SameConserves
<1> HIDE DEF u
<1>7. Live(u, w) /\ Live(u, n)
  BY <1>1, <1>3, <1>6 DEF Live
<1>8. Good(z) /\ Conserves(u, z)
  BY <1>1, <1>6, <1>7, AppendNodeMoves, AppendConserves DEF Moved
<1> HIDE DEF z
<1>9. Once(z)
  BY <1>2, <1>6, <1>8, ConservesTwice, ConservesOnce
<1>10. \A r \in Node : Once(InsertAfter(z, r, w).tree) /\ Once(PrependNode(z, r, w).tree)
  BY <1>1, <1>8, <1>9, InsertConserves, PrependConserves, ConservesOnce
<1> QED
  BY <1>4, <1>5, <1>9, <1>10

LEMMA ReplaceConserves ==
    ASSUME NEW t, Good(t), NEW n \in Node, NEW m \in Node
    PROVE  Conserves(t, Replace(t, n, m).tree)
<1> DEFINE p    == t.parent[n]
           prev == PreviousSibling(t, n)
           u    == RemoveSubtree(t, n)
<1>1. Good(u) /\ Conserves(t, u) /\ Conserves(t, t)
  BY RemoveSubtreeGood, RemovalsConserve, LinksKeepTexts, SameConserves
<1>2. \/ Replace(t, n, m).tree \in {t, u}
      \/ prev # NoNode /\ Replace(t, n, m) = InsertAfter(u, prev, m)
      \/ p # NoNode /\ Replace(t, n, m) = PrependNode(u, p, m)
  BY DEF Replace, Err, Panic
<1>3. prev \in Node \cup {NoNode} /\ p \in Node \cup {NoNode}
  BY NeighbourIsOther DEF PreviousSibling, Good, Tree
<1> HIDE DEF u, prev, p
<1>4. \A r \in Node : /\ Conserves(u, InsertAfter(u, r, m).tree)
                      /\ Conserves(u, PrependNode(u, r, m).tree)
  BY <1>1, InsertConserves, PrependConserves
<1> QED
  BY <1>1, <1>2, <1>3, <1>4, ConservesTwice

\* What a look-up finds is an entry of the map.
LEMMA GetNodeInMap ==
    ASSUME NEW t, Good(t), NEW e \in Node, NEW K \in Maps, NEW name,
           GetNode(t, e, K, name) # NoNode
    PROVE  GetNode(t, e, K, name) \in K
<1> DEFINE s == t.kids[e]
           b == MapStart(t, e, K)
           c == MapEnd(t, e, K)
           q == SubSeq(s, b + 1, c)
<1>1. MapNodes(t, e, K) = q
  BY DEF MapNodes
<1>2. PICK i \in DOMAIN q : GetNode(t, e, K, name) = q[i]
  BY <1>1, GetNodeFinds
<1>3. /\ s \in Seq(Node) /\ b \in 0 .. Len(s) /\ c \in b .. Len(s)
      /\ \A k \in b + 1 .. c : s[k] \in K
  BY MapIsRun DEF Good, Tree
<1> HIDE DEF s, b, c
<1>4. i \in 1 .. c - b /\ q[i] = s[i + b]
  BY <1>3
<1>5. i + b \in b + 1 .. c
  BY <1>3, <1>4
<1> QED
  BY <1>2, <1>3, <1>4, <1>5

\* Entries are no texts.
LEMMA EntriesKeepTexts ==
    ASSUME NEW t, Good(t), NEW e \in Elements, NEW K \in Maps, NEW a \in K
    PROVE  /\ SameTexts(t, PlaceEntry(t, e, K, a).tree)
           /\ SameTexts(t, InsertNode(t, e, K, a).tree)
           /\ \/ SameTexts(t, InsertEntry(t, e, K, a).tree)
              \/ SameTexts(NewNode(t, a), InsertEntry(t, e, K, a).tree)
<1>1. e \in Node /\ a \in Node /\ K \cap Texts = {}
  BY KindsAreDisjoint DEF Maps, Node, Normal, Abnormal
<1>2. ASSUME NEW v, Good(v)
      PROVE  SameTexts(v, PlaceEntry(v, e, K, a).tree)
  <2> DEFINE at == InsertionPoint(v, e, K)
  <2>1. \/ at # NoNode /\ PlaceEntry(v, e, K, a).tree = InsertBeside(v, at, a, 0).tree
        \/ PlaceEntry(v, e, K, a).tree = CheckedPrepend(v, e, a).tree
    BY DEF PlaceEntry, Unwrapped, Panic, CheckedInsertAfter
  <2>2. at # NoNode => at \in Node /\ v.parent[at] # NoNode
    BY <1>1, <1>2, InsertionPointListed, NoNodeIsNoNode
  <2> HIDE DEF at
  <2> QED
    BY <1>1, <1>2, <2>1, <2>2, CheckedKeepTexts
<1> DEFINE old == GetNode(t, e, K, NameOf[a])
<1>3. old # NoNode => old \in K
  BY <1>1, GetNodeInMap
<1>4. \/ InsertNode(t, e, K, a) = PlaceEntry(t, e, K, a)
      \/ old # NoNode /\ InsertNode(t, e, K, a).tree = [t EXCEPT !.value[old] = t.value[a]]
  BY DEF InsertNode, Ok
<1>5. \/ InsertEntry(t, e, K, a) = PlaceEntry(NewNode(t, a), e, K, a)
      \/ old # NoNode /\ InsertEntry(t, e, K, a).tree = [t EXCEPT !.value[old] = <<a>>]
  BY DEF InsertEntry, Ok
<1> HIDE DEF old
<1>6. ASSUME old # NoNode, NEW v
      PROVE  SameTexts(t, [t EXCEPT !.value[old] = v])
  <2>1. t \in Tree
    BY DEF Good
  <2>2. old \notin Texts
    BY <1>1, <1>3, <1>6
  <2> QED
    BY <2>1, <2>2, TextsAreNormal DEF Tree, SameTexts
<1>7. Good(NewNode(t, a))
  BY <1>1, NewNodeGood
<1> QED
  BY <1>2, <1>4, <1>5, <1>6, <1>7

LEMMA EntriesConserve ==
    ASSUME NEW t, Good(t), NEW p \in Node, NEW n \in Node
    PROVE  /\ Conserves(t, AnyAppend(t, p, n).tree)
           /\ \A e \in Elements, K \in Maps : \A name :
                 /\ Conserves(t, RemoveEntry(t, e, K, name).tree)
                 /\ Conserves(t, ClearMap(t, e, K).tree)
<1>1. Conserves(t, t)
  BY LinksKeepTexts, SameConserves
<1>2. ASSUME NEW K \in Maps
      PROVE  Conserves(t, AppendEntryNode(t, p, K, n).tree)
  BY <1>1, <1>2, EntriesKeepTexts, SameConserves DEF AppendEntryNode, Err
<1>3. Conserves(t, AnyAppend(t, p, n).tree)
  BY <1>2, AppendConserves DEF AnyAppend, Maps
<1>4. ASSUME NEW e \in Elements, NEW K \in Maps, NEW name
      PROVE  /\ Conserves(t, RemoveEntry(t, e, K, name).tree)
             /\ Conserves(t, ClearMap(t, e, K).tree)
  <2>1. e \in Node
    BY DEF Node, Normal
  <2>2. GetNode(t, e, K, name) \in Node \cup {NoNode}
    BY <2>1, GetNodeIsNode
  <2>3. Conserves(t, RemoveEntry(t, e, K, name).tree)
    BY <1>1, <2>2, TakeOutConserves DEF RemoveEntry, Ok
  <2>4. Conserves(t, ClearMap(t, e, K).tree)
    BY <2>1, RemovalsConserve DEF ClearMap, Ok
  <2> QED
    BY <2>3, <2>4
<1> QED
  BY <1>3, <1>4

\* Every call, careful or not, leaves every piece at most once, and a handle
\* that is not in use names no piece.
LEMMA NextKeepsOnce ==
    ASSUME Inv, Once(tree), Next
    PROVE  Once(tree')
<1> USE DEF Inv
<1>1. LiveNodes \subseteq Node /\ \A n \in LiveNodes : Live(tree, n)
  BY DEF LiveNodes
<1>2. ASSUME NEW o, Call(o), Once(o.tree)
      PROVE  Once(tree')
  BY <1>2 DEF Call
<1>3. ASSUME NEW o, NEW t, Call(o), Once(t), Conserves(t, o.tree)
      PROVE  Once(tree')
  BY <1>2, <1>3, ConservesOnce
<1>4. ASSUME NEW n \in Node, Fresh(n)
      PROVE  Good(NewNode(tree, n)) /\ Once(NewNode(tree, n))
  BY <1>4, NewNodeGood, NewKeepsOnce DEF Fresh
<1>5. CASE New
  <2>1. PICK n \in Node : Fresh(n) /\ Call(Ok(NewNode(tree, n)))
    BY <1>5 DEF New
  <2> QED
    BY <1>2, <1>4, <2>1 DEF Ok
<1>6. CASE AppendNew
  <2>1. PICK p \in LiveNodes, n \in Node :
            Fresh(n) /\ Call(AnyAppend(NewNode(tree, n), p, n))
    BY <1>6 DEF AppendNew
  <2>2. Conserves(NewNode(tree, n), AnyAppend(NewNode(tree, n), p, n).tree)
    BY <1>1, <1>4, <2>1, EntriesConserve
  <2> QED
    BY <1>3, <1>4, <2>1, <2>2
<1>7. CASE NewDocumentWithElement
  <2>1. PICK d \in Documents, e \in LiveNodes :
            Fresh(d) /\ (Call(AppendNode(NewNode(tree, d), d, e)) \/ Call(Err(tree)))
    BY <1>7 DEF NewDocumentWithElement
  <2>2. d \in Node
    BY DEF Node, Normal
  <2>3. Conserves(NewNode(tree, d), AppendNode(NewNode(tree, d), d, e).tree)
    BY <1>1, <1>4, <2>1, <2>2, AppendConserves
  <2>4. Once(Err(tree).tree)
    BY DEF Err
  <2> QED
    BY <1>2, <1>3, <1>4, <2>1, <2>2, <2>3, <2>4
<1>8. CASE CallAppend
  <2>1. PICK p \in LiveNodes, n \in LiveNodes : Call(AnyAppend(tree, p, n))
    BY <1>8 DEF CallAppend
  <2> QED
    BY <1>1, <1>3, <2>1, EntriesConserve
<1>9. CASE CallPrepend
  <2>1. PICK p \in LiveNodes, n \in LiveNodes : Call(PrependNode(tree, p, n))
    BY <1>9 DEF CallPrepend
  <2> QED
    BY <1>1, <1>3, <2>1, PrependConserves
<1>10. CASE CallInsertAfter \/ CallInsertBefore
  <2>1. PICK r \in LiveNodes, n \in LiveNodes :
            Call(InsertAfter(tree, r, n)) \/ Call(InsertBefore(tree, r, n))
    BY <1>10 DEF CallInsertAfter, CallInsertBefore
  <2> QED
    BY <1>1, <1>3, <2>1, InsertConserves
<1>11. CASE CallDetach \/ CallRemove
  <2>1. PICK n \in LiveNodes : Call(DetachNode(tree, n)) \/ Call(RemoveNode(tree, n))
    BY <1>11 DEF CallDetach, CallRemove
  <2> QED
    BY <1>1, <1>3, <2>1, TakeOutConserves
<1>12. CASE CallElementUnwrap
  <2>1. PICK n \in LiveNodes : Call(ElementUnwrap(tree, n))
    BY <1>12 DEF CallElementUnwrap
  <2> QED
    BY <1>1, <1>3, <2>1, UnwrapConserves
<1>13. CASE CallElementWrap
  <2>1. PICK n \in LiveNodes, w \in Elements : Fresh(w) /\ Call(ElementWrap(tree, n, w))
    BY <1>13 DEF CallElementWrap
  <2>2. Once(ElementWrap(tree, n, w).tree)
    BY <1>1, <2>1, WrapKeepsOnce DEF Fresh
  <2> QED
    BY <1>2, <2>1, <2>2
<1>14. CASE CallReplace
  <2>1. PICK n \in LiveNodes, m \in LiveNodes : Call(Replace(tree, n, m))
    BY <1>14 DEF CallReplace
  <2> QED
    BY <1>1, <1>3, <2>1, ReplaceConserves
<1>15. CASE CallInsertEntry
  <2>1. PICK e \in LiveNodes \cap Elements, a \in Abnormal, K \in Maps :
            a \in K /\ Fresh(a) /\ Call(InsertEntry(tree, e, K, a))
    BY <1>15 DEF CallInsertEntry, Maps
  <2>2. a \in Node
    BY DEF Node
  <2>3. \/ Conserves(tree, InsertEntry(tree, e, K, a).tree)
        \/ Conserves(NewNode(tree, a), InsertEntry(tree, e, K, a).tree)
    BY <2>1, EntriesKeepTexts, SameConserves
  <2> QED
    BY <1>3, <1>4, <2>1, <2>2, <2>3
<1>16. CASE CallRemoveEntry \/ CallClear
  <2>1. PICK e \in LiveNodes \cap Elements, K \in Maps : \E name :
            Call(RemoveEntry(tree, e, K, name)) \/ Call(ClearMap(tree, e, K))
    BY <1>16 DEF CallRemoveEntry, CallClear, Maps
  <2>1a. PICK name : Call(RemoveEntry(tree, e, K, name)) \/ Call(ClearMap(tree, e, K))
    BY <2>1
  <2>2. /\ Conserves(tree, RemoveEntry(tree, e, K, name).tree)
        /\ Conserves(tree, ClearMap(tree, e, K).tree)
    BY <1>1, <2>1, <2>1a, EntriesConserve
  <2> QED
    BY <1>3, <2>1, <2>1a, <2>2
<1>17. CASE SetTextConsolidation
  <2>1. PICK b \in BOOLEAN : Call(Ok([tree EXCEPT !.consolidate = b]))
    BY <1>17 DEF SetTextConsolidation
  <2> DEFINE t == [tree EXCEPT !.consolidate = b]
  <2>2. t.value = tree.value /\ t.phase = tree.phase
    BY DEF Good, Tree
  <2>3. Call(Ok(t)) /\ Ok(t).tree = t
    BY <2>1 DEF Ok
  <2> HIDE DEF t
  <2>4. Conserves(tree, t)
    BY <2>2, SameConserves DEF SameTexts
  <2> QED
    BY <1>3, <2>3, <2>4
<1> QED
  BY <1>5, <1>6, <1>7, <1>8, <1>9, <1>10, <1>11, <1>12, <1>13, <1>14, <1>15, <1>16,
     <1>17 DEF Next

\* However calls are made, no piece is held twice and no text in use is blank.
LEMMA OnceInvariance == Spec => []Once(tree)
<1>1. Init => Once(tree)
  <2> SUFFICES ASSUME Init PROVE Once(tree)
    OBVIOUS
  <2>1. \A n \in Texts : tree.value[n] = <<>> /\ ~Live(tree, n)
    BY TextsAreNormal DEF Init, Live
  <2>2. DOMAIN <<>> = {}
    OBVIOUS
  <2> QED
    BY <2>1, <2>2 DEF Once, HeldOnce, FreshUnheld, HeldBy, Written
<1>2. Inv /\ Once(tree) /\ [Next]_vars => Once(tree')
  <2>1. CASE Next
    BY <2>1, NextKeepsOnce
  <2>2. CASE UNCHANGED vars
    BY <2>2 DEF vars
  <2> QED
    BY <2>1, <2>2
<1> DEFINE O == Once(tree)
<1>3. Init => O
  BY <1>1
<1>4. Inv /\ O /\ [Next]_vars => O'
  BY <1>2
<1>5. O => Once(tree)
  OBVIOUS
<1> HIDE DEF O
<1> QED
  BY <1>3, <1>4, <1>5, Invariance, PTL DEF Spec

\* After any calls with any nodes, with consolidation switched on and off at
\* will, no piece of text is held twice: a merge moves text and copies none.
THEOREM PiecesHeldOnce == Spec => []TextHeldOnce
<1>1. Once(tree) => TextHeldOnce
  BY DEF Once, HeldOnce, TextHeldOnce
<1> QED
  BY <1>1, OnceInvariance, PTL

-----------------------------------------------------------------------------
(* No text is lost. *)

HeldLive(t, x) ==
    \E m \in Texts : Live(t, m) /\ \E i \in DOMAIN t.value[m] : t.value[m][i] = x

\* What a live text holds in t, a live text holds in u.
Retains(t, u) == \A x : HeldLive(t, x) => HeldLive(u, x)

LEMMA RetainsTwice ==
    ASSUME NEW t, NEW u, NEW v, Retains(t, u), Retains(u, v)
    PROVE  Retains(t, v)
BY DEF Retains

LEMMA KeptRetains ==
    ASSUME NEW t, NEW u,
           \A m \in Texts : Live(t, m) => u.value[m] = t.value[m] /\ Live(u, m)
    PROVE  Retains(t, u)
BY DEF Retains, HeldLive

LEMMA SameRetains ==
    ASSUME NEW t, NEW u, SameTexts(t, u)
    PROVE  Retains(t, u)
BY KeptRetains, TextsAreNormal DEF SameTexts, Live

\* A new handle empties no live text.
LEMMA NewRetains ==
    ASSUME NEW t, Good(t), NEW n \in Node, t.phase[n] = "fresh"
    PROVE  Retains(t, NewNode(t, n))
<1>1. t \in Tree
  BY DEF Good
<1>2. \A m \in Texts : Live(t, m) => m # n /\ m \in Node
  BY TextsAreNormal DEF Live
<1>3. \A m \in Node : m # n => NewNode(t, n).value[m] = t.value[m]
                               /\ NewNode(t, n).phase[m] = t.phase[m]
  BY <1>1 DEF NewNode, Tree
<1> QED
  BY <1>2, <1>3, KeptRetains DEF Live

\* The pieces of f are in q.
Holds(q, f) == \A i \in DOMAIN f : \E k \in DOMAIN q : q[k] = f[i]

\* The joined text of two nodes holds what they held.
LEMMA JoinHolds ==
    ASSUME NEW S, NEW f \in Seq(S), NEW g \in Seq(S)
    PROVE  f \o g \in Seq(S) /\ Holds(f \o g, f) /\ Holds(f \o g, g)
<1> DEFINE w == f \o g
<1>1. /\ w \in Seq(S) /\ Len(w) = Len(f) + Len(g)
      /\ \A k \in 1 .. Len(f) : w[k] = f[k]
      /\ \A k \in 1 .. Len(g) : w[Len(f) + k] = g[k]
  BY Concat
<1> HIDE DEF w
<1>2. ASSUME NEW i \in DOMAIN f
      PROVE  \E k \in DOMAIN w : w[k] = f[i]
  <2>1. i \in DOMAIN w /\ w[i] = f[i]
    BY <1>1, <1>2
  <2> QED
    BY <2>1
<1>3. ASSUME NEW i \in DOMAIN g
      PROVE  \E k \in DOMAIN w : w[k] = g[i]
  <2>1. i \in 1 .. Len(g) /\ Len(g) \in Nat /\ Len(f) \in Nat
    BY <1>3
  <2>2. Len(f) + i \in 1 .. Len(w)
    BY <1>1, <2>1
  <2>3. Len(f) + i \in DOMAIN w /\ w[Len(f) + i] = g[i]
    BY <1>1, <2>1, <2>2
  <2> QED
    BY <2>3
<1> QED
  BY <1>1, <1>2, <1>3 DEF w, Holds

\* What a merge leaves in its two nodes.
LEMMA AbsorbValues ==
    ASSUME NEW t, Good(t), NEW a \in Texts, NEW m \in Texts, NEW s \in Seq(Node)
    PROVE  LET u == Absorb(t, a, s, m)
           IN /\ u.phase = [t.phase EXCEPT ![m] = "removed"]
              /\ u.value = [[t.value EXCEPT ![a] = s] EXCEPT ![m] = <<>>]
<1> DEFINE y == [t EXCEPT !.value[a] = s]
<1>1. a \in Node /\ m \in Node
  BY TextsAreNormal
<1>2. Good(y) /\ y.value = [t.value EXCEPT ![a] = s] /\ y.phase = t.phase
  BY <1>1, ValueGood DEF Good, Tree
<1>3. Absorb(t, a, s, m) = Free(y, m)
  BY DEF Absorb
<1> HIDE DEF y
<1>4. Free(y, m).value = [y.value EXCEPT ![m] = <<>>]
      /\ Free(y, m).phase = [y.phase EXCEPT ![m] = "removed"]
  BY <1>1, <1>2, FreeEmpties
<1> QED
  BY <1>2, <1>3, <1>4

LEMMA AbsorbRetains ==
    ASSUME NEW t, Good(t), NEW a \in Texts, NEW m \in Texts, a # m, Live(t, a),
           NEW s \in Seq(Node), Holds(s, t.value[a]), Holds(s, t.value[m])
    PROVE  Retains(t, Absorb(t, a, s, m))
<1> DEFINE u == Absorb(t, a, s, m)
<1>1. a \in Node /\ m \in Node /\ Texts \subseteq Node
      /\ t.value \in [Node -> Seq(Node)] /\ t.phase \in [Node -> Phases]
  BY TextsAreNormal DEF Good, Tree
<1>2. u.phase = [t.phase EXCEPT ![m] = "removed"]
      /\ u.value = [[t.value EXCEPT ![a] = s] EXCEPT ![m] = <<>>]
  BY AbsorbValues
<1> HIDE DEF u
<1>3. /\ Live(u, a) /\ u.value[a] = s
      /\ \A n \in Texts \ {a, m} : u.value[n] = t.value[n] /\ (Live(t, n) => Live(u, n))
  BY <1>1, <1>2 DEF Live
<1>4. ASSUME NEW x, HeldLive(t, x)
      PROVE  HeldLive(u, x)
  <2>1. PICK n \in Texts : Live(t, n) /\ \E i \in DOMAIN t.value[n] : t.value[n][i] = x
    BY <1>4 DEF HeldLive
  <2>2. CASE n \in {a, m}
    <3>1. \E k \in DOMAIN s : s[k] = x
      BY <2>1, <2>2 DEF Holds
    <3> QED
      BY <1>3, <3>1 DEF HeldLive
  <2>3. CASE n \notin {a, m}
    BY <1>3, <2>1, <2>3 DEF HeldLive
  <2> QED
    BY <2>2, <2>3
<1> QED
  BY <1>4 DEF Retains, u

LEMMA JoinRetains ==
    ASSUME NEW t, Good(t), NEW a \in Texts, NEW m \in Texts, a # m, Live(t, a)
    PROVE  /\ Retains(t, Absorb(t, a, t.value[a] \o t.value[m], m))
           /\ Retains(t, Absorb(t, a, t.value[m] \o t.value[a], m))
<1>1. t.value[a] \in Seq(Node) /\ t.value[m] \in Seq(Node)
  BY TextsAreNormal DEF Good, Tree
<1> DEFINE v == t.value[a] \o t.value[m]
           w == t.value[m] \o t.value[a]
<1>2. v \in Seq(Node) /\ Holds(v, t.value[a]) /\ Holds(v, t.value[m])
  BY <1>1, JoinHolds
<1>3. w \in Seq(Node) /\ Holds(w, t.value[a]) /\ Holds(w, t.value[m])
  BY <1>1, JoinHolds
<1> HIDE DEF v, w
<1>4. Retains(t, Absorb(t, a, v, m)) /\ Retains(t, Absorb(t, a, w, m))
  BY <1>2, <1>3, AbsorbRetains
<1> QED
  BY <1>4 DEF v, w

\* A merge into another, live text.
LEMMA MergesRetain ==
    ASSUME NEW t, Good(t), NEW n, NEW prev, NEW next
    PROVE  /\ (prev \in Texts => prev # next /\ Live(t, prev)) =>
                 Retains(t, RemoveConsolidate(t, prev, next).tree)
           /\ (\A x \in {prev, next} : n \in Texts /\ x \in Texts => x # n /\ Live(t, x)) =>
                 Retains(t, AddConsolidate(t, n, prev, next).tree)
<1>1. Retains(t, t)
  BY DEF Retains
<1>2. ASSUME prev \in Texts => prev # next /\ Live(t, prev)
      PROVE  Retains(t, RemoveConsolidate(t, prev, next).tree)
  BY <1>1, <1>2, JoinRetains DEF RemoveConsolidate
<1>3. ASSUME \A x \in {prev, next} : n \in Texts /\ x \in Texts => x # n /\ Live(t, x)
      PROVE  Retains(t, AddConsolidate(t, n, prev, next).tree)
  BY <1>1, <1>3, JoinRetains DEF AddConsolidate
<1> QED
  BY <1>2, <1>3

\* The siblings of a node are two other live nodes.
LEMMA SiblingsApart ==
    ASSUME NEW t, Good(t), NEW n \in Node
    PROVE  /\ \A x \in {PreviousSibling(t, n), NextSibling(t, n)} :
                 x # NoNode => x \in Node /\ x # n /\ Live(t, x)
           /\ PreviousSibling(t, n) # NoNode => PreviousSibling(t, n) # NextSibling(t, n)
<1> DEFINE prev == PreviousSibling(t, n)
           next == NextSibling(t, n)
           s == t.kids[t.parent[n]]
           i == Position(t, n)
<1>1. CASE t.parent[n] = NoNode
  BY <1>1 DEF PreviousSibling, NextSibling, Neighbour
<1>2. CASE t.parent[n] # NoNode
  <2>1. /\ t.parent[n] \in Node /\ s \in Seq(Node) /\ IsInjective(s)
        /\ i \in 1 .. Len(s) /\ s[i] = n
    BY <1>2, PositionListed, TextsAreNormal
  <2>2. \A k \in DOMAIN s : s[k] \in Node /\ Live(t, s[k])
    BY <2>1, ParentsHaveKids
  <2>3. /\ prev = IF i + (-1) \in DOMAIN s /\ SameCategory(s[i + (-1)], n) THEN s[i + (-1)] ELSE NoNode
        /\ next = IF i + 1 \in DOMAIN s /\ SameCategory(s[i + 1], n) THEN s[i + 1] ELSE NoNode
    BY <1>2 DEF PreviousSibling, NextSibling, Neighbour
  <2> HIDE DEF s, i, prev, next
  <2> DEFINE h == i + (-1)
             j == i + 1
  <2>4. i \in DOMAIN s /\ h # i /\ j # i /\ h # j
    BY <2>1
  <2>5. /\ prev # NoNode => h \in DOMAIN s /\ prev = s[h]
        /\ next # NoNode => j \in DOMAIN s /\ next = s[j]
    BY <2>3
  <2> HIDE DEF h, j
  <2>6. \A k, l \in DOMAIN s : k # l => s[k] # s[l]
    BY <2>1 DEF IsInjective
  <2>7. prev # NoNode => prev \in Node /\ prev # n /\ Live(t, prev)
    BY <2>1, <2>2, <2>4, <2>5, <2>6
  <2>8. next # NoNode => next \in Node /\ next # n /\ Live(t, next)
    BY <2>1, <2>2, <2>4, <2>5, <2>6
  <2>9. prev # NoNode => prev # next
    BY <2>4, <2>5, <2>6
  <2> QED
    BY <2>7, <2>8, <2>9 DEF prev, next
<1> QED
  BY <1>1, <1>2

\* The ends of a list of children are live children.
LEMMA EndsListed ==
    ASSUME NEW t, Good(t), NEW p \in Node
    PROVE  \A x \in {FirstChild(t, p), LastChild(t, p)} :
               x # NoNode => x \in Node /\ t.parent[x] = p /\ Live(t, x)
<1> DEFINE s == t.kids[p]
           h == Leading(s, Abnormal)
           c == Children(t, p)
<1>1. s \in Seq(Node)
  BY DEF Good, Tree
<1>2. h \in 0 .. Len(s)
  BY <1>1, LeadingPrefix
<1>3. \A k \in DOMAIN s : s[k] \in Node /\ t.parent[s[k]] = p /\ Live(t, s[k])
  BY <1>1, ParentsHaveKids
<1>4. /\ c = SubSeq(s, h + 1, Len(s))
      /\ FirstChild(t, p) = IF c = <<>> THEN NoNode ELSE Head(c)
      /\ LastChild(t, p) # NoNode => s # <<>> /\ LastChild(t, p) = Last(s)
  BY DEF Children, FirstChild, LastChild
<1> HIDE DEF s, h, c
<1>5. c # <<>> => h + 1 \in DOMAIN s /\ Head(c) = s[h + 1]
  BY <1>1, <1>2, <1>4
<1>6. s # <<>> => Len(s) \in DOMAIN s /\ Last(s) = s[Len(s)]
  BY <1>1 DEF Last
<1> QED
  BY <1>3, <1>4, <1>5, <1>6

\* Merging the neighbours of a node loses nothing, and does nothing when the
\* node is a text in a spaced tree.
LEMMA LeaveRetains ==
    ASSUME NEW t, Good(t), NEW n \in Node
    PROVE  LET u == LeaveNeighbours(t, n)
           IN /\ Good(u) /\ Retains(t, u)
              /\ \A v : SameTexts(u, v) => Retains(t, v)
              /\ \A v : Retains(u, v) => Retains(t, v)
              /\ n \in Texts /\ Spaced(t) => u = t
<1> DEFINE u == LeaveNeighbours(t, n)
           prev == PreviousSibling(t, n)
           next == NextSibling(t, n)
<1>1. Good(u)
  BY LeaveNeighboursKeeps DEF SameBut
<1>2. prev \in Texts => prev # next /\ Live(t, prev)
  BY SiblingsApart, TextsAreNormal
<1>3. u = RemoveConsolidate(t, prev, next).tree
  BY DEF LeaveNeighbours
<1>4. Retains(t, u)
  <2> HIDE DEF prev, next, u
  <2> QED
    BY <1>2, <1>3, MergesRetain
<1>5. n \in Texts /\ Spaced(t) => u = t
  <2> SUFFICES ASSUME n \in Texts, Spaced(t) PROVE u = t
    OBVIOUS
  <2>1. prev \notin Texts
    <3>1. prev # NoNode => Beside(t, prev, n)
      BY SiblingsBeside, TextsAreNormal
    <3> QED
      BY <3>1, TextsAreNormal DEF Spaced
  <2> QED
    BY <1>3, <2>1 DEF RemoveConsolidate
<1> HIDE DEF u
<1>6. \A v : SameTexts(u, v) => Retains(u, v)
  BY SameRetains
<1> QED
  BY <1>1, <1>4, <1>5, <1>6, RetainsTwice DEF u

\* append loses no text unless it appends a text behind itself.
LEMMA AppendRetains ==
    ASSUME NEW t, Good(t), NEW p \in Node, NEW n \in Node,
           n \in Texts => LastChild(LeaveNeighbours(t, n), p) # n
    PROVE  Retains(t, AppendNode(t, p, n).tree)
<1> DEFINE u == LeaveNeighbours(t, n)
           l == LastChild(u, p)
           a == AddConsolidate(u, n, l, NoNode)
<1>1. /\ Good(u) /\ \A v : SameTexts(u, v) \/ Retains(u, v) => Retains(t, v)
  BY LeaveRetains
<1>2. \/ AppendNode(t, p, n).tree = t \/ AppendNode(t, p, n).tree = a.tree
      \/ AppendNode(t, p, n) = CheckedAppend(u, p, n)
  BY DEF AppendNode, Ok, Err
<1>3. n \in Texts => l # n
  OBVIOUS
<1>4. l \in Texts => Live(u, l)
  BY <1>1, EndsListed, TextsAreNormal
<1> HIDE DEF u, l
<1>5. Retains(u, a.tree)
  <2>1. \A x \in {l, NoNode} : n \in Texts /\ x \in Texts => x # n /\ Live(u, x)
    BY <1>3, <1>4, TextsAreNormal
  <2> QED
    BY <1>1, <2>1, MergesRetain
<1> HIDE DEF a
<1>6. SameTexts(u, CheckedAppend(u, p, n).tree)
  BY <1>1, CheckedKeepTexts
<1>7. Retains(t, t)
  BY DEF Retains
<1> QED
  BY <1>1, <1>2, <1>5, <1>6, <1>7

LEMMA PrependRetains ==
    ASSUME NEW t, Good(t), NEW p \in Node, NEW n \in Node,
           n \in Texts => FirstChild(LeaveNeighbours(t, n), p) # n
    PROVE  Retains(t, PrependNode(t, p, n).tree)
<1> DEFINE u == LeaveNeighbours(t, n)
           l == FirstChild(u, p)
           a == AddConsolidate(u, n, NoNode, l)
           r == Last(AbnormalChildren(u, p))
<1>1. /\ Good(u) /\ \A v : SameTexts(u, v) \/ Retains(u, v) => Retains(t, v)
  BY LeaveRetains
<1>2. \/ PrependNode(t, p, n).tree = t \/ PrependNode(t, p, n).tree = a.tree
      \/ PrependNode(t, p, n) = CheckedPrepend(u, p, n)
      \/ AbnormalChildren(u, p) # <<>> /\ PrependNode(t, p, n) = InsertBeside(u, r, n, 0)
  BY DEF PrependNode, Ok, Err, CheckedInsertAfter
<1>3. n \in Texts => l # n
  OBVIOUS
<1>4. l \in Texts => Live(u, l)
  BY <1>1, EndsListed, TextsAreNormal
<1> HIDE DEF u, l
<1>5. Retains(u, a.tree)
  <2>1. \A x \in {NoNode, l} : n \in Texts /\ x \in Texts => x # n /\ Live(u, x)
    BY <1>3, <1>4, TextsAreNormal
  <2> QED
    BY <1>1, <2>1, MergesRetain
<1> HIDE DEF a
<1>6. SameTexts(u, CheckedPrepend(u, p, n).tree)
  BY <1>1, CheckedKeepTexts
<1>7. Retains(t, t)
  BY DEF Retains
<1>8. AbnormalChildren(u, p) # <<>> => r \in Node /\ u.parent[r] # NoNode
  BY <1>1, AbnormalChildrenListed, NoNodeIsNoNode
<1> HIDE DEF r
<1>9. AbnormalChildren(u, p) # <<>> => SameTexts(u, InsertBeside(u, r, n, 0).tree)
  BY <1>1, <1>8, CheckedKeepTexts
<1> QED
  BY <1>1, <1>2, <1>5, <1>6, <1>7, <1>9

\* insert_after and insert_before lose no text unless they put a text beside
\* itself.
LEMMA InsertRetains ==
    ASSUME NEW t, Good(t), NEW r \in Node, NEW n \in Node
    PROVE  LET u == LeaveNeighbours(t, n)
           IN /\ (n \in Texts => r # n /\ NextSibling(u, r) # n) =>
                    Retains(t, InsertAfter(t, r, n).tree)
              /\ (n \in Texts => r # n /\ PreviousSibling(u, r) # n) =>
                    Retains(t, InsertBefore(t, r, n).tree)
<1> DEFINE u == LeaveNeighbours(t, n)
           next == NextSibling(u, r)
           prev == PreviousSibling(u, r)
           a == AddConsolidate(u, n, r, next)
           b == AddConsolidate(u, n, prev, r)
<1>1. /\ Good(u) /\ \A v : SameTexts(u, v) \/ Retains(u, v) => Retains(t, v)
  BY LeaveRetains
<1>2. Retains(t, t) /\ Retains(t, u)
  BY LeaveRetains DEF Retains
<1>3. MayBeChild(t.parent[r], n) /\ Live(u, r) => u.parent[r] # NoNode
  BY KeepsParent, NoNodeIsNoNode, TextsAreNormal
<1>4. \/ InsertAfter(t, r, n).tree \in {t, u}
      \/ Live(u, r) /\ InsertAfter(t, r, n).tree = a.tree
      \/ /\ MayBeChild(t.parent[r], n) /\ Live(u, r)
         /\ InsertAfter(t, r, n) = InsertBeside(u, r, n, 0)
  BY DEF InsertAfter, Ok, Err, Panic, CheckedInsertAfter
<1>5. \/ InsertBefore(t, r, n).tree \in {t, u}
      \/ Live(u, r) /\ InsertBefore(t, r, n).tree = b.tree
      \/ /\ MayBeChild(t.parent[r], n) /\ Live(u, r)
         /\ InsertBefore(t, r, n) = InsertBeside(u, r, n, -1)
  BY DEF InsertBefore, Ok, Err, Panic, CheckedInsertBefore
<1>6. \A x \in {prev, next} : x \in Texts => Live(u, x)
  BY <1>1, SiblingsApart, TextsAreNormal
<1> HIDE DEF u, prev, next
<1>7. ASSUME n \in Texts => r # n /\ next # n, Live(u, r)
      PROVE  Retains(u, a.tree)
  <2>1. \A x \in {r, next} : n \in Texts /\ x \in Texts => x # n /\ Live(u, x)
    BY <1>6, <1>7
  <2> QED
    BY <1>1, <2>1, MergesRetain
<1>8. ASSUME n \in Texts => r # n /\ prev # n, Live(u, r)
      PROVE  Retains(u, b.tree)
  <2>1. \A x \in {prev, r} : n \in Texts /\ x \in Texts => x # n /\ Live(u, x)
    BY <1>6, <1>8
  <2> QED
    BY <1>1, <2>1, MergesRetain
<1> HIDE DEF a, b
<1>9. MayBeChild(t.parent[r], n) /\ Live(u, r) =>
        /\ SameTexts(u, InsertBeside(u, r, n, 0).tree)
        /\ SameTexts(u, InsertBeside(u, r, n, -1).tree)
  BY <1>1, <1>3, CheckedKeepTexts
<1>10. (n \in Texts => r # n /\ next # n) => Retains(t, InsertAfter(t, r, n).tree)
  BY <1>1, <1>2, <1>4, <1>7, <1>9
<1>11. (n \in Texts => r # n /\ prev # n) => Retains(t, InsertBefore(t, r, n).tree)
  BY <1>1, <1>2, <1>5, <1>8, <1>9
<1> QED
  BY <1>10, <1>11 DEF u, prev, next

\* In a spaced tree the moves of a careful caller lose no text.
LEMMA CarefulMovesRetain ==
    ASSUME NEW t, Good(t), Spaced(t), NEW p \in Node, NEW n \in Node
    PROVE  /\ CarefulUnder(t, LastChild(t, p), n) => Retains(t, AppendNode(t, p, n).tree)
           /\ CarefulUnder(t, FirstChild(t, p), n) => Retains(t, PrependNode(t, p, n).tree)
           /\ CarefulBeside(t, p, n) => /\ Retains(t, InsertAfter(t, p, n).tree)
                                        /\ Retains(t, InsertBefore(t, p, n).tree)
<1>1. n \in Texts => LeaveNeighbours(t, n) = t
  BY LeaveRetains
<1>2. CarefulUnder(t, LastChild(t, p), n) => Retains(t, AppendNode(t, p, n).tree)
  BY <1>1, AppendRetains DEF CarefulUnder
<1>3. CarefulUnder(t, FirstChild(t, p), n) => Retains(t, PrependNode(t, p, n).tree)
  BY <1>1, PrependRetains DEF CarefulUnder
<1>4. ASSUME CarefulBeside(t, p, n)
      PROVE  /\ Retains(t, InsertAfter(t, p, n).tree)
             /\ Retains(t, InsertBefore(t, p, n).tree)
  <2>1. p \in Normal /\ p # n
        /\ (p \in {PreviousSibling(t, n), NextSibling(t, n)} => n \notin Texts)
    BY <1>4 DEF CarefulBeside
  <2>2. ASSUME n \in Texts, NextSibling(t, p) = n
        PROVE  FALSE
    <3>1. Beside(t, p, n)
      BY <2>1, <2>2, SiblingsBeside, TextsAreNormal
    <3> QED
      BY <2>1, <2>2, <3>1, BesideSiblings, TextsAreNormal
  <2>3. ASSUME n \in Texts, PreviousSibling(t, p) = n
        PROVE  FALSE
    <3>1. Beside(t, n, p)
      BY <2>1, <2>3, SiblingsBeside, TextsAreNormal
    <3> QED
      BY <2>1, <2>3, <3>1, BesideSiblings, TextsAreNormal
  <2>4. (n \in Texts => p # n /\ NextSibling(LeaveNeighbours(t, n), p) # n)
    BY <1>1, <2>1, <2>2
  <2>5. (n \in Texts => p # n /\ PreviousSibling(LeaveNeighbours(t, n), p) # n)
    BY <1>1, <2>1, <2>3
  <2> QED
    BY <2>4, <2>5, InsertRetains
<1> QED
  BY <1>2, <1>3, <1>4

\* What is not a text, or has no parent, is moved without loss in any tree.
LEMMA OtherMovesRetain ==
    ASSUME NEW t, Good(t), NEW p \in Node, NEW n \in Node
    PROVE  /\ n \notin Texts => /\ Retains(t, AppendNode(t, p, n).tree)
                                /\ Retains(t, PrependNode(t, p, n).tree)
                                /\ Retains(t, InsertAfter(t, p, n).tree)
           /\ t.parent[n] = NoNode => Retains(t, AppendNode(t, p, n).tree)
<1>1. ASSUME t.parent[n] = NoNode
      PROVE  Retains(t, AppendNode(t, p, n).tree)
  <2>1. LeaveNeighbours(t, n) = t
    BY <1>1, LooseLeaves
  <2>2. LastChild(t, p) # n
    BY <1>1, EndsListed, NoNodeIsNoNode
  <2> QED
    BY <2>1, <2>2, AppendRetains
<1> QED
  BY <1>1, AppendRetains, PrependRetains, InsertRetains

LEMMA DetachRetains ==
    ASSUME NEW t, Good(t), NEW n \in Node
    PROVE  Retains(t, DetachNode(t, n).tree)
<1> DEFINE prev == PreviousSibling(t, n)
           next == NextSibling(t, n)
           u == Unlink(t, n)
<1>1. DetachNode(t, n).tree = RemoveConsolidate(u, prev, next).tree
  BY DEF DetachNode, Ok
<1>2. Good(u) /\ SameTexts(t, u)
  BY UnlinkGood, LinksKeepTexts
<1>3. prev \in Texts => prev # next /\ Live(t, prev)
  BY SiblingsApart, TextsAreNormal
<1> HIDE DEF u, prev, next
<1>4. prev \in Texts => Live(u, prev)
  BY <1>2, <1>3, TextsAreNormal DEF SameTexts, Live
<1>5. Retains(u, RemoveConsolidate(u, prev, next).tree)
  BY <1>2, <1>3, <1>4, MergesRetain
<1> QED
  BY <1>1, <1>2, <1>5, SameRetains, RetainsTwice

\* Freeing what is no text.
LEMMA FreeingRetains ==
    ASSUME NEW t, Good(t), NEW n \in Node
    PROVE  /\ Subtree(t, n) \cap Texts = {} => Retains(t, RemoveSubtree(t, n))
           /\ n \notin Texts => Retains(t, Dissolve(t, n).tree)
           /\ n \notin Texts => \A m \in Texts : Live(t, m) => Live(Dissolve(t, n).tree, m)
           /\ \A i, j : (\A k \in i + 1 .. j : t.kids[n][k] \notin Texts) =>
                 /\ Retains(t, FreeRun(t, n, i, j))
                 /\ \A m \in Texts : Live(t, m) => Live(FreeRun(t, n, i, j), m)
<1>1. t \in Tree
  BY DEF Good
<1>2. ASSUME Subtree(t, n) \cap Texts = {}
      PROVE  Retains(t, RemoveSubtree(t, n))
  <2> DEFINE u == Unlink(t, n)
             w == RemoveSubtree(t, n)
  <2>1. u \in Tree /\ u.value = t.value /\ u.phase = t.phase
    BY FreeEmpties, UnlinkGood DEF Good
  <2> HIDE DEF u
  <2>2. LET G == Subtree(t, n)
            v == [u EXCEPT
              !.parent = [m \in Node |-> IF m \in G THEN NoNode ELSE @[m]],
              !.kids   = [m \in Node |-> IF m \in G THEN <<>> ELSE @[m]],
              !.value  = [m \in Node |-> IF m \in G THEN <<>> ELSE @[m]],
              !.phase  = [m \in Node |-> IF m \in G THEN "removed" ELSE @[m]]]
        IN \A m \in Node : m \notin G => v.value[m] = u.value[m] /\ v.phase[m] = u.phase[m]
    BY <2>1 DEF Tree
  <2>3. \A m \in Node : m \notin Subtree(t, n) => w.value[m] = t.value[m] /\ w.phase[m] = t.phase[m]
    BY <2>1, <2>2 DEF RemoveSubtree, u
  <2> HIDE DEF w
  <2>4. \A m \in Texts : w.value[m] = t.value[m] /\ w.phase[m] = t.phase[m]
    BY <1>2, <2>3, TextsAreNormal
  <2> QED
    BY <2>4, KeptRetains DEF w, Live
<1>3. ASSUME n \notin Texts
      PROVE  /\ Retains(t, Dissolve(t, n).tree)
             /\ \A m \in Texts : Live(t, m) => Live(Dissolve(t, n).tree, m)
  <2> DEFINE w == Dissolve(t, n).tree
  <2>1. \A m \in Node : m # n => w.value[m] = t.value[m] /\ w.phase[m] = t.phase[m]
    BY <1>1 DEF Dissolve, Ok, Undefined, Tree
  <2> HIDE DEF w
  <2>2. \A m \in Texts : w.value[m] = t.value[m] /\ w.phase[m] = t.phase[m]
    BY <1>3, <2>1, TextsAreNormal
  <2> QED
    BY <2>2, KeptRetains DEF w, Live
<1>4. ASSUME NEW i, NEW j, \A k \in i + 1 .. j : t.kids[n][k] \notin Texts
      PROVE  /\ Retains(t, FreeRun(t, n, i, j))
             /\ \A m \in Texts : Live(t, m) => Live(FreeRun(t, n, i, j), m)
  <2> DEFINE w == FreeRun(t, n, i, j)
             G == {t.kids[n][k] : k \in i + 1 .. j}
  <2>1. \A m \in Node : m \notin G => w.value[m] = t.value[m] /\ w.phase[m] = t.phase[m]
    BY <1>1 DEF FreeRun, Tree
  <2>2. G \cap Texts = {}
    BY <1>4
  <2> HIDE DEF w, G
  <2>3. \A m \in Texts : w.value[m] = t.value[m] /\ w.phase[m] = t.phase[m]
    BY <2>1, <2>2, TextsAreNormal
  <2> QED
    BY <2>3, KeptRetains DEF w, Live
<1> QED
  BY <1>2, <1>3, <1>4

\* Below an element without normal children there are only its attributes and
\* namespaces.
LEMMA BareSubtree ==
    ASSUME NEW t, Good(t), NEW n \in Elements, FirstChild(t, n) = NoNode
    PROVE  /\ Subtree(t, n) \cap Texts = {}
           /\ Subtree(t, n) \cap Container \subseteq {n}
           /\ Range(t.kids[n]) \subseteq Abnormal
<1> DEFINE s == t.kids[n]
           h == Leading(s, Abnormal)
           c == Children(t, n)
           G == Subtree(t, n)
           S == {m \in Container : m \in G /\ m # n}
<1>1. n \in Node /\ n \in Container /\ n \notin Texts /\ Container \cap Abnormal = {}
      /\ Abnormal \subseteq Node
  BY KindsAreDisjoint, TextsAreNormal DEF Container, Node
<1>2. \A m \in Node : t.parent[m] = n => m \in Abnormal
  <2>1. s \in Seq(Node)
    BY <1>1 DEF Good, Tree
  <2>2. h \in 0 .. Len(s) /\ \A k \in 1 .. h : s[k] \in Abnormal
    BY <2>1, LeadingPrefix
  <2>3. c = SubSeq(s, h + 1, Len(s)) /\ FirstChild(t, n) = IF c = <<>> THEN NoNode ELSE Head(c)
    BY DEF Children, FirstChild
  <2>4. ASSUME h < Len(s)
        PROVE  FALSE
    <3> HIDE DEF s, h
    <3>1. c = SubSeq(s, h + 1, Len(s)) /\ h \in Nat /\ Len(s) \in Nat
      BY <2>1, <2>2, <2>3
    <3>2. c \in Seq(Node) /\ Len(c) # 0
      BY <2>1, <2>4, <3>1
    <3> HIDE DEF c
    <3>3. c # <<>> /\ Head(c) \in Node
      BY <3>2
    <3> QED
      BY <2>3, <3>3, NoNodeIsNoNode
  <2>5. \A k \in DOMAIN s : s[k] \in Abnormal
    <3> HIDE DEF s, h
    <3> QED
      BY <2>1, <2>2, <2>4
  <2>6. \A m \in Node : t.parent[m] = n => m \in Range(s)
    BY <1>1 DEF Good, Forest, KidsAgree
  <2> HIDE DEF s
  <2> QED
    BY <2>5, <2>6 DEF Range
<1>3. \A m \in G : m \in Node /\ (m # n => t.parent[m] \in G /\ t.parent[m] \in Container)
  <2> SUFFICES ASSUME NEW m \in G
               PROVE  m \in Node /\ (m # n => t.parent[m] \in G /\ t.parent[m] \in Container)
    OBVIOUS
  <2>1. m \in Node
    BY DEF Subtree
  <2>2. m # n => t.parent[m] \in G
    BY <1>1, SubtreeHasParents
  <2>3. m # n => t.parent[m] # NoNode
    BY <2>2, NoNodeIsNoNode DEF Subtree
  <2> QED
    BY <2>1, <2>2, <2>3 DEF Good, Forest, ParentsAreContainers
<1>4. S = {}
  <2> SUFFICES ASSUME S # {} PROVE FALSE
    OBVIOUS
  <2>1. S \in SUBSET Container
    OBVIOUS
  <2>2. PICK m \in S : t.parent[m] \notin S
    BY <2>1 DEF Good, Forest, Acyclic
  <2> HIDE DEF G
  <2>3. t.parent[m] = n
    BY <1>3, <2>2
  <2> QED
    BY <1>1, <1>2, <1>3, <2>2, <2>3
<1> HIDE DEF G
<1>5. ASSUME NEW m \in G, m \in Texts
      PROVE  FALSE
  <2>1. m # n /\ m \in Node
    BY <1>1, <1>3, <1>5
  <2>2. t.parent[m] = n
    BY <1>3, <1>4, <2>1
  <2> QED
    BY <1>2, <1>5, <2>1, <2>2, TextsAreNormal
<1>6. Range(s) \subseteq Abnormal
  <2>1. s \in Seq(Node)
    BY <1>1 DEF Good, Tree
  <2>2. \A m \in Range(s) : m \in Node
    <3> HIDE DEF s
    <3> QED
      BY <2>1 DEF Range
  <2>3. \A m \in Node : m \in Range(s) => t.parent[m] = n
    BY <1>1 DEF Good, Forest, KidsAgree
  <2> HIDE DEF s
  <2> QED
    BY <1>2, <2>2, <2>3
<1>7. G \cap Container \subseteq {n}
  BY <1>4
<1> QED
  BY <1>5, <1>6, <1>7 DEF G

\* element_unwrap loses no text: the two merges absorb different nodes.
LEMMA UnwrapRetains ==
    ASSUME NEW t, Good(t), NEW n \in Node
    PROVE  Retains(t, ElementUnwrap(t, n).tree)
<1> DEFINE first == FirstChild(t, n)
           last  == LastChild(t, n)
           r     == RemoveElement(t, n)
           d     == r.tree
           prev  == PreviousSibling(d, first)
           next  == NextSibling(d, last)
           a     == RemoveConsolidate(d, prev, first)
           b     == RemoveConsolidate(a.tree, prev, next)
           far   == NextSibling(a.tree, last)
           c     == RemoveConsolidate(a.tree, last, far)
<1>1. \/ ElementUnwrap(t, n).tree = t
      \/ /\ n \in Elements /\ first = NoNode
         /\ ElementUnwrap(t, n) = RemoveNode(t, n)
      \/ /\ n \in Elements /\ first # NoNode /\ last # NoNode
         /\ \/ ElementUnwrap(t, n).tree = d
            \/ a.merged /\ first = last /\ ElementUnwrap(t, n).tree = b.tree
            \/ ~(a.merged /\ first = last) /\ ElementUnwrap(t, n).tree = c.tree
  BY DEF ElementUnwrap, Ok, Err, Panic
<1>2. ASSUME n \in Elements, first = NoNode
      PROVE  Retains(t, RemoveNode(t, n).tree)
  <2> DEFINE u == RemoveSubtree(t, n)
             x == PreviousSibling(t, n)
             y == NextSibling(t, n)
  <2>1. Good(u) /\ Retains(t, u)
    BY <1>2, BareSubtree, FreeingRetains, RemoveSubtreeGood
  <2>2. x \in Texts => x # y /\ Live(t, x)
    BY SiblingsApart, TextsAreNormal
  <2>3. x \in Texts => Live(u, x)
    <3>1. \A m \in Node : u.phase[m] = IF m \in Subtree(t, n) THEN "removed" ELSE t.phase[m]
      BY RemoveSubtreeGood
    <3> HIDE DEF u
    <3> QED
      BY <1>2, <2>2, <3>1, BareSubtree, TextsAreNormal DEF Live
  <2>4. RemoveNode(t, n).tree = RemoveConsolidate(u, x, y).tree
    BY DEF RemoveNode, Ok
  <2> HIDE DEF u, x, y
  <2> QED
    BY <2>1, <2>2, <2>3, <2>4, MergesRetain, RetainsTwice
<1>3. ASSUME n \in Elements
      PROVE  /\ Good(d) /\ Retains(t, d)
             /\ \A m \in Texts : Live(t, m) => Live(d, m)
  <2> DEFINE h == Leading(t.kids[n], Abnormal)
             f == FreeRun(t, n, 0, h)
  <2>1. Good(d)
    BY <1>3, RemoveElementSound DEF Sound
  <2>2. t.kids[n] \in Seq(Node) /\ Abnormal \cap (Container \cup Texts) = {}
    BY KindsAreDisjoint DEF Good, Tree, Container
  <2>3. h \in 0 .. Len(t.kids[n]) /\ \A k \in 1 .. h : t.kids[n][k] \in Abnormal
    BY <2>2, LeadingPrefix
  <2>4. Good(f) /\ Retains(t, f) /\ \A m \in Texts : Live(t, m) => Live(f, m)
    <3> DEFINE z == 0
    <3>1. z \in 0 .. Len(t.kids[n]) /\ h \in z .. Len(t.kids[n])
          /\ \A k \in z + 1 .. h : t.kids[n][k] \notin Container /\ t.kids[n][k] \notin Texts
      BY <2>2, <2>3
    <3> HIDE DEF z, h
    <3>2. Good(FreeRun(t, n, z, h))
      BY <3>1, FreeRunGood
    <3>3. /\ Retains(t, FreeRun(t, n, z, h))
          /\ \A m \in Texts : Live(t, m) => Live(FreeRun(t, n, z, h), m)
      BY <3>1, FreeingRetains
    <3> QED
      BY <3>2, <3>3 DEF z
  <2>5. d = Dissolve(f, n).tree
    BY DEF RemoveElement
  <2>6. n \notin Texts
    BY <1>3, KindsAreDisjoint
  <2> HIDE DEF f, d
  <2>7. Retains(f, Dissolve(f, n).tree)
        /\ \A m \in Texts : Live(f, m) => Live(Dissolve(f, n).tree, m)
    BY <2>4, <2>6, FreeingRetains
  <2> QED
    BY <2>1, <2>4, <2>5, <2>7, RetainsTwice
<1>4. (first # NoNode => first \in Node) /\ (last # NoNode => last \in Node /\ Live(t, last))
  BY EndsListed
<1> HIDE DEF d, first, last
<1>5. ASSUME n \in Elements, first # NoNode
      PROVE  /\ Good(a.tree) /\ Retains(t, a.tree)
             /\ prev # NoNode => prev # first /\ prev \in Node /\ Live(d, prev) /\ Live(a.tree, prev)
  <2>1. Good(d) /\ first \in Node /\ Retains(t, d)
    BY <1>3, <1>4, <1>5
  <2>2. prev # NoNode => prev # first /\ prev \in Node /\ Live(d, prev)
    BY <2>1, SiblingsApart
  <2>3. SameBut(d, a.tree, first)
    BY <2>1, RemoveConsolidateFrees
  <2> HIDE DEF prev
  <2>4. Retains(d, a.tree)
    BY <2>1, <2>2, MergesRetain, TextsAreNormal
  <2> HIDE DEF a
  <2>5. prev # NoNode => Live(a.tree, prev)
    BY <2>2, <2>3 DEF SameBut, Live
  <2> QED
    BY <2>1, <2>2, <2>3, <2>4, <2>5, RetainsTwice DEF SameBut
<1>6. ASSUME n \in Elements, first # NoNode, first = last
      PROVE  Retains(t, b.tree)
  <2>1. prev # NoNode => prev # next
    BY <1>3, <1>4, <1>6, SiblingsApart
  <2>2. Good(a.tree) /\ Retains(t, a.tree) /\ (prev \in Texts => prev # next /\ Live(a.tree, prev))
    BY <1>5, <1>6, <2>1, TextsAreNormal
  <2> HIDE DEF a, prev, next
  <2> QED
    BY <2>2, MergesRetain, RetainsTwice
<1>7. ASSUME n \in Elements, first # NoNode, last # NoNode, ~(a.merged /\ first = last)
      PROVE  Retains(t, c.tree)
  <2>1. Good(a.tree) /\ Retains(t, a.tree) /\ last \in Node
    BY <1>4, <1>5, <1>7
  <2>2. last \in Texts => Live(d, last)
    BY <1>3, <1>4, <1>7
  <2>3. ~a.merged => a.tree = d
    BY DEF RemoveConsolidate
  <2>4. SameBut(d, a.tree, first)
    BY <1>3, <1>7, RemoveConsolidateFrees
  <2> HIDE DEF a
  <2>5. last \in Texts => Live(a.tree, last)
    BY <1>7, <2>1, <2>2, <2>3, <2>4 DEF SameBut, Live
  <2>6. last # far
    BY <2>1, SiblingsApart, NoNodeIsNoNode
  <2> HIDE DEF far
  <2> QED
    BY <2>1, <2>5, <2>6, MergesRetain, RetainsTwice
<1>8. Retains(t, t)
  BY DEF Retains
<1> HIDE DEF a, b, c, prev, next, far
<1> QED
  BY <1>1, <1>2, <1>3, <1>6, <1>7, <1>8 DEF first

\* element_wrap loses no text: what is moved is n, which has no siblings by
\* then, and the new element.
LEMMA WrapRetains ==
    ASSUME NEW t, Good(t), NEW n \in Node, Live(t, n),
           NEW w \in Elements, t.phase[w] = "fresh"
    PROVE  Retains(t, ElementWrap(t, n, w).tree)
<1> DEFINE p    == t.parent[n]
           prev == PreviousSibling(t, n)
           v    == NewNode(t, w)
           u    == Unlink(v, n)
           a    == AppendNode(u, w, n)
           z    == a.tree
<1>1. w \in Node /\ w # n /\ w \notin Texts
  BY KindsAreDisjoint DEF Live, Node, Normal
<1>2. Good(v) /\ Retains(t, v)
  BY <1>1, NewNodeGood, NewRetains
<1>3. v.phase = [t.phase EXCEPT ![w] = "live"] /\ t.phase \in [Node -> Phases]
  BY <1>1, NewNodeGood DEF Good, Tree
<1>4. \/ ElementWrap(t, n, w).tree \in {t, z}
      \/ prev # NoNode /\ ElementWrap(t, n, w) = InsertAfter(z, prev, w)
      \/ p # NoNode /\ ElementWrap(t, n, w) = PrependNode(z, p, w)
  BY DEF ElementWrap, Err
<1>5. prev \in Node \cup {NoNode} /\ p \in Node \cup {NoNode}
  BY NeighbourIsOther DEF PreviousSibling, Good, Tree
<1> HIDE DEF v, prev, p
<1>6. /\ Good(u) /\ Retains(v, u) /\ u.phase = v.phase
      /\ u.parent = [v.parent EXCEPT ![n] = NoNode] /\ v.parent \in [Node -> Node \cup {NoNode}]
  BY <1>2, UnlinkGood, LinksKeepTexts, SameRetains DEF Good, Tree
<1> HIDE DEF u
<1>7. Live(u, w) /\ Live(u, n) /\ u.parent[n] = NoNode
  BY <1>1, <1>3, <1>6 DEF Live
<1>8. Good(z) /\ Retains(u, z)
  BY <1>1, <1>6, <1>7, AppendNodeMoves, OtherMovesRetain DEF Moved
<1> HIDE DEF z
<1>9. Retains(t, z) /\ Retains(t, t)
  BY <1>2, <1>6, <1>8, RetainsTwice DEF Retains
<1>10. \A r \in Node : Retains(z, InsertAfter(z, r, w).tree) /\ Retains(z, PrependNode(z, r, w).tree)
  BY <1>1, <1>8, OtherMovesRetain
<1> QED
  BY <1>4, <1>5, <1>9, <1>10, RetainsTwice

LEMMA EntriesRetain ==
    ASSUME NEW t, Good(t), NEW e \in Elements, NEW K \in Maps
    PROVE  /\ \A n \in K, p \in Node : Retains(t, AppendEntryNode(t, p, K, n).tree)
           /\ \A a \in K : t.phase[a] = "fresh" => Retains(t, InsertEntry(t, e, K, a).tree)
           /\ Retains(t, ClearMap(t, e, K).tree)
<1>1. Retains(t, t) /\ e \in Node /\ K \cap Texts = {} /\ K \subseteq Node
  BY KindsAreDisjoint DEF Retains, Maps, Node, Normal, Abnormal
<1>2. ASSUME NEW n \in K, NEW p \in Node
      PROVE  Retains(t, AppendEntryNode(t, p, K, n).tree)
  BY <1>1, EntriesKeepTexts, SameRetains DEF AppendEntryNode, Err
<1>3. ASSUME NEW a \in K, t.phase[a] = "fresh"
      PROVE  Retains(t, InsertEntry(t, e, K, a).tree)
  <2>1. Retains(t, NewNode(t, a))
    BY <1>1, <1>3, NewRetains
  <2>2. \/ SameTexts(t, InsertEntry(t, e, K, a).tree)
        \/ SameTexts(NewNode(t, a), InsertEntry(t, e, K, a).tree)
    BY EntriesKeepTexts
  <2> QED
    BY <2>1, <2>2, SameRetains, RetainsTwice
<1>4. Retains(t, ClearMap(t, e, K).tree)
  <2> DEFINE i == MapStart(t, e, K)
             j == MapEnd(t, e, K)
  <2>1. \A k \in i + 1 .. j : t.kids[e][k] \in K
    BY <1>1, MapIsRun
  <2>2. ClearMap(t, e, K).tree = FreeRun(t, e, i, j)
    BY DEF ClearMap, Ok
  <2> HIDE DEF i, j
  <2> QED
    BY <1>1, <2>1, <2>2, FreeingRetains
<1> QED
  BY <1>2, <1>3, <1>4

\* append of whatever node.
LEMMA AnyAppendRetains ==
    ASSUME NEW t, Good(t), NEW p \in Node, NEW n \in Node,
           n \notin Abnormal => Retains(t, AppendNode(t, p, n).tree)
    PROVE  Retains(t, AnyAppend(t, p, n).tree)
<1>1. ASSUME NEW K \in Maps, n \in K
      PROVE  Retains(t, AppendEntryNode(t, p, K, n).tree)
  <2>1. CASE p \in Elements
    BY <1>1, <2>1, EntriesRetain
  <2>2. CASE p \notin Elements
    BY <2>2 DEF AppendEntryNode, Err, Retains
  <2> QED
    BY <2>1, <2>2
<1> QED
  BY <1>1 DEF AnyAppend, Maps, Abnormal

\* Whatever call a careful caller makes but remove and replace, every piece of
\* text that a live node held is still held by a live node.
LEMMA NextRetains ==
    ASSUME ~AnyCall, ~MaySwitch, Inv, Spaced(tree), Next
    PROVE  Retains(tree, tree') \/ CallRemove \/ CallReplace
<1> USE DEF Inv
<1>1. LiveNodes \subseteq Node /\ \A n \in LiveNodes : Live(tree, n)
  BY DEF LiveNodes
<1>2. ASSUME NEW o, Call(o), Retains(tree, o.tree)
      PROVE  Retains(tree, tree')
  BY <1>2 DEF Call
<1>3. ASSUME NEW n \in Node, Fresh(n)
      PROVE  /\ Good(NewNode(tree, n)) /\ Retains(tree, NewNode(tree, n))
             /\ NewNode(tree, n).parent[n] = NoNode
  <2>1. Good(NewNode(tree, n)) /\ NewNode(tree, n).parent = tree.parent
    BY <1>3, NewNodeGood
  <2>2. tree.parent[n] = NoNode
    BY <1>3 DEF Fresh, Good, Forest, ParentsAreContainers, Live
  <2> QED
    BY <1>3, <2>1, <2>2, NewRetains DEF Fresh
<1>4. CASE New
  <2>1. PICK n \in Node : Fresh(n) /\ Call(Ok(NewNode(tree, n)))
    BY <1>4 DEF New
  <2> QED
    BY <1>2, <1>3, <2>1 DEF Ok
<1>5. CASE AppendNew
  <2>1. PICK p \in LiveNodes, n \in Node :
            Fresh(n) /\ Call(AnyAppend(NewNode(tree, n), p, n))
    BY <1>5 DEF AppendNew
  <2> DEFINE t == NewNode(tree, n)
  <2>2. Good(t) /\ Retains(tree, t) /\ t.parent[n] = NoNode /\ p \in Node
    BY <1>1, <1>3, <2>1
  <2>3. Call(AnyAppend(t, p, n))
    BY <2>1
  <2> HIDE DEF t
  <2>4. Retains(t, AnyAppend(t, p, n).tree)
    BY <2>2, OtherMovesRetain, AnyAppendRetains
  <2> QED
    BY <1>2, <2>2, <2>3, <2>4, RetainsTwice
<1>6. CASE NewDocumentWithElement
  <2>1. PICK d \in Documents, e \in LiveNodes :
            /\ Fresh(d)
            /\ \/ e \in Elements /\ Call(AppendNode(NewNode(tree, d), d, e))
               \/ Call(Err(tree))
    BY <1>6 DEF NewDocumentWithElement
  <2> DEFINE t == NewNode(tree, d)
  <2>2. d \in Node /\ Elements \cap Texts = {}
    BY KindsAreDisjoint DEF Node, Normal
  <2>3. Good(t) /\ Retains(tree, t)
    BY <1>3, <2>1, <2>2
  <2>4. (e \in Elements /\ Call(AppendNode(t, d, e))) \/ Call(Err(tree))
    BY <2>1
  <2>5. Retains(tree, Err(tree).tree)
    BY DEF Err, Retains
  <2> HIDE DEF t
  <2>6. e \in Elements => Retains(t, AppendNode(t, d, e).tree)
    BY <1>1, <2>2, <2>3, OtherMovesRetain
  <2> QED
    BY <1>2, <2>3, <2>4, <2>5, <2>6, RetainsTwice
<1>7. CASE CallAppend
  <2>1. PICK p \in LiveNodes, n \in LiveNodes :
            CarefulUnder(tree, LastChild(tree, p), n) /\ Call(AnyAppend(tree, p, n))
    BY <1>7 DEF CallAppend
  <2>2. Retains(tree, AppendNode(tree, p, n).tree)
    BY <1>1, <2>1, CarefulMovesRetain
  <2> QED
    BY <1>1, <1>2, <2>1, <2>2, AnyAppendRetains
<1>8. CASE CallPrepend
  <2>1. PICK p \in LiveNodes, n \in LiveNodes :
            CarefulUnder(tree, FirstChild(tree, p), n) /\ Call(PrependNode(tree, p, n))
    BY <1>8 DEF CallPrepend
  <2>2. Retains(tree, PrependNode(tree, p, n).tree)
    BY <1>1, <2>1, CarefulMovesRetain
  <2> QED
    BY <1>2, <2>1, <2>2
<1>9. CASE CallInsertAfter \/ CallInsertBefore
  <2>1. PICK r \in LiveNodes, n \in LiveNodes :
            /\ CarefulBeside(tree, r, n)
            /\ Call(InsertAfter(tree, r, n)) \/ Call(InsertBefore(tree, r, n))
    BY <1>9 DEF CallInsertAfter, CallInsertBefore
  <2>2. /\ Retains(tree, InsertAfter(tree, r, n).tree)
        /\ Retains(tree, InsertBefore(tree, r, n).tree)
    BY <1>1, <2>1, CarefulMovesRetain
  <2> QED
    BY <1>2, <2>1, <2>2
<1>10. CASE CallDetach
  <2>1. PICK n \in LiveNodes : Call(DetachNode(tree, n))
    BY <1>10 DEF CallDetach
  <2> QED
    BY <1>1, <1>2, <2>1, DetachRetains
<1>11. CASE CallElementUnwrap
  <2>1. PICK n \in LiveNodes : Call(ElementUnwrap(tree, n))
    BY <1>11 DEF CallElementUnwrap
  <2> QED
    BY <1>1, <1>2, <2>1, UnwrapRetains
<1>12. CASE CallElementWrap
  <2>1. PICK n \in LiveNodes, w \in Elements : Fresh(w) /\ Call(ElementWrap(tree, n, w))
    BY <1>12 DEF CallElementWrap
  <2>2. Retains(tree, ElementWrap(tree, n, w).tree)
    BY <1>1, <2>1, WrapRetains DEF Fresh
  <2> QED
    BY <1>2, <2>1, <2>2
<1>13. CASE CallInsertEntry
  <2>1. PICK e \in LiveNodes \cap Elements, a \in Abnormal, K \in Maps :
            a \in K /\ Fresh(a) /\ Call(InsertEntry(tree, e, K, a))
    BY <1>13 DEF CallInsertEntry, Maps
  <2>2. Retains(tree, InsertEntry(tree, e, K, a).tree)
    BY <2>1, EntriesRetain DEF Fresh
  <2> QED
    BY <1>2, <2>1, <2>2
<1>14. CASE CallRemoveEntry
  <2>1. PICK e \in LiveNodes \cap Elements, K \in Maps : \E name :
            Call(RemoveEntry(tree, e, K, name))
    BY <1>14 DEF CallRemoveEntry, Maps
  <2>1a. PICK name : Call(RemoveEntry(tree, e, K, name))
    BY <2>1
  <2> DEFINE old == GetNode(tree, e, K, name)
  <2>2. old # NoNode => old \in LiveNodes
    <3>1. e \in Node
      BY <1>1
    <3>2. ASSUME old # NoNode
          PROVE  old \in Node /\ tree.parent[old] = e
      BY <3>1, <3>2, GetNodeFinds, GetNodeIsNode, MapNodesListed
    <3>3. ASSUME old # NoNode
          PROVE  Live(tree, old)
      BY <3>1, <3>2, <3>3, NoNodeIsNoNode DEF Good, Forest, ParentsAreContainers
    <3> QED
      BY <3>2, <3>3 DEF LiveNodes
  <2>3. \/ old = NoNode /\ Call(Ok(tree))
        \/ old # NoNode /\ Call(RemoveNode(tree, old))
    BY <2>1, <2>1a DEF RemoveEntry
  <2> HIDE DEF old
  <2>4. Retains(tree, Ok(tree).tree)
    BY DEF Ok, Retains
  <2> QED
    BY <1>2, <2>2, <2>3, <2>4 DEF CallRemove
<1>15. CASE CallClear
  <2>1. PICK e \in LiveNodes \cap Elements, K \in Maps : Call(ClearMap(tree, e, K))
    BY <1>15 DEF CallClear, Maps
  <2> QED
    BY <1>2, <2>1, EntriesRetain
<1>16. ~SetTextConsolidation
  BY DEF SetTextConsolidation
<1> QED
  BY <1>4, <1>5, <1>6, <1>7, <1>8, <1>9, <1>10, <1>11, <1>12, <1>13, <1>14, <1>15,
     <1>16 DEF Next

\* Only remove and replace may lose text: whatever else a careful caller does
\* while consolidation stays on, what is merged, moved, wrapped or unwrapped is
\* still held by a live node.
THEOREM TextNeverLost ==
    ASSUME ~AnyCall, ~MaySwitch
    PROVE  Spec => NoTextLost
<1> DEFINE F == OrderInv /\ Fit(tree)
<1>1. ASSUME Retains(tree, tree')
      PROVE  TextHeld(tree) \subseteq TextHeld(tree')
  <2>1. ASSUME NEW t, NEW x
        PROVE  x \in TextHeld(t) <=> HeldLive(t, x)
    BY DEF TextHeld, HeldLive, ToSet
  <2> QED
    BY <1>1, <2>1 DEF Retains
<1>2. F /\ [Next]_vars =>
        [TextHeld(tree) \subseteq TextHeld(tree') \/ CallRemove \/ CallReplace]_vars
  <2>1. OrderInv /\ Fit(tree) => Inv /\ Spaced(tree)
    BY DEF OrderInv, Fit
  <2> QED
    BY <1>1, <2>1, NextRetains
<1>3. Spec => []F
  BY FitInvariance
<1> HIDE DEF F
<1> QED
  BY <1>2, <1>3, PTL DEF Spec, NoTextLost
=============================================================================
