--------------------------- MODULE XotTree_proofs ---------------------------
(***************************************************************************)
(* Whatever calls are made, on whatever live nodes, with consolidation on  *)
(* or off, the arena is a forest of well-typed nodes and a removed handle  *)
(* never comes back.                                                       *)
(*                                                                         *)
(* The inductive invariant is Good: the arena has its type and is a        *)
(* forest.  Neither half is inductive without the other: the place a node  *)
(* is linked at comes from its reference's place in the list of its        *)
(* parent.  The first half of the module says what each operation of the   *)
(* arena needs of the tree and of its arguments.  For each call of xot     *)
(* there is a lemma that its outcome is Sound; a move is Sound because     *)
(* consolidation frees only text nodes, so that the parent and the moved   *)
(* node are still live when they are linked.                               *)
(***************************************************************************)
EXTENDS XotContracts, WellFoundedInduction, TLAPS

-----------------------------------------------------------------------------
(* Sequences. *)

\* What concatenation does, by index.
LEMMA Concat ==
    ASSUME NEW S, NEW a \in Seq(S), NEW b \in Seq(S)
    PROVE  /\ a \o b \in Seq(S)
           /\ Len(a \o b) = Len(a) + Len(b)
           /\ \A k \in 1 .. Len(a) : (a \o b)[k] = a[k]
           /\ \A k \in 1 .. Len(b) : (a \o b)[Len(a) + k] = b[k]
<1>1. a \o b \in Seq(S) /\ Len(a \o b) = Len(a) + Len(b)
  OBVIOUS
<1>2. \A k \in 1 .. Len(a) : (a \o b)[k] = a[k]
  OBVIOUS
<1>3. ASSUME NEW k \in 1 .. Len(b) PROVE (a \o b)[Len(a) + k] = b[k]
  OBVIOUS
<1> QED
  BY <1>1, <1>2, <1>3

\* Splice keeps the members before position i, puts those of q behind them
\* and shifts the members behind position j.
LEMMA SpliceShifts ==
    ASSUME NEW S, NEW s \in Seq(S), NEW q \in Seq(S),
           NEW i \in 0 .. Len(s), NEW j \in i .. Len(s)
    PROVE  /\ Splice(s, i, j, q) \in Seq(S)
           /\ Len(Splice(s, i, j, q)) = i + Len(q) + (Len(s) - j)
           /\ \A k \in 1 .. i : Splice(s, i, j, q)[k] = s[k]
           /\ \A k \in 1 .. Len(q) : Splice(s, i, j, q)[i + k] = q[k]
           /\ \A k \in j + 1 .. Len(s) : Splice(s, i, j, q)[k - j + i + Len(q)] = s[k]
<1>1. Len(s) \in Nat /\ Len(q) \in Nat
  OBVIOUS
<1> DEFINE a == SubSeq(s, 1, i)
           b == SubSeq(s, j + 1, Len(s))
<1>2. a \in Seq(S) /\ Len(a) = i
  OBVIOUS
<1>3. \A k \in 1 .. i : a[k] = s[k]
  OBVIOUS
<1>4. b \in Seq(S) /\ Len(b) = Len(s) - j
  OBVIOUS
<1>5. ASSUME NEW k \in j + 1 .. Len(s) PROVE b[k - j] = s[k]
  OBVIOUS
<1>6. Splice(s, i, j, q) = (a \o q) \o b
  BY DEF Splice
<1> HIDE DEF a, b
<1> DEFINE c == a \o q
<1>7. /\ c \in Seq(S) /\ Len(c) = Len(a) + Len(q)
      /\ \A k \in 1 .. Len(a) : c[k] = a[k]
      /\ \A k \in 1 .. Len(q) : c[Len(a) + k] = q[k]
  <2> HIDE DEF c
  <2>1. a \in Seq(S)
    BY <1>2
  <2> QED
    BY <2>1, Concat DEF c
<1> HIDE DEF c
<1> DEFINE r == c \o b
<1>8. /\ r \in Seq(S) /\ Len(r) = Len(c) + Len(b)
      /\ \A k \in 1 .. Len(c) : r[k] = c[k]
      /\ \A k \in 1 .. Len(b) : r[Len(c) + k] = b[k]
  <2>1. c \in Seq(S) /\ b \in Seq(S)
    BY <1>4, <1>7
  <2> QED
    BY ONLY <2>1, Concat
<1> HIDE DEF r
<1>9. Len(c) = i + Len(q) /\ \A k \in 1 .. i : c[k] = a[k]
  BY <1>2, <1>7
<1>10. r \in Seq(S) /\ Len(r) = i + Len(q) + (Len(s) - j)
  BY <1>4, <1>8, <1>9
<1>11. \A k \in 1 .. i + Len(q) : r[k] = c[k]
  BY <1>8, <1>9
<1>12. \A k \in 1 .. Len(s) - j : r[i + Len(q) + k] = b[k]
  BY <1>4, <1>8, <1>9
<1>13. ASSUME NEW k \in 1 .. i PROVE r[k] = s[k]
  <2>1. k \in 1 .. i + Len(q)
    BY <1>1
  <2> QED
    BY <2>1, <1>11, <1>9, <1>3
<1>14. ASSUME NEW k \in 1 .. Len(q) PROVE r[i + k] = q[k]
  <2>1. i + k \in 1 .. i + Len(q)
    BY <1>1
  <2>2. c[i + k] = q[k]
    BY <1>2, <1>7
  <2> QED
    BY <2>1, <2>2, <1>11
<1>15. ASSUME NEW k \in j + 1 .. Len(s) PROVE r[k - j + i + Len(q)] = s[k]
  <2>1. k - j \in 1 .. Len(s) - j /\ k - j + i + Len(q) = i + Len(q) + (k - j)
    BY <1>1
  <2> QED
    BY <2>1, <1>12, <1>5
<1>16. Splice(s, i, j, q) = r
  BY <1>6 DEF c, r
<1> QED
  BY <1>10, <1>13, <1>14, <1>15, <1>16

\* The members of the splice are those of q and those of s at the positions
\* that are not cut out.
LEMMA SpliceMembers ==
    ASSUME NEW S, NEW s \in Seq(S), NEW q \in Seq(S),
           NEW i \in 0 .. Len(s), NEW j \in i .. Len(s)
    PROVE  \A x : x \in Range(Splice(s, i, j, q)) <=>
                    \/ x \in Range(q)
                    \/ \E k \in DOMAIN s : s[k] = x /\ k \notin i + 1 .. j
<1>1. Len(s) \in Nat /\ Len(q) \in Nat /\ DOMAIN s = 1 .. Len(s)
      /\ DOMAIN q = 1 .. Len(q)
  OBVIOUS
<1> DEFINE r == Splice(s, i, j, q)
<1>2. r \in Seq(S) /\ Len(r) = i + Len(q) + (Len(s) - j)
  BY SpliceShifts
<1>3. \A k \in 1 .. i : r[k] = s[k]
  BY SpliceShifts
<1>4. \A k \in 1 .. Len(q) : r[i + k] = q[k]
  BY SpliceShifts
<1>5. \A k \in j + 1 .. Len(s) : r[k - j + i + Len(q)] = s[k]
  BY SpliceShifts
<1>6. DOMAIN r = 1 .. Len(r)
  BY <1>2
<1> HIDE DEF r
<1>7. ASSUME NEW k \in 1 .. Len(r)
      PROVE  \/ r[k] \in Range(q)
             \/ \E m \in DOMAIN s : s[m] = r[k] /\ m \notin i + 1 .. j
  <2>1. CASE k \in 1 .. i
    <3>1. k \in DOMAIN s /\ r[k] = s[k] /\ k \notin i + 1 .. j
      BY <1>1, <1>3, <2>1
    <3> QED
      BY <3>1
  <2>2. CASE k \in i + 1 .. i + Len(q)
    <3>1. k - i \in 1 .. Len(q) /\ i + (k - i) = k
      BY <1>1, <2>2
    <3>2. k - i \in DOMAIN q /\ r[k] = q[k - i]
      BY <1>1, <1>4, <3>1
    <3> QED
      BY <3>2 DEF Range
  <2>3. CASE k \in i + Len(q) + 1 .. Len(r)
    <3> DEFINE m == k - i - Len(q) + j
    <3>1. m \in j + 1 .. Len(s) /\ m - j + i + Len(q) = k
      BY <1>1, <1>2, <2>3
    <3>2. r[k] = s[m]
      BY <1>5, <3>1
    <3>3. m \in DOMAIN s /\ m \notin i + 1 .. j
      BY <1>1, <3>1
    <3> QED
      BY <3>2, <3>3
  <2> QED
    BY <1>1, <1>2, <2>1, <2>2, <2>3
<1>8. ASSUME NEW k \in 1 .. Len(q) PROVE q[k] \in Range(r)
  <2>1. i + k \in DOMAIN r /\ r[i + k] = q[k]
    BY <1>1, <1>2, <1>4, <1>6
  <2> QED
    BY <2>1 DEF Range
<1>9. ASSUME NEW k \in 1 .. Len(s), k \notin i + 1 .. j PROVE s[k] \in Range(r)
  <2>1. CASE k \in 1 .. i
    <3>1. k \in DOMAIN r /\ r[k] = s[k]
      BY <1>1, <1>2, <1>3, <1>6, <2>1
    <3> QED
      BY <3>1 DEF Range
  <2>2. CASE k \in j + 1 .. Len(s)
    <3>1. k - j + i + Len(q) \in DOMAIN r /\ r[k - j + i + Len(q)] = s[k]
      BY <1>1, <1>2, <1>5, <1>6, <2>2
    <3> QED
      BY <3>1 DEF Range
  <2> QED
    BY <1>1, <1>9, <2>1, <2>2
<1>10. ASSUME NEW x \in Range(r)
       PROVE  x \in Range(q) \/ \E k \in DOMAIN s : s[k] = x /\ k \notin i + 1 .. j
  <2>1. PICK k \in DOMAIN r : r[k] = x
    BY DEF Range
  <2> QED
    BY <1>6, <1>7, <2>1
<1>11. ASSUME NEW x \in Range(q) PROVE x \in Range(r)
  <2>1. PICK k \in DOMAIN q : q[k] = x
    BY DEF Range
  <2> QED
    BY <1>1, <1>8, <2>1
<1>12. ASSUME NEW x, NEW k \in DOMAIN s, s[k] = x, k \notin i + 1 .. j
       PROVE  x \in Range(r)
  BY <1>1, <1>9, <1>12
<1> QED
  BY <1>10, <1>11, <1>12 DEF r

\* Splicing in distinct new members lists no member twice.
LEMMA SpliceInjective ==
    ASSUME NEW S, NEW s \in Seq(S), NEW q \in Seq(S),
           NEW i \in 0 .. Len(s), NEW j \in i .. Len(s),
           IsInjective(s), IsInjective(q), Range(q) \cap Range(s) = {}
    PROVE  IsInjective(Splice(s, i, j, q))
<1>1. Len(s) \in Nat /\ Len(q) \in Nat /\ DOMAIN s = 1 .. Len(s)
      /\ DOMAIN q = 1 .. Len(q)
  OBVIOUS
<1> DEFINE r == Splice(s, i, j, q)
<1>2. r \in Seq(S) /\ Len(r) = i + Len(q) + (Len(s) - j)
  BY SpliceShifts
<1>3. \A k \in 1 .. i : r[k] = s[k]
  BY SpliceShifts
<1>4. \A k \in 1 .. Len(q) : r[i + k] = q[k]
  BY SpliceShifts
<1>5. \A k \in j + 1 .. Len(s) : r[k - j + i + Len(q)] = s[k]
  BY SpliceShifts
<1>6. DOMAIN r = 1 .. Len(r)
  BY <1>2
<1> HIDE DEF r
\* The member at position k is the one at position From(k) of s or q.
<1> DEFINE InQ(k)  == k \in i + 1 .. i + Len(q)
           From(k) == IF k <= i THEN k
                      ELSE IF InQ(k) THEN k - i ELSE k - i - Len(q) + j
<1>7. ASSUME NEW k \in 1 .. Len(r), InQ(k)
      PROVE  From(k) \in DOMAIN q /\ r[k] = q[From(k)] /\ From(k) + i = k
  <2>1. From(k) = k - i /\ k - i \in 1 .. Len(q) /\ i + (k - i) = k
    BY <1>1, <1>7
  <2> QED
    BY <1>1, <1>4, <2>1
<1>8. ASSUME NEW k \in 1 .. Len(r), ~InQ(k)
      PROVE  From(k) \in DOMAIN s /\ r[k] = s[From(k)]
  <2>1. CASE k <= i
    BY <1>1, <1>3, <2>1
  <2>2. CASE k > i + Len(q)
    <3>1. From(k) \in j + 1 .. Len(s) /\ From(k) - j + i + Len(q) = k
      BY <1>1, <1>2, <2>2
    <3> HIDE DEF From
    <3> QED
      BY <1>1, <1>5, <3>1
  <2> QED
    BY <1>1, <1>8, <2>1, <2>2
<1>9. ASSUME NEW k \in 1 .. Len(r), NEW l \in 1 .. Len(r), ~InQ(k), ~InQ(l),
             From(k) = From(l)
      PROVE  k = l
  BY <1>1, <1>2, <1>9
<1> HIDE DEF InQ, From
<1> SUFFICES ASSUME NEW k \in 1 .. Len(r), NEW l \in 1 .. Len(r), r[k] = r[l]
             PROVE  k = l
  BY <1>6 DEF IsInjective, r
<1>10. CASE InQ(k) /\ InQ(l)
  <2>1. From(k) \in DOMAIN q /\ From(l) \in DOMAIN q /\ q[From(k)] = q[From(l)]
    BY <1>7, <1>10
  <2>2. From(k) = From(l)
    BY <2>1 DEF IsInjective
  <2> QED
    BY <2>2, <1>7, <1>10
<1>11. CASE ~InQ(k) /\ ~InQ(l)
  <2>1. From(k) \in DOMAIN s /\ From(l) \in DOMAIN s /\ s[From(k)] = s[From(l)]
    BY <1>8, <1>11
  <2>2. From(k) = From(l)
    BY <2>1 DEF IsInjective
  <2> QED
    BY <2>2, <1>9, <1>11
<1>12. ASSUME NEW x \in 1 .. Len(r), NEW y \in 1 .. Len(r), InQ(x), ~InQ(y)
       PROVE  r[x] # r[y]
  <2>1. From(x) \in DOMAIN q /\ r[x] = q[From(x)]
    BY <1>7, <1>12
  <2>2. From(y) \in DOMAIN s /\ r[y] = s[From(y)]
    BY <1>8, <1>12
  <2>3. r[x] \in Range(q) /\ r[y] \in Range(s)
    BY <2>1, <2>2 DEF Range
  <2> QED
    BY <2>3
<1> QED
  BY <1>10, <1>11, <1>12

\* A sequence without positions is empty.
LEMMA EmptySeq ==
    ASSUME NEW S, NEW s \in Seq(S), DOMAIN s = {}
    PROVE  s = <<>>
<1>1. Len(s) \in Nat /\ DOMAIN s = 1 .. Len(s)
  OBVIOUS
<1>2. 1 \notin 1 .. Len(s)
  BY <1>1
<1>3. Len(s) = 0
  BY <1>1, <1>2
<1> QED
  BY <1>3

\* Cutting out the member at position i.
LEMMA CutOne ==
    ASSUME NEW S, NEW s \in Seq(S), NEW i \in 1 .. Len(s), IsInjective(s)
    PROVE  LET r == Splice(s, i - 1, i, <<>>)
           IN /\ r \in Seq(S) /\ IsInjective(r)
              /\ Range(r) = Range(s) \ {s[i]}
<1>1. i - 1 \in 0 .. Len(s) /\ i \in i - 1 .. Len(s) /\ (i - 1) + 1 .. i = {i}
  OBVIOUS
<1>2. <<>> \in Seq(S) /\ IsInjective(<<>>) /\ Range(<<>>) = {}
  BY DEF IsInjective, Range
<1> DEFINE r == Splice(s, i - 1, i, <<>>)
<1>3. r \in Seq(S)
  BY <1>1, <1>2, SpliceShifts
<1>4. IsInjective(r)
  BY <1>1, <1>2, SpliceInjective
<1>5. \A x : x \in Range(r) <=> \/ x \in Range(<<>>)
                                \/ \E k \in DOMAIN s : /\ s[k] = x
                                                       /\ k \notin (i - 1) + 1 .. i
  BY <1>1, <1>2, SpliceMembers
<1> HIDE DEF r
<1>6. Range(r) = Range(s) \ {s[i]}
  <2>1. i \in DOMAIN s
    OBVIOUS
  <2>2. \A x : x \in Range(r) <=> \E k \in DOMAIN s : s[k] = x /\ k # i
    BY <1>1, <1>2, <1>5
  <2>3. \A x : x \in Range(s) <=> \E k \in DOMAIN s : s[k] = x
    BY DEF Range
  <2>4. \A k \in DOMAIN s : s[k] = s[i] => k = i
    BY <2>1 DEF IsInjective
  <2>5. \A x : x \in Range(r) <=> x \in Range(s) /\ x # s[i]
    BY <2>2, <2>3, <2>4
  <2> QED
    BY <2>5
<1> QED
  BY <1>3, <1>4, <1>6 DEF r

\* Inserting a new member behind position i.
LEMMA InsertOne ==
    ASSUME NEW S, NEW s \in Seq(S), NEW i \in 0 .. Len(s), IsInjective(s),
           NEW n \in S, n \notin Range(s)
    PROVE  LET r == Splice(s, i, i, <<n>>)
           IN /\ r \in Seq(S) /\ IsInjective(r)
              /\ Range(r) = Range(s) \cup {n}
<1>1. i \in i .. Len(s) /\ i + 1 .. i = {}
  OBVIOUS
<1>2. <<n>> \in Seq(S) /\ IsInjective(<<n>>)
  BY DEF IsInjective
<1>3. Range(<<n>>) = {n}
  BY DEF Range
<1> DEFINE r == Splice(s, i, i, <<n>>)
<1>4. r \in Seq(S)
  BY <1>1, <1>2, SpliceShifts
<1>5. IsInjective(r)
  BY <1>1, <1>2, <1>3, SpliceInjective
<1>6. \A x : x \in Range(r) <=> \/ x \in Range(<<n>>)
                                \/ \E k \in DOMAIN s : s[k] = x /\ k \notin i + 1 .. i
  BY <1>1, <1>2, SpliceMembers
<1> HIDE DEF r
<1>7. Range(r) = Range(s) \cup {n}
  <2>1. \A x : x \in Range(r) <=> x = n \/ \E k \in DOMAIN s : s[k] = x
    BY <1>1, <1>3, <1>6
  <2> QED
    BY <2>1 DEF Range
<1> QED
  BY <1>4, <1>5, <1>7 DEF r

-----------------------------------------------------------------------------
(* Ancestors. *)

\* The parent of a node that is above p, or is p, is above p.
LEMMA AncestorsClosed ==
    ASSUME NEW t, NEW p \in Node, NEW m \in AncestorsOrSelf(t, p),
           t.parent[m] \in Container
    PROVE  t.parent[m] \in Ancestors(t, p)
<1>1. t.parent[m] # NoNode
  BY NoNodeIsNoNode DEF Node, Normal, Container
<1> SUFFICES ASSUME NEW S \in SUBSET Container,
                    t.parent[p] \in S \cup {NoNode},
                    \A x \in S : t.parent[x] \in S \cup {NoNode}
             PROVE  t.parent[m] \in S
  BY DEF Ancestors
<1>2. m = p \/ m \in S
  BY DEF AncestorsOrSelf, Ancestors
<1> QED
  BY <1>1, <1>2

\* Unlinking nodes puts no node above another.
LEMMA AncestorsShrink ==
    ASSUME NEW t, NEW u, NEW p \in Node,
           \A m \in Node : u.parent[m] \in {t.parent[m], NoNode}
    PROVE  AncestorsOrSelf(u, p) \subseteq AncestorsOrSelf(t, p)
<1> SUFFICES ASSUME NEW a \in Ancestors(u, p), NEW S \in SUBSET Container,
                    t.parent[p] \in S \cup {NoNode},
                    \A x \in S : t.parent[x] \in S \cup {NoNode}
             PROVE  a \in S
  BY DEF Ancestors, AncestorsOrSelf
<1>1. Container \subseteq Node
  BY DEF Container, Node, Normal
<1>2. u.parent[p] \in S \cup {NoNode}
  OBVIOUS
<1>3. \A x \in S : u.parent[x] \in S \cup {NoNode}
  BY <1>1
<1> QED
  BY <1>2, <1>3 DEF Ancestors

\* What is above a node is its parent and what is above that.
LEMMA AncestorsStep ==
    ASSUME NEW t, NEW x \in Node, t.parent[x] \in Container
    PROVE  Ancestors(t, x) = AncestorsOrSelf(t, t.parent[x])
<1>1. t.parent[x] # NoNode /\ Container \subseteq Node
  BY NoNodeIsNoNode DEF Node, Normal, Container
<1> DEFINE p == t.parent[x]
           T == AncestorsOrSelf(t, p) \cap Container
<1>2. ASSUME NEW m \in T PROVE t.parent[m] \in T \cup {NoNode} \/ t.parent[m] \notin Container
  BY <1>1, AncestorsClosed DEF AncestorsOrSelf, Ancestors
<1>3. ASSUME NEW a \in AncestorsOrSelf(t, p) PROVE a \in Ancestors(t, x)
  <2> SUFFICES ASSUME NEW S \in SUBSET Container,
                      t.parent[x] \in S \cup {NoNode},
                      \A m \in S : t.parent[m] \in S \cup {NoNode}
               PROVE  a \in S
    BY <1>3 DEF Ancestors, AncestorsOrSelf
  <2>1. p \in S /\ t.parent[p] \in S \cup {NoNode}
    BY <1>1
  <2> QED
    BY <2>1, <1>3 DEF Ancestors, AncestorsOrSelf
<1>4. ASSUME NEW a \in Ancestors(t, x) PROVE a \in AncestorsOrSelf(t, p)
  <2> SUFFICES ASSUME a # p, NEW S \in SUBSET Container,
                      t.parent[p] \in S \cup {NoNode},
                      \A m \in S : t.parent[m] \in S \cup {NoNode}
               PROVE  a \in S
    BY <1>4 DEF Ancestors, AncestorsOrSelf
  <2> DEFINE U == S \cup {p}
  <2>1. U \in SUBSET Container /\ t.parent[x] \in U \cup {NoNode}
        /\ \A m \in U : t.parent[m] \in U \cup {NoNode}
    OBVIOUS
  <2>2. a \in U
    BY <2>1, <1>4 DEF Ancestors
  <2> QED
    BY <2>2
<1> QED
  BY <1>3, <1>4

\* Nothing is above a node that has no parent.
LEMMA RootsHaveNone ==
    ASSUME NEW t, NEW x \in Node, t.parent[x] = NoNode
    PROVE  Ancestors(t, x) = {}
<1> SUFFICES ASSUME NEW a \in Ancestors(t, x) PROVE FALSE
  OBVIOUS
<1>1. {} \in SUBSET Container /\ t.parent[x] \in {} \cup {NoNode}
      /\ \A m \in {} : t.parent[m] \in {} \cup {NoNode}
  OBVIOUS
<1>2. a \in {}
  BY <1>1 DEF Ancestors
<1> QED
  BY <1>2

-----------------------------------------------------------------------------
(* Forests. *)

Good(t) == t \in Tree /\ Forest(t)

\* Only containers have children, and only live nodes.
LEMMA ParentsHaveKids ==
    ASSUME NEW t, Good(t), NEW p \in Node, NEW i \in DOMAIN t.kids[p]
    PROVE  /\ t.kids[p][i] \in Node \ Documents
           /\ t.parent[t.kids[p][i]] = p
           /\ p \in Container /\ Live(t, p) /\ Live(t, t.kids[p][i])
<1> DEFINE n == t.kids[p][i]
<1>1. t.kids[p] \in Seq(Node)
  BY DEF Good, Tree
<1>2. n \in Node /\ n \in Range(t.kids[p])
  BY <1>1 DEF Range
<1>3. t.parent[n] = p
  BY <1>2 DEF Good, Forest, KidsAgree
<1>4. p # NoNode
  BY NoNodeIsNoNode
<1> QED
  BY <1>2, <1>3, <1>4 DEF Good, Forest, ParentsAreContainers

\* Nodes that are not live or not containers have no children.
LEMMA Childless ==
    ASSUME NEW t, Good(t), NEW n \in Node, n \notin Container \/ ~Live(t, n)
    PROVE  t.kids[n] = <<>> /\ \A m \in Node : t.parent[m] # n
<1>1. t.kids[n] \in Seq(Node)
  BY DEF Good, Tree
<1>2. DOMAIN t.kids[n] = {}
  BY ParentsHaveKids
<1>3. \A m \in Node : t.parent[m] # n
  BY <1>2 DEF Good, Forest, KidsAgree, Range
<1>4. t.kids[n] = <<>>
  <2> DEFINE s == t.kids[n]
  <2>1. s \in Seq(Node) /\ DOMAIN s = {}
    BY <1>1, <1>2
  <2> HIDE DEF s
  <2>2. s = <<>>
    BY <2>1, EmptySeq
  <2> QED
    BY <2>2 DEF s
<1> QED
  BY <1>3, <1>4

\* The position of a child is where it is listed.
LEMMA PositionListed ==
    ASSUME NEW t, Good(t), NEW n \in Node, t.parent[n] # NoNode
    PROVE  LET s == t.kids[t.parent[n]]
           IN /\ t.parent[n] \in Container
              /\ s \in Seq(Node) /\ IsInjective(s)
              /\ Position(t, n) \in 1 .. Len(s) /\ s[Position(t, n)] = n
<1> DEFINE p == t.parent[n]
           s == t.kids[p]
<1>1. p \in Container /\ p \in Node
  BY DEF Good, Forest, ParentsAreContainers, Container, Node, Normal
<1>2. s \in Seq(Node) /\ DOMAIN s = 1 .. Len(s)
  BY <1>1 DEF Good, Tree
<1>3. IsInjective(s) /\ n \in Range(s)
  BY <1>1 DEF Good, Forest, KidsAgree
<1>4. \E i \in DOMAIN s : s[i] = n
  BY <1>3 DEF Range
<1> QED
  BY <1>1, <1>2, <1>3, <1>4 DEF Position

-----------------------------------------------------------------------------
(* Moving nodes. *)

\* Taking a node from its parent leaves everything else alone.
LEMMA UnlinkGood ==
    ASSUME NEW t, Good(t), NEW n \in Node
    PROVE  LET u == Unlink(t, n)
           IN /\ Good(u)
              /\ u.parent = [t.parent EXCEPT ![n] = NoNode]
              /\ u.phase = t.phase
              /\ \A q \in Node : Range(u.kids[q]) = Range(t.kids[q]) \ {n}
<1> DEFINE p == t.parent[n]
           i == Position(t, n)
           r == Splice(t.kids[p], i - 1, i, <<>>)
           u == Unlink(t, n)
<1>1. CASE p = NoNode
  <2>1. u = t
    BY <1>1 DEF Unlink
  <2>2. t.parent = [t.parent EXCEPT ![n] = NoNode]
    BY <1>1 DEF Good, Tree
  <2>3. \A q \in Node : n \notin Range(t.kids[q])
    BY <1>1, NoNodeIsNoNode DEF Good, Forest, KidsAgree
  <2> QED
    BY <2>1, <2>2, <2>3
<1>2. CASE p # NoNode
  <2>1. /\ p \in Container /\ p \in Node /\ t.kids[p] \in Seq(Node)
        /\ IsInjective(t.kids[p])
        /\ i \in 1 .. Len(t.kids[p]) /\ t.kids[p][i] = n
    BY <1>2, PositionListed DEF Container, Node, Normal
  <2>2. r \in Seq(Node) /\ IsInjective(r) /\ Range(r) = Range(t.kids[p]) \ {n}
    BY <2>1, CutOne
  <2> HIDE DEF r
  <2>3. u = [t EXCEPT !.kids[p] = r, !.parent[n] = NoNode]
    BY <1>2 DEF Unlink, r
  <2> HIDE DEF u
  <2>4. /\ u \in Tree
        /\ u.kids = [t.kids EXCEPT ![p] = r]
        /\ u.parent = [t.parent EXCEPT ![n] = NoNode]
        /\ u.phase = t.phase
    BY <2>1, <2>2, <2>3 DEF Good, Tree
  <2>5. t.kids \in [Node -> Seq(Node)] /\ t.parent \in [Node -> Node \cup {NoNode}]
    BY DEF Good, Tree
  <2>6. ASSUME NEW q \in Node PROVE Range(u.kids[q]) = Range(t.kids[q]) \ {n}
    <3>1. CASE q = p
      BY <2>1, <2>2, <2>4, <2>5, <3>1
    <3>2. CASE q # p
      <4>1. n \notin Range(t.kids[q])
        BY <3>2 DEF Good, Forest, KidsAgree
      <4> QED
        BY <2>4, <2>5, <3>2, <4>1
    <3> QED
      BY <3>1, <3>2
  <2>7. ParentsAreContainers(u)
    BY <2>4, <2>5 DEF Good, Forest, ParentsAreContainers, Live
  <2>8. KidsAgree(u)
    <3>1. \A q \in Node : IsInjective(u.kids[q])
      BY <2>2, <2>4, <2>5 DEF Good, Forest, KidsAgree
    <3>2. ASSUME NEW q \in Node, NEW m \in Node
          PROVE  u.parent[m] = q <=> m \in Range(u.kids[q])
      <4>1. t.parent[m] = q <=> m \in Range(t.kids[q])
        BY DEF Good, Forest, KidsAgree
      <4>2. q # NoNode
        BY NoNodeIsNoNode
      <4>3. m \in Range(u.kids[q]) <=> m \in Range(t.kids[q]) /\ m # n
        BY <2>6
      <4>4. u.parent[m] = IF m = n THEN NoNode ELSE t.parent[m]
        BY <2>4, <2>5
      <4> QED
        BY <4>1, <4>2, <4>3, <4>4
    <3> QED
      BY <3>1, <3>2 DEF KidsAgree
  <2>9. Acyclic(u)
    <3> SUFFICES ASSUME NEW S \in SUBSET Container, S # {}
                 PROVE  \E m \in S : u.parent[m] \notin S
      BY DEF Acyclic
    <3>1. PICK m \in S : t.parent[m] \notin S
      BY DEF Good, Forest, Acyclic
    <3>2. m \in Node /\ NoNode \notin S
      BY NoNodeIsNoNode DEF Container, Node, Normal
    <3> QED
      BY <2>4, <2>5, <3>1, <3>2
  <2> QED
    BY <2>4, <2>6, <2>7, <2>8, <2>9 DEF Good, Forest, u
<1> QED
  BY <1>1, <1>2

\* Giving a parent to a live node that has none, and that is not above the
\* parent, makes no cycle.
LEMMA LinkGood ==
    ASSUME NEW t, Good(t), NEW n \in Node, NEW p \in Container,
           NEW i \in 0 .. Len(t.kids[p]),
           t.parent[n] = NoNode, n \notin Documents, Live(t, n), Live(t, p),
           n \notin AncestorsOrSelf(t, p)
    PROVE  LET u == Link(t, p, i, n)
           IN Good(u) /\ u.phase = t.phase
<1> DEFINE r == Splice(t.kids[p], i, i, <<n>>)
           u == Link(t, p, i, n)
<1>1. /\ p \in Node /\ t.kids[p] \in Seq(Node) /\ IsInjective(t.kids[p])
      /\ n \notin Range(t.kids[p])
  BY NoNodeIsNoNode DEF Good, Tree, Forest, KidsAgree, Container, Node, Normal
<1>2. r \in Seq(Node) /\ IsInjective(r) /\ Range(r) = Range(t.kids[p]) \cup {n}
  BY <1>1, InsertOne
<1> HIDE DEF r
<1>3. u = [t EXCEPT !.kids[p] = r, !.parent[n] = p]
  BY DEF Link, r
<1> HIDE DEF u
<1>4. /\ u \in Tree
      /\ u.kids = [t.kids EXCEPT ![p] = r]
      /\ u.parent = [t.parent EXCEPT ![n] = p]
      /\ u.phase = t.phase
  BY <1>1, <1>2, <1>3 DEF Good, Tree
<1>5. t.kids \in [Node -> Seq(Node)] /\ t.parent \in [Node -> Node \cup {NoNode}]
  BY DEF Good, Tree
<1>6. ParentsAreContainers(u)
  BY <1>4, <1>5 DEF Good, Forest, ParentsAreContainers, Live
<1>7. KidsAgree(u)
  <2>1. \A q \in Node : IsInjective(u.kids[q])
    BY <1>2, <1>4, <1>5 DEF Good, Forest, KidsAgree
  <2>2. ASSUME NEW q \in Node, NEW m \in Node
        PROVE  u.parent[m] = q <=> m \in Range(u.kids[q])
    <3>1. t.parent[m] = q <=> m \in Range(t.kids[q])
      BY DEF Good, Forest, KidsAgree
    <3>2. CASE q = p
      BY <1>1, <1>2, <1>4, <1>5, <3>1, <3>2
    <3>3. CASE q # p
      BY <1>1, <1>4, <1>5, <3>1, <3>3, NoNodeIsNoNode
    <3> QED
      BY <3>2, <3>3
  <2> QED
    BY <2>1, <2>2 DEF KidsAgree
\* A cycle would need n and p, and then the nodes above p would be one already.
<1>8. Acyclic(u)
  <2> SUFFICES ASSUME NEW S \in SUBSET Container, S # {},
                      \A m \in S : u.parent[m] \in S
               PROVE  FALSE
    BY DEF Acyclic
  <2>1. S \subseteq Node
    BY DEF Container, Node, Normal
  <2>2. n \in S
    <3>1. PICK m \in S : t.parent[m] \notin S
      BY DEF Good, Forest, Acyclic
    <3> QED
      BY <1>4, <1>5, <2>1, <3>1
  <2>3. p \in S
    BY <1>4, <1>5, <2>1, <2>2
  <2> DEFINE T == S \cap AncestorsOrSelf(t, p)
  <2>4. T \in SUBSET Container /\ T # {}
    BY <2>3 DEF AncestorsOrSelf
  <2>5. PICK m \in T : t.parent[m] \notin T
    BY <2>4 DEF Good, Forest, Acyclic
  <2>6. m # n /\ u.parent[m] = t.parent[m]
    BY <1>4, <1>5, <2>1, <2>5
  <2>7. t.parent[m] \in S /\ t.parent[m] \in Container
    BY <2>5, <2>6
  <2>8. t.parent[m] \in AncestorsOrSelf(t, p)
    BY <1>1, <2>5, <2>7, AncestorsClosed DEF AncestorsOrSelf
  <2> QED
    BY <2>5, <2>7, <2>8
<1> QED
  BY <1>4, <1>6, <1>7, <1>8 DEF Good, Forest, u

-----------------------------------------------------------------------------
(* Allocating and freeing nodes. *)

\* New phases and values do not disturb the links between live nodes.
LEMMA RelabelGood ==
    ASSUME NEW t, Good(t), NEW u \in Tree,
           u.parent = t.parent, u.kids = t.kids,
           \A m \in Node : Live(t, m) => Live(u, m)
    PROVE  Good(u)
<1>1. ParentsAreContainers(u)
  BY DEF Good, Forest, ParentsAreContainers, Container, Node, Normal
<1>2. KidsAgree(u) /\ Acyclic(u)
  BY DEF Good, Forest, KidsAgree, Acyclic
<1> QED
  BY <1>1, <1>2 DEF Good, Forest

\* Allocating a handle that is not in use keeps the arena good.
LEMMA NewNodeGood ==
    ASSUME NEW t, Good(t), NEW n \in Node
    PROVE  LET u == NewNode(t, n)
           IN Good(u) /\ u.phase = [t.phase EXCEPT ![n] = "live"]
              /\ u.parent = t.parent /\ u.kids = t.kids
<1> DEFINE v == IF n \in Texts \cup Abnormal THEN <<n>> ELSE <<>>
           u == NewNode(t, n)
<1>1. v \in Seq(Node)
  OBVIOUS
<1> HIDE DEF v
<1>2. u = [t EXCEPT !.phase[n] = "live", !.value[n] = v]
  BY DEF NewNode, v
<1> HIDE DEF u
<1>3. /\ u \in Tree /\ u.parent = t.parent /\ u.kids = t.kids
      /\ u.phase = [t.phase EXCEPT ![n] = "live"]
  BY <1>1, <1>2 DEF Good, Tree, Phases
<1>4. \A m \in Node : Live(t, m) => Live(u, m)
  BY <1>3 DEF Live, Good, Tree
<1>5. Good(u)
  BY <1>3, <1>4, RelabelGood
<1> QED
  BY <1>3, <1>5 DEF u

\* Writing text into a node keeps the arena good.
LEMMA ValueGood ==
    ASSUME NEW t, Good(t), NEW n \in Node, NEW v \in Seq(Node)
    PROVE  LET u == [t EXCEPT !.value[n] = v]
           IN Good(u) /\ u.phase = t.phase /\ u.parent = t.parent
              /\ u.kids = t.kids
<1> DEFINE u == [t EXCEPT !.value[n] = v]
<1>1. /\ u \in Tree /\ u.parent = t.parent /\ u.kids = t.kids
      /\ u.phase = t.phase
  BY DEF Good, Tree
<1>2. \A m \in Node : Live(t, m) => Live(u, m)
  BY <1>1 DEF Live
<1> HIDE DEF u
<1>3. Good(u)
  BY <1>1, <1>2, RelabelGood
<1> QED
  BY <1>1, <1>3 DEF u

\* Taking out a set of nodes that holds whatever is below its members.
LEMMA DropGood ==
    ASSUME NEW t, Good(t), NEW u \in Tree, NEW G \in SUBSET Node,
           \A m \in Node : u.parent[m] = IF m \in G THEN NoNode ELSE t.parent[m],
           \A m \in Node \ G : u.phase[m] = t.phase[m],
           \A q \in Node : IsInjective(u.kids[q]),
           \A q, m \in Node : m \in Range(u.kids[q]) <=> m \in Range(t.kids[q]) \ G,
           \A m \in Node : t.parent[m] \in G => m \in G
    PROVE  Good(u)
<1>1. ParentsAreContainers(u)
  BY DEF Good, Forest, ParentsAreContainers, Live, Container, Node, Normal
<1>2. KidsAgree(u)
  <2>1. ASSUME NEW q \in Node, NEW m \in Node
        PROVE  u.parent[m] = q <=> m \in Range(u.kids[q])
    <3>1. t.parent[m] = q <=> m \in Range(t.kids[q])
      BY DEF Good, Forest, KidsAgree
    <3> QED
      BY <3>1, NoNodeIsNoNode
  <2> QED
    BY <2>1 DEF KidsAgree
<1>3. Acyclic(u)
  <2> SUFFICES ASSUME NEW S \in SUBSET Container, S # {}
               PROVE  \E m \in S : u.parent[m] \notin S
    BY DEF Acyclic
  <2>1. PICK m \in S : t.parent[m] \notin S
    BY DEF Good, Forest, Acyclic
  <2>2. m \in Node /\ NoNode \notin S
    BY NoNodeIsNoNode DEF Container, Node, Normal
  <2> QED
    BY <2>1, <2>2
<1> QED
  BY <1>1, <1>2, <1>3 DEF Good, Forest

\* Freeing a childless node keeps the arena good and touches no other node.
LEMMA FreeGood ==
    ASSUME NEW t, Good(t), NEW n \in Node \ Container
    PROVE  LET f == Free(t, n)
           IN /\ Good(f)
              /\ f.phase = [t.phase EXCEPT ![n] = "removed"]
              /\ f.parent = [t.parent EXCEPT ![n] = NoNode]
<1> DEFINE u == Unlink(t, n)
           f == Free(t, n)
<1>1. /\ Good(u) /\ u.parent = [t.parent EXCEPT ![n] = NoNode]
      /\ u.phase = t.phase
      /\ \A q \in Node : Range(u.kids[q]) = Range(t.kids[q]) \ {n}
  BY UnlinkGood
<1>2. f = [u EXCEPT !.phase[n] = "removed", !.value[n] = <<>>]
  BY DEF Free
<1> HIDE DEF u, f
<1>3. t.parent \in [Node -> Node \cup {NoNode}] /\ t.phase \in [Node -> Phases]
  BY DEF Good, Tree
<1>4. f \in Tree /\ f.parent = u.parent /\ f.kids = u.kids
  <2>1. u \in Tree /\ <<>> \in Seq(Node)
    BY <1>1 DEF Good
  <2> DEFINE e == <<>>
  <2>2. e \in Seq(Node) /\ f = [u EXCEPT !.phase[n] = "removed", !.value[n] = e]
    BY <1>2, <2>1
  <2> HIDE DEF e
  <2> QED
    BY <2>1, <2>2 DEF Tree, Phases
<1>5. f.phase = [t.phase EXCEPT ![n] = "removed"]
  BY <1>1, <1>2 DEF Good, Tree
<1> DEFINE G == {n}
<1>6. \A m \in Node : f.parent[m] = IF m \in G THEN NoNode ELSE t.parent[m]
  BY <1>1, <1>3, <1>4
<1>7. \A m \in Node \ G : f.phase[m] = t.phase[m]
  BY <1>3, <1>5
<1>8. \A q \in Node : IsInjective(f.kids[q])
  BY <1>1, <1>4 DEF Good, Forest, KidsAgree
<1>9. \A q, m \in Node : m \in Range(f.kids[q]) <=> m \in Range(t.kids[q]) \ G
  BY <1>1, <1>4
<1>10. \A m \in Node : t.parent[m] \in G => m \in G
  BY Childless
<1>11. G \in SUBSET Node
  OBVIOUS
<1> HIDE DEF G
<1>12. Good(f)
  BY <1>4, <1>6, <1>7, <1>8, <1>9, <1>10, <1>11, DropGood
<1> QED
  BY <1>1, <1>4, <1>5, <1>12 DEF f

\* Freeing a run of childless children.
LEMMA FreeRunGood ==
    ASSUME NEW t, Good(t), NEW p \in Node,
           NEW i \in 0 .. Len(t.kids[p]), NEW j \in i .. Len(t.kids[p]),
           \A k \in i + 1 .. j : t.kids[p][k] \notin Container
    PROVE  LET f == FreeRun(t, p, i, j)
           IN /\ Good(f)
              /\ \A m \in Node : \/ f.phase[m] = t.phase[m]
                                 \/ f.phase[m] = "removed" /\ m \notin Container
<1> DEFINE s == t.kids[p]
           G == {s[k] : k \in i + 1 .. j}
           r == Splice(s, i, j, <<>>)
           f == FreeRun(t, p, i, j)
<1>1. s \in Seq(Node) /\ IsInjective(s)
  BY DEF Good, Tree, Forest, KidsAgree
<1>2. DOMAIN s = 1 .. Len(s) /\ Len(s) \in Nat
  BY <1>1
<1>3. i + 1 .. j \subseteq DOMAIN s
  BY <1>2
<1>4. G \subseteq Node \ Container
  BY <1>1, <1>2, <1>3
<1>5. <<>> \in Seq(Node) /\ IsInjective(<<>>) /\ Range(<<>>) = {}
  BY DEF IsInjective, Range
<1>6. i \in 0 .. Len(s) /\ j \in i .. Len(s)
  OBVIOUS
<1> HIDE DEF s
<1>7. r \in Seq(Node) /\ IsInjective(r)
  <2>1. Range(<<>>) \cap Range(s) = {}
    BY <1>5
  <2> QED
    BY <1>1, <1>5, <1>6, <2>1, SpliceShifts, SpliceInjective
<1>8. \A x : x \in Range(r) <=> \/ x \in Range(<<>>)
                                \/ \E k \in DOMAIN s : s[k] = x /\ k \notin i + 1 .. j
  BY <1>1, <1>5, <1>6, SpliceMembers
<1> USE DEF s
<1> HIDE DEF r
<1>9. \A x : x \in Range(r) <=> x \in Range(s) \ G
  <2>1. \A x : x \in Range(s) <=> \E k \in DOMAIN s : s[k] = x
    BY DEF Range
  <2>2. \A x : x \in G <=> \E k \in i + 1 .. j : s[k] = x
    OBVIOUS
  <2>3. \A k, l \in DOMAIN s : s[k] = s[l] => k = l
    BY <1>1 DEF IsInjective
  <2> HIDE DEF G, s
  <2> QED
    BY <1>3, <1>5, <1>8, <2>1, <2>2, <2>3
<1>10. f = [t EXCEPT
          !.kids[p] = r,
          !.parent  = [m \in Node |-> IF m \in G THEN NoNode ELSE @[m]],
          !.value   = [m \in Node |-> IF m \in G THEN <<>> ELSE @[m]],
          !.phase   = [m \in Node |-> IF m \in G THEN "removed" ELSE @[m]]]
  BY DEF FreeRun, r
<1> HIDE DEF f, G
<1>11. t.kids \in [Node -> Seq(Node)] /\ t.parent \in [Node -> Node \cup {NoNode}]
       /\ t.phase \in [Node -> Phases] /\ t.value \in [Node -> Seq(Node)]
  BY DEF Good, Tree
<1>12. /\ f.kids = [t.kids EXCEPT ![p] = r]
       /\ f.parent = [m \in Node |-> IF m \in G THEN NoNode ELSE t.parent[m]]
       /\ f.phase = [m \in Node |-> IF m \in G THEN "removed" ELSE t.phase[m]]
  BY <1>10 DEF Good, Tree
<1>13. f \in Tree
  <2>1. [t.kids EXCEPT ![p] = r] \in [Node -> Seq(Node)]
    BY <1>7, <1>11
  <2>2. [m \in Node |-> IF m \in G THEN NoNode ELSE t.parent[m]]
          \in [Node -> Node \cup {NoNode}]
    BY <1>11
  <2>3. [m \in Node |-> IF m \in G THEN "removed" ELSE t.phase[m]] \in [Node -> Phases]
    BY <1>11 DEF Phases
  <2>4. [m \in Node |-> IF m \in G THEN <<>> ELSE t.value[m]] \in [Node -> Seq(Node)]
    BY <1>5, <1>11
  <2> QED
    BY <1>10, <2>1, <2>2, <2>3, <2>4 DEF Good, Tree
<1>14. \A m \in Node : f.parent[m] = IF m \in G THEN NoNode ELSE t.parent[m]
  BY <1>12
<1>15. \A m \in Node \ G : f.phase[m] = t.phase[m]
  BY <1>12
<1>16. \A q \in Node : IsInjective(f.kids[q])
  BY <1>7, <1>11, <1>12 DEF Good, Forest, KidsAgree
<1>17. \A q, m \in Node : m \in Range(f.kids[q]) <=> m \in Range(t.kids[q]) \ G
  <2> SUFFICES ASSUME NEW q \in Node, NEW m \in Node
               PROVE  m \in Range(f.kids[q]) <=> m \in Range(t.kids[q]) \ G
    OBVIOUS
  <2>1. CASE q = p
    BY <1>9, <1>11, <1>12, <2>1
  <2>2. CASE q # p
    <3>1. f.kids[q] = t.kids[q]
      BY <1>11, <1>12, <2>2
    <3>2. \A k \in i + 1 .. j : t.parent[s[k]] = p
      BY <1>3, ParentsHaveKids
    <3>3. ASSUME m \in G PROVE t.parent[m] = p
      BY <3>2, <3>3 DEF G
    <3>4. m \in Range(t.kids[q]) => t.parent[m] = q
      BY DEF Good, Forest, KidsAgree
    <3> QED
      BY <2>2, <3>1, <3>3, <3>4
  <2> QED
    BY <2>1, <2>2
<1>18. \A m \in Node : t.parent[m] \in G => m \in G
  BY <1>4, Childless
<1>19. G \in SUBSET Node
  BY <1>4
<1>20. Good(f)
  BY <1>13, <1>14, <1>15, <1>16, <1>17, <1>18, <1>19, DropGood
<1>21. \A m \in Node : \/ f.phase[m] = t.phase[m]
                       \/ f.phase[m] = "removed" /\ m \notin Container
  BY <1>4, <1>12
<1> QED
  BY <1>20, <1>21 DEF f

\* What is below a member of a subtree belongs to the subtree.
LEMMA SubtreeClosed ==
    ASSUME NEW t, Good(t), NEW n \in Node, NEW m \in Node,
           t.parent[m] \in Subtree(t, n)
    PROVE  m \in Subtree(t, n)
<1>1. t.parent[m] # NoNode
  BY NoNodeIsNoNode DEF Subtree
<1>2. t.parent[m] \in Container
  BY <1>1 DEF Good, Forest, ParentsAreContainers
<1>3. n \in AncestorsOrSelf(t, t.parent[m])
  BY DEF Subtree
<1>4. n \in Ancestors(t, m)
  BY <1>2, <1>3, AncestorsStep
<1> QED
  BY <1>4 DEF Subtree, AncestorsOrSelf

\* A member of a subtree other than its root has its parent in the subtree.
LEMMA SubtreeHasParents ==
    ASSUME NEW t, Good(t), NEW n \in Node, NEW m \in Subtree(t, n), m # n
    PROVE  t.parent[m] \in Subtree(t, n)
<1>1. m \in Node /\ n \in Ancestors(t, m)
  BY DEF Subtree, AncestorsOrSelf
<1>2. t.parent[m] # NoNode
  BY <1>1, RootsHaveNone
<1>3. t.parent[m] \in Container
  BY <1>1, <1>2 DEF Good, Forest, ParentsAreContainers
<1>4. n \in AncestorsOrSelf(t, t.parent[m])
  BY <1>1, <1>3, AncestorsStep
<1> QED
  BY <1>3, <1>4 DEF Subtree, Container, Node, Normal

\* The parent of a node is not below it: the nodes between them would be a
\* cycle.
LEMMA ParentOutside ==
    ASSUME NEW t, Good(t), NEW n \in Node, t.parent[n] # NoNode
    PROVE  t.parent[n] \notin Subtree(t, n)
<1> SUFFICES ASSUME t.parent[n] \in Subtree(t, n) PROVE FALSE
  OBVIOUS
<1> DEFINE p == t.parent[n]
           S == (Subtree(t, n) \cap AncestorsOrSelf(t, p)) \cap Container
<1>1. p \in Container /\ p \in Node
  BY DEF Good, Forest, ParentsAreContainers, Container, Node, Normal
<1>2. p \in S
  BY <1>1 DEF AncestorsOrSelf
<1>3. PICK m \in S : t.parent[m] \notin S
  <2>1. S \in SUBSET Container /\ S # {}
    BY <1>2
  <2> HIDE DEF S
  <2> QED
    BY <2>1 DEF Good, Forest, Acyclic
<1>4. m # n
  BY <1>2, <1>3
<1>5. m \in Node /\ m \in Subtree(t, n) /\ m \in AncestorsOrSelf(t, p)
  BY <1>3 DEF Subtree
<1>6. t.parent[m] \in Subtree(t, n)
  BY <1>4, <1>5, SubtreeHasParents
<1>7. t.parent[m] \in Container
  BY <1>5, <1>6, NoNodeIsNoNode DEF Subtree, Good, Forest, ParentsAreContainers
<1>8. t.parent[m] \in AncestorsOrSelf(t, p)
  BY <1>1, <1>5, <1>7, AncestorsClosed DEF AncestorsOrSelf
<1> QED
  BY <1>3, <1>6, <1>7, <1>8

\* Removing a subtree keeps the arena good and touches nothing outside it
\* but the list of the parent of its root.
LEMMA RemoveSubtreeGood ==
    ASSUME NEW t, Good(t), NEW n \in Node
    PROVE  LET f == RemoveSubtree(t, n)
           IN /\ Good(f)
              /\ \A m \in Node : f.phase[m] = IF m \in Subtree(t, n) THEN "removed"
                                              ELSE t.phase[m]
<1> DEFINE G == Subtree(t, n)
           u == Unlink(t, n)
           f == RemoveSubtree(t, n)
<1>1. /\ Good(u) /\ u.parent = [t.parent EXCEPT ![n] = NoNode]
      /\ u.phase = t.phase
      /\ \A q \in Node : Range(u.kids[q]) = Range(t.kids[q]) \ {n}
  BY UnlinkGood
<1>2. G \in SUBSET Node /\ n \in G
  BY DEF Subtree, AncestorsOrSelf
<1>3. ASSUME NEW m \in Node, t.parent[m] \in G PROVE m \in G
  BY <1>3, SubtreeClosed
<1>4. ASSUME NEW m \in G, m # n PROVE t.parent[m] \in G
  BY <1>4, SubtreeHasParents
<1>5. f = [u EXCEPT
          !.parent = [m \in Node |-> IF m \in G THEN NoNode ELSE @[m]],
          !.kids   = [m \in Node |-> IF m \in G THEN <<>> ELSE @[m]],
          !.value  = [m \in Node |-> IF m \in G THEN <<>> ELSE @[m]],
          !.phase  = [m \in Node |-> IF m \in G THEN "removed" ELSE @[m]]]
  BY DEF RemoveSubtree
<1> HIDE DEF f, G, u
<1>6. /\ u.kids \in [Node -> Seq(Node)] /\ u.parent \in [Node -> Node \cup {NoNode}]
      /\ u.phase \in [Node -> Phases] /\ u.value \in [Node -> Seq(Node)]
      /\ u \in Tree
  BY <1>1 DEF Good, Tree
<1>7. <<>> \in Seq(Node) /\ IsInjective(<<>>) /\ Range(<<>>) = {}
  BY DEF IsInjective, Range
<1>8. /\ f.kids = [m \in Node |-> IF m \in G THEN <<>> ELSE u.kids[m]]
      /\ f.parent = [m \in Node |-> IF m \in G THEN NoNode ELSE u.parent[m]]
      /\ f.phase = [m \in Node |-> IF m \in G THEN "removed" ELSE u.phase[m]]
  BY <1>5, <1>6 DEF Tree
<1>9. f \in Tree
  <2>1. [m \in Node |-> IF m \in G THEN <<>> ELSE u.kids[m]] \in [Node -> Seq(Node)]
    BY <1>6, <1>7
  <2>2. [m \in Node |-> IF m \in G THEN NoNode ELSE u.parent[m]]
          \in [Node -> Node \cup {NoNode}]
    BY <1>6
  <2>3. [m \in Node |-> IF m \in G THEN "removed" ELSE u.phase[m]] \in [Node -> Phases]
    BY <1>6 DEF Phases
  <2>4. [m \in Node |-> IF m \in G THEN <<>> ELSE u.value[m]] \in [Node -> Seq(Node)]
    BY <1>6, <1>7
  <2> QED
    BY <1>5, <1>6, <2>1, <2>2, <2>3, <2>4 DEF Tree
<1>10. t.parent \in [Node -> Node \cup {NoNode}]
  BY DEF Good, Tree
<1>11. \A m \in Node : f.parent[m] = IF m \in G THEN NoNode ELSE t.parent[m]
  BY <1>1, <1>2, <1>8, <1>10
<1>12. \A m \in Node : f.phase[m] = IF m \in G THEN "removed" ELSE t.phase[m]
  BY <1>1, <1>8
<1>13. \A q \in Node : IsInjective(f.kids[q])
  <2>1. \A q \in Node : IsInjective(u.kids[q])
    BY <1>1 DEF Good, Forest, KidsAgree
  <2> QED
    BY <1>7, <1>8, <2>1
<1>14. ASSUME NEW q \in Node, NEW m \in Node
       PROVE  m \in Range(f.kids[q]) <=> m \in Range(t.kids[q]) \ G
  <2>1. m \in Range(t.kids[q]) <=> t.parent[m] = q
    BY DEF Good, Forest, KidsAgree
  <2>2. CASE q \in G
    <3>1. m \in Range(t.kids[q]) => m \in G
      BY <1>3, <2>1, <2>2
    <3> QED
      BY <1>7, <1>8, <2>2, <3>1
  <2>3. CASE q \notin G
    <3>1. m \in Range(f.kids[q]) <=> m \in Range(t.kids[q]) /\ m # n
      BY <1>1, <1>8, <2>3
    <3>2. m \in Range(t.kids[q]) /\ m # n => m \notin G
      BY <1>4, <2>1, <2>3
    <3> QED
      BY <1>2, <3>1, <3>2
  <2> QED
    BY <2>2, <2>3
<1>15. Good(f)
  BY <1>2, <1>3, <1>9, <1>11, <1>12, <1>13, <1>14, DropGood
<1> QED
  BY <1>12, <1>15 DEF f, G

\* The outcome o of an operation on t leaves a forest, and no handle that was
\* removed comes back.
Sound(t, o) ==
    /\ Good(o.tree)
    /\ \A m \in Node : t.phase[m] = "removed" => o.tree.phase[m] = "removed"

\* Freeing an element and lifting its children.
LEMMA DissolveSound ==
    ASSUME NEW t, Good(t), NEW n \in Container
    PROVE  Sound(t, Dissolve(t, n))
<1> DEFINE p == t.parent[n]
           k == t.kids[n]
           i == Position(t, n)
           s == t.kids[p]
           r == Splice(s, i - 1, i, k)
           f == [t EXCEPT
            !.parent = [m \in Node |->
                IF m = n THEN NoNode ELSE IF @[m] = n THEN p ELSE @[m]],
            !.kids = [m \in Node |->
                IF m = n THEN <<>>
                ELSE IF m = p THEN Splice(@[m], i - 1, i, k) ELSE @[m]],
            !.phase[n] = "removed", !.value[n] = <<>>]
<1>1. n \in Node
  BY DEF Container, Node, Normal
<1>2. /\ t.kids \in [Node -> Seq(Node)] /\ t.parent \in [Node -> Node \cup {NoNode}]
      /\ t.phase \in [Node -> Phases] /\ t.value \in [Node -> Seq(Node)]
  BY DEF Good, Tree
<1>3. p # n
  <2>1. \E m \in {n} : t.parent[m] \notin {n}
    BY DEF Good, Forest, Acyclic
  <2> QED
    BY <2>1
<1>4. k \in Seq(Node) /\ IsInjective(k)
  BY <1>1 DEF Good, Tree, Forest, KidsAgree
<1>5. <<>> \in Seq(Node) /\ IsInjective(<<>>) /\ Range(<<>>) = {}
  BY DEF IsInjective, Range
<1>6. ASSUME NEW q \in Node, NEW m \in Node
      PROVE  m \in Range(t.kids[q]) <=> t.parent[m] = q
  BY DEF Good, Forest, KidsAgree
\* The children of p afterwards, when n has a parent p.
<1>7. ASSUME p # NoNode
      PROVE  /\ p \in Node /\ r \in Seq(Node) /\ IsInjective(r)
             /\ \A m \in Node : m \in Range(r) <=> \/ t.parent[m] = n
                                                   \/ t.parent[m] = p /\ m # n
  <2>1. /\ p \in Container /\ p \in Node /\ s \in Seq(Node) /\ IsInjective(s)
        /\ i \in 1 .. Len(s) /\ s[i] = n
    BY <1>1, <1>7, PositionListed DEF Container, Node, Normal
  <2>2. i - 1 \in 0 .. Len(s) /\ i \in i - 1 .. Len(s) /\ (i - 1) + 1 .. i = {i}
        /\ i \in DOMAIN s
    BY <2>1
  <2>3. Range(k) \cap Range(s) = {}
    <3>1. ASSUME NEW x \in Range(k), x \in Range(s) PROVE FALSE
      <4>1. x \in Node
        BY <1>4, <3>1 DEF Range
      <4>2. t.parent[x] = n
        BY <1>1, <1>6, <4>1
      <4>3. t.parent[x] = p
        BY <1>6, <2>1, <3>1, <4>1
      <4> QED
        BY <1>3, <4>2, <4>3
    <3> QED
      BY <3>1
  <2> HIDE DEF s, i, k
  <2>4. r \in Seq(Node)
    BY <1>4, <2>1, <2>2, SpliceShifts
  <2>5. IsInjective(r)
    BY <1>4, <2>1, <2>2, <2>3, SpliceInjective
  <2>6. \A x : x \in Range(r) <=> \/ x \in Range(k)
                                  \/ \E l \in DOMAIN s : s[l] = x /\ l \notin (i - 1) + 1 .. i
    BY <1>4, <2>1, <2>2, SpliceMembers
  <2> HIDE DEF r
  <2>7. \A x : x \in Range(s) <=> \E l \in DOMAIN s : s[l] = x
    BY DEF Range
  <2>8. \A l \in DOMAIN s : s[l] = n => l = i
    BY <2>1, <2>2 DEF IsInjective
  <2>9. \A x : x \in Range(r) <=> \/ x \in Range(k)
                                  \/ x \in Range(s) /\ x # n
    BY <2>1, <2>2, <2>6, <2>7, <2>8
  <2>10. \A m \in Node : /\ m \in Range(k) <=> t.parent[m] = n
                         /\ m \in Range(s) <=> t.parent[m] = p
    BY <1>1, <1>6, <2>1 DEF s, k
  <2> QED
    BY <2>1, <2>4, <2>5, <2>9, <2>10
<1> DEFINE parent == [m \in Node |->
                IF m = n THEN NoNode ELSE IF t.parent[m] = n THEN p ELSE t.parent[m]]
           kids == [m \in Node |-> IF m = n THEN <<>> ELSE IF m = p THEN r ELSE t.kids[m]]
<1>8. f = [t EXCEPT !.parent = parent, !.kids = kids,
                    !.phase[n] = "removed", !.value[n] = <<>>]
  <2>1. \A m \in Node : m = p => Splice(t.kids[m], i - 1, i, k) = r
    OBVIOUS
  <2>2. [m \in Node |-> IF m = n THEN <<>>
                        ELSE IF m = p THEN Splice(t.kids[m], i - 1, i, k)
                        ELSE t.kids[m]] = kids
    BY <2>1
  <2> QED
    BY <2>2
<1>9. Dissolve(t, n) = IF p = NoNode /\ Len(k) > 1 THEN Undefined(t) ELSE Ok(f)
  BY DEF Dissolve
<1> HIDE DEF f, r, k, i, s
<1>10. parent \in [Node -> Node \cup {NoNode}] /\ kids \in [Node -> Seq(Node)]
  <2>1. p \in Node \cup {NoNode}
    BY <1>1, <1>2
  <2>2. p \in Node => r \in Seq(Node)
    BY <1>7, NoNodeIsNoNode
  <2> QED
    BY <1>2, <1>5, <2>1, <2>2
<1>11. \A m \in Node : /\ parent[m] = IF m = n THEN NoNode
                                      ELSE IF t.parent[m] = n THEN p ELSE t.parent[m]
                       /\ kids[m] = IF m = n THEN <<>> ELSE IF m = p THEN r ELSE t.kids[m]
  OBVIOUS
<1> HIDE DEF parent, kids, p
<1>12. f \in Tree
  <2> DEFINE e == <<>>
  <2>1. e \in Seq(Node) /\ f = [t EXCEPT !.parent = parent, !.kids = kids,
                                        !.phase[n] = "removed", !.value[n] = e]
    BY <1>5, <1>8
  <2> HIDE DEF e
  <2> QED
    BY <1>1, <1>10, <2>1 DEF Good, Tree, Phases
<1>13. f.parent = parent /\ f.kids = kids
       /\ f.phase = [t.phase EXCEPT ![n] = "removed"]
  BY <1>8 DEF Good, Tree
<1>14. ParentsAreContainers(f)
  <2> SUFFICES ASSUME NEW m \in Node, parent[m] # NoNode
               PROVE  /\ parent[m] \in Container /\ m \notin Documents
                      /\ m # n /\ parent[m] # n
                      /\ Live(t, m) /\ Live(t, parent[m])
    BY <1>2, <1>10, <1>13 DEF ParentsAreContainers, Live
  <2>1. m # n
    BY <1>11
  <2>2. CASE t.parent[m] = n
    <3>1. parent[m] = p /\ p # NoNode
      BY <1>11, <2>1, <2>2
    <3> QED
      BY <1>1, <1>3, <2>1, <2>2, <3>1, NoNodeIsNoNode
      DEF Good, Forest, ParentsAreContainers, p
  <2>3. CASE t.parent[m] # n
    BY <1>11, <2>1, <2>3 DEF Good, Forest, ParentsAreContainers
  <2> QED
    BY <2>2, <2>3
<1>15. KidsAgree(f)
  <2>1. ASSUME NEW q \in Node PROVE IsInjective(kids[q])
    <3>1. q = p => p # NoNode
      BY NoNodeIsNoNode
    <3> QED
      BY <1>5, <1>7, <1>11, <3>1 DEF Good, Forest, KidsAgree
  <2>2. ASSUME NEW q \in Node, NEW m \in Node
        PROVE  parent[m] = q <=> m \in Range(kids[q])
    <3>1. q # NoNode
      BY NoNodeIsNoNode
    <3>2. CASE q = n
      <4>1. kids[q] = <<>>
        BY <1>11, <3>2
      <4>2. parent[m] # q
        BY <1>3, <1>11, <3>1, <3>2
      <4> QED
        BY <1>5, <4>1, <4>2
    <3>3. CASE q = p
      <4>1. kids[q] = r
        BY <1>3, <1>11, <3>3
      <4>2. m \in Range(r) <=> \/ t.parent[m] = n
                               \/ t.parent[m] = p /\ m # n
        BY <1>7, <3>1, <3>3
      <4>3. t.parent[n] = p
        BY DEF p
      <4>4. parent[m] = q <=> m # n /\ (t.parent[m] = n \/ t.parent[m] = p)
        BY <1>11, <3>1, <3>3
      <4>5. t.parent[m] = n => m # n
        BY <1>3, <4>3
      <4> QED
        BY <4>1, <4>2, <4>4, <4>5
    <3>4. CASE q # n /\ q # p
      <4>1. kids[q] = t.kids[q]
        BY <1>11, <3>4
      <4>2. t.parent[n] # q
        BY <3>4 DEF p
      <4>3. parent[m] = q <=> t.parent[m] = q
        BY <1>11, <3>1, <3>4, <4>2
      <4> QED
        BY <1>6, <4>1, <4>3
    <3> QED
      BY <3>2, <3>3, <3>4
  <2> QED
    BY <1>13, <2>1, <2>2 DEF KidsAgree
\* With n put back, a cycle afterwards is a cycle before.
<1>16. Acyclic(f)
  <2> SUFFICES ASSUME NEW S \in SUBSET Container, S # {},
                      \A m \in S : parent[m] \in S
               PROVE  FALSE
    BY <1>13 DEF Acyclic
  <2>1. S \subseteq Node /\ NoNode \notin S
    BY NoNodeIsNoNode DEF Container, Node, Normal
  <2>2. n \notin S
    BY <1>1, <1>11, <2>1
  <2>3. \A m \in S : parent[m] = IF t.parent[m] = n THEN p ELSE t.parent[m]
    BY <1>11, <2>1, <2>2
  <2> DEFINE T == S \cup {n}
  <2>4. CASE p \in S
    <3>1. T \in SUBSET Container /\ T # {}
      OBVIOUS
    <3>2. \A m \in T : t.parent[m] \in T
      BY <2>3, <2>4 DEF p
    <3> HIDE DEF T
    <3> QED
      BY <3>1, <3>2 DEF Good, Forest, Acyclic
  <2>5. CASE p \notin S
    <3>1. \A m \in S : t.parent[m] \in S
      BY <2>3, <2>5
    <3> QED
      BY <3>1 DEF Good, Forest, Acyclic
  <2> QED
    BY <2>4, <2>5
<1>17. Good(f) /\ \A m \in Node : t.phase[m] = "removed" => f.phase[m] = "removed"
  BY <1>2, <1>12, <1>13, <1>14, <1>15, <1>16 DEF Good, Forest
<1> QED
  BY <1>9, <1>17 DEF Sound, Ok, Undefined

-----------------------------------------------------------------------------
(* The checked moves. *)

\* Moving a live node to any place under a parent that it is not above.
LEMMA MoveGood ==
    ASSUME NEW t, Good(t), NEW n \in Node \ Documents, Live(t, n),
           NEW p \in Container, Live(t, p), n \notin AncestorsOrSelf(t, p),
           NEW i \in 0 .. Len(Unlink(t, n).kids[p])
    PROVE  LET f == Link(Unlink(t, n), p, i, n)
           IN Good(f) /\ f.phase = t.phase
<1> DEFINE u == Unlink(t, n)
<1>1. Good(u) /\ u.parent = [t.parent EXCEPT ![n] = NoNode] /\ u.phase = t.phase
  BY UnlinkGood
<1>2. t.parent \in [Node -> Node \cup {NoNode}] /\ p \in Node
  BY DEF Good, Tree, Container, Node, Normal
<1>3. i \in 0 .. Len(u.kids[p])
  OBVIOUS
<1> HIDE DEF u
<1>4. u.parent[n] = NoNode /\ Live(u, n) /\ Live(u, p)
  BY <1>1, <1>2 DEF Live
<1>5. \A m \in Node : u.parent[m] \in {t.parent[m], NoNode}
  BY <1>1, <1>2
<1>6. n \notin AncestorsOrSelf(u, p)
  BY <1>2, <1>5, AncestorsShrink
<1>7. Good(Link(u, p, i, n)) /\ Link(u, p, i, n).phase = u.phase
  BY <1>1, <1>3, <1>4, <1>6, LinkGood
<1> QED
  BY <1>1, <1>7 DEF u

\* Appending keeps the arena good and changes no phase.
LEMMA CheckedAppendGood ==
    ASSUME NEW t, Good(t), NEW n \in Node \ Documents, Live(t, n),
           NEW p \in Container, Live(t, p)
    PROVE  LET o == CheckedAppend(t, p, n)
           IN Good(o.tree) /\ o.tree.phase = t.phase
<1> DEFINE u == Unlink(t, n)
           i == Len(u.kids[p])
<1>1. CASE n \in AncestorsOrSelf(t, p)
  BY <1>1 DEF CheckedAppend, Err
<1>2. CASE n \notin AncestorsOrSelf(t, p)
  <2>1. u.kids[p] \in Seq(Node)
    <3>1. Good(u)
      BY UnlinkGood
    <3> HIDE DEF u
    <3> QED
      BY <3>1 DEF Good, Tree, Container, Node, Normal
  <2>2. i \in 0 .. Len(u.kids[p])
    BY <2>1
  <2>3. CheckedAppend(t, p, n) = Ok(Link(u, p, i, n))
    BY <1>2 DEF CheckedAppend
  <2>4. Good(Link(u, p, i, n)) /\ Link(u, p, i, n).phase = t.phase
    BY <1>2, <2>2, MoveGood
  <2> QED
    BY <2>3, <2>4 DEF Ok
<1> QED
  BY <1>1, <1>2

\* Prepending keeps the arena good and changes no phase.
LEMMA CheckedPrependGood ==
    ASSUME NEW t, Good(t), NEW n \in Node \ Documents, Live(t, n),
           NEW p \in Container, Live(t, p)
    PROVE  LET o == CheckedPrepend(t, p, n)
           IN Good(o.tree) /\ o.tree.phase = t.phase
<1> DEFINE u == Unlink(t, n)
<1>1. CASE n \in AncestorsOrSelf(t, p)
  BY <1>1 DEF CheckedPrepend, Err
<1>2. CASE n \notin AncestorsOrSelf(t, p)
  <2>1. u.kids[p] \in Seq(Node)
    <3>1. Good(u)
      BY UnlinkGood
    <3> HIDE DEF u
    <3> QED
      BY <3>1 DEF Good, Tree, Container, Node, Normal
  <2>2. 0 \in 0 .. Len(u.kids[p])
    BY <2>1
  <2>3. CheckedPrepend(t, p, n) = Ok(Link(u, p, 0, n))
    BY <1>2 DEF CheckedPrepend
  <2>4. Good(Link(u, p, 0, n)) /\ Link(u, p, 0, n).phase = t.phase
    BY <1>2, <2>2, MoveGood
  <2> QED
    BY <2>3, <2>4 DEF Ok
<1> QED
  BY <1>1, <1>2

\* The reference has a parent; the outcome is undefined when n is above it.
LEMMA InsertBesideGood ==
    ASSUME NEW t, Good(t), NEW n \in Node \ Documents, Live(t, n),
           NEW r \in Node, t.parent[r] # NoNode, NEW offset \in {0, -1}
    PROVE  LET o == InsertBeside(t, r, n, offset)
           IN Good(o.tree) /\ o.tree.phase = t.phase
<1> DEFINE u == Unlink(t, n)
           p == t.parent[r]
           i == Position(u, r) + offset
<1>1. CASE n = r \/ n \in Ancestors(t, r)
  BY <1>1 DEF InsertBeside, Err, Undefined
<1>2. CASE n # r /\ n \notin Ancestors(t, r)
  <2>1. p \in Container /\ Live(t, p)
    BY DEF Good, Forest, ParentsAreContainers
  <2>2. n \notin AncestorsOrSelf(t, p)
    BY <1>2, <2>1, AncestorsStep
  <2>3. Good(u) /\ u.parent[r] = p
    <3>1. Good(u) /\ u.parent = [t.parent EXCEPT ![n] = NoNode]
      BY UnlinkGood
    <3> HIDE DEF u
    <3> QED
      BY <1>2, <3>1 DEF Good, Tree
  <2>4. /\ u.kids[p] \in Seq(Node)
        /\ Position(u, r) \in 1 .. Len(u.kids[p])
    BY <2>3, PositionListed
  <2>5. i \in 0 .. Len(u.kids[p])
    BY <2>4
  <2>6. InsertBeside(t, r, n, offset) = Ok(Link(u, p, i, n))
    BY <1>2, <2>3 DEF InsertBeside
  <2>7. Good(Link(u, p, i, n)) /\ Link(u, p, i, n).phase = t.phase
    BY <2>1, <2>2, <2>5, MoveGood
  <2> QED
    BY <2>6, <2>7 DEF Ok
<1> QED
  BY <1>1, <1>2

-----------------------------------------------------------------------------
(* Counting. *)

LessThan == {ss \in Nat \X Nat : ss[1] < ss[2]}

\* A nonempty set of natural numbers has a least member.
LEMMA Least ==
    ASSUME NEW T \in SUBSET Nat, T # {}
    PROVE  \E x \in T : \A y \in T : x <= y
<1>1. IsWellFoundedOn(LessThan, Nat)
  BY NatLessThanWellFounded DEF OpToRel, LessThan
<1>2. PICK x \in T : \A y \in T : ~ (<<y, x>> \in LessThan)
  BY <1>1, WFMin
<1>3. \A y \in T : ~(y < x)
  BY <1>2 DEF LessThan
<1> QED
  BY <1>2, <1>3

\* The functions that take N steps in X.
StepsIn(N, X) == [1 .. N -> [X -> X]]

\* A function that is defined step by step exists.
LEMMA Iteration ==
    ASSUME NEW N \in Nat, NEW X, NEW b \in X, NEW F \in StepsIn(N, X)
    PROVE  \E g \in [0 .. N -> X] :
              g[0] = b /\ \A i \in 1 .. N : g[i - 1] \in X /\ g[i] = F[i][g[i - 1]]
<1> DEFINE Reaches(k) == \E h \in [0 .. k -> X] :
                            h[0] = b /\ \A i \in 1 .. k : h[i] = F[i][h[i - 1]]
           Missed == {k \in 0 .. N : ~Reaches(k)}
<1>0. F \in [1 .. N -> [X -> X]]
  BY DEF StepsIn
<1>1. Reaches(0)
  <2> DEFINE h == [i \in 0 .. 0 |-> b]
  <2>1. h \in [0 .. 0 -> X] /\ h[0] = b
    OBVIOUS
  <2>2. \A i \in 1 .. 0 : h[i] = F[i][h[i - 1]]
    OBVIOUS
  <2> QED
    BY <2>1, <2>2
<1>2. ASSUME NEW k \in 1 .. N, Reaches(k - 1) PROVE Reaches(k)
  <2>1. PICK h \in [0 .. k - 1 -> X] :
          h[0] = b /\ \A i \in 1 .. k - 1 : h[i] = F[i][h[i - 1]]
    BY <1>2
  <2> DEFINE hh == [i \in 0 .. k |-> IF i = k THEN F[k][h[k - 1]] ELSE h[i]]
  <2>2. k - 1 \in 0 .. k - 1 /\ h[k - 1] \in X /\ F[k][h[k - 1]] \in X
    BY <1>0
  <2>3. hh \in [0 .. k -> X]
    BY <2>2
  <2>4. hh[0] = b
    BY <2>1
  <2>5. ASSUME NEW i \in 1 .. k PROVE hh[i] = F[i][hh[i - 1]]
    <3>1. hh[i - 1] = h[i - 1]
      OBVIOUS
    <3>2. CASE i = k
      <4>1. hh[k] = F[k][h[k - 1]]
        OBVIOUS
      <4> HIDE DEF hh
      <4> QED
        BY <3>1, <3>2, <4>1
    <3>3. CASE i # k
      <4>1. i \in 1 .. k - 1 /\ hh[i] = h[i]
        BY <3>3
      <4> QED
        BY <2>1, <3>1, <4>1
    <3> QED
      BY <3>2, <3>3
  <2> HIDE DEF hh
  <2> QED
    BY <2>3, <2>4, <2>5
<1>3. Missed = {}
  <2> HIDE DEF Reaches
  <2>1. SUFFICES ASSUME Missed # {} PROVE FALSE
    OBVIOUS
  <2>2. PICK k \in Missed : \A j \in Missed : k <= j
    <3>1. Missed \in SUBSET Nat
      OBVIOUS
    <3> HIDE DEF Missed
    <3> QED
      BY <2>1, <3>1, Least
  <2>3. k \in 1 .. N /\ k - 1 \in 0 .. N
    BY <1>1
  <2>4. k - 1 \notin Missed
    BY <2>2, <2>3
  <2> QED
    BY <1>2, <2>3, <2>4
<1>4. Reaches(N)
  <2> HIDE DEF Reaches
  <2> QED
    BY <1>3
<1>5. PICK g \in [0 .. N -> X] : g[0] = b /\ \A i \in 1 .. N : g[i] = F[i][g[i - 1]]
  BY <1>4
<1>6. \A i \in 1 .. N : g[i - 1] \in X
  OBVIOUS
<1> QED
  BY <1>5, <1>6

\* What holds at the start and is kept by every step holds at the end.
LEMMA Counting ==
    ASSUME NEW N \in Nat, NEW T, 0 \in T,
           \A k \in 1 .. N : k - 1 \in T => k \in T
    PROVE  \A k \in 0 .. N : k \in T
<1> DEFINE Missed == (0 .. N) \ T
<1>1. SUFFICES ASSUME Missed # {} PROVE FALSE
  OBVIOUS
<1>2. PICK k \in Missed : \A j \in Missed : k <= j
  <2>1. Missed \in SUBSET Nat
    OBVIOUS
  <2> HIDE DEF Missed
  <2> QED
    BY <1>1, <2>1, Least
<1>3. k - 1 \in 0 .. N /\ k \in 1 .. N /\ k - 1 \notin Missed
  BY <1>2
<1> QED
  BY <1>3

-----------------------------------------------------------------------------
(* Navigation. *)

\* Leading counts the members of K at the front of a sequence.
LEMMA LeadingPrefix ==
    ASSUME NEW S, NEW s \in Seq(S), NEW K
    PROVE  /\ Leading(s, K) \in 0 .. Len(s)
           /\ \A i \in 1 .. Leading(s, K) : s[i] \in K
           /\ Leading(s, K) < Len(s) => s[Leading(s, K) + 1] \notin K
<1>1. Len(s) \in Nat
  OBVIOUS
<1>2. \E k \in 0 .. Len(s) : /\ \A i \in 1 .. k : s[i] \in K
                             /\ k < Len(s) => s[k + 1] \notin K
  <2> DEFINE T == {i \in 1 .. Len(s) : s[i] \notin K}
  <2>1. CASE T = {}
    <3>1. /\ Len(s) \in 0 .. Len(s)
          /\ \A i \in 1 .. Len(s) : s[i] \in K
          /\ Len(s) < Len(s) => s[Len(s) + 1] \notin K
      BY <1>1, <2>1
    <3> QED
      BY <3>1
  <2>2. CASE T # {}
    <3>1. PICK x \in T : \A y \in T : x <= y
      <4>1. T \in SUBSET Nat
        BY <1>1
      <4> HIDE DEF T
      <4> QED
        BY <2>2, <4>1, Least
    <3>2. x \in 1 .. Len(s) /\ s[x] \notin K /\ x - 1 \in 0 .. Len(s) /\ (x - 1) + 1 = x
      BY <1>1
    <3>3. ASSUME NEW i \in 1 .. x - 1 PROVE s[i] \in K
      <4>1. i \in 1 .. Len(s) /\ ~(x <= i)
        BY <1>1, <3>2
      <4> QED
        BY <3>1, <4>1
    <3> QED
      BY <3>2, <3>3
  <2> QED
    BY <2>1, <2>2
<1> QED
  BY <1>2 DEF Leading

\* A sibling is a node, and not the node itself.
LEMMA NeighbourIsOther ==
    ASSUME NEW t, Good(t), NEW n \in Node, NEW offset \in {1, -1}
    PROVE  Neighbour(t, n, offset) \in (Node \ {n}) \cup {NoNode}
<1>1. CASE t.parent[n] = NoNode
  BY <1>1 DEF Neighbour
<1>2. CASE t.parent[n] # NoNode
  <2> DEFINE s == t.kids[t.parent[n]]
             i == Position(t, n)
  <2>1. s \in Seq(Node) /\ IsInjective(s) /\ i \in 1 .. Len(s) /\ s[i] = n
    BY <1>2, PositionListed
  <2>2. Neighbour(t, n, offset) =
          IF i + offset \in DOMAIN s /\ SameCategory(s[i + offset], n)
          THEN s[i + offset] ELSE NoNode
    BY <1>2 DEF Neighbour
  <2> HIDE DEF s, i
  <2>3. i \in DOMAIN s /\ i + offset # i
    BY <2>1
  <2>4. i + offset \in DOMAIN s => s[i + offset] \in Node \ {n}
    BY <2>1, <2>3 DEF IsInjective
  <2> QED
    BY <2>2, <2>4
<1> QED
  BY <1>1, <1>2

\* The leading children of a category, and nothing else, come before the rest.
LEMMA AbnormalChildrenListed ==
    ASSUME NEW t, Good(t), NEW p \in Node, AbnormalChildren(t, p) # <<>>
    PROVE  LET r == Last(AbnormalChildren(t, p)) IN r \in Node /\ t.parent[r] = p
<1> DEFINE s == t.kids[p]
           k == Leading(s, Abnormal)
           a == SubSeq(s, 1, k)
<1>1. s \in Seq(Node)
  BY DEF Good, Tree
<1>2. AbnormalChildren(t, p) = a
  BY DEF AbnormalChildren
<1>3. \A i \in DOMAIN s : s[i] \in Node /\ t.parent[s[i]] = p
  BY ParentsHaveKids
<1> HIDE DEF s
<1>4. k \in 0 .. Len(s)
  BY <1>1, LeadingPrefix
<1> HIDE DEF k
<1>5. a \in Seq(Node) /\ Len(a) = k
  BY <1>1, <1>4
<1>6. \A i \in 1 .. k : a[i] = s[i]
  BY <1>1, <1>4
<1> HIDE DEF a
<1>7. Len(a) # 0
  BY <1>2, <1>5
<1>8. Last(a) = s[k] /\ k \in DOMAIN s
  BY <1>1, <1>4, <1>5, <1>6, <1>7 DEF Last
<1> QED
  BY <1>2, <1>3, <1>8

-----------------------------------------------------------------------------
(* Consolidation. *)

\* u is t but for the text node x, which may have been freed.
SameBut(t, u, x) ==
    /\ Good(u)
    /\ \A m \in Node : \/ u.phase[m] = t.phase[m] /\ u.parent[m] = t.parent[m]
                       \/ m = x /\ m \in Texts /\ u.phase[m] = "removed"

\* A merge keeps the arena good and frees the merged node only.
LEMMA AbsorbFrees ==
    ASSUME NEW t, Good(t), NEW n \in Texts, NEW m \in Texts, NEW s \in Seq(Node)
    PROVE  SameBut(t, Absorb(t, n, s, m), m)
<1> DEFINE u == [t EXCEPT !.value[n] = s]
           f == Free(u, m)
<1>1. n \in Node /\ m \in Node \ Container
  BY KindsAreDisjoint DEF Container, Node, Normal
<1>2. Good(u) /\ u.phase = t.phase /\ u.parent = t.parent
  BY <1>1, ValueGood
<1>3. Absorb(t, n, s, m) = f
  BY DEF Absorb
<1> HIDE DEF u
<1>4. /\ Good(f) /\ f.phase = [u.phase EXCEPT ![m] = "removed"]
      /\ f.parent = [u.parent EXCEPT ![m] = NoNode]
  BY <1>1, <1>2, FreeGood
<1>5. t.phase \in [Node -> Phases] /\ t.parent \in [Node -> Node \cup {NoNode}]
  BY DEF Good, Tree
<1> HIDE DEF f
<1> QED
  BY <1>2, <1>3, <1>4, <1>5 DEF SameBut

\* Merging the neighbours of a node frees at most the one behind it.
LEMMA RemoveConsolidateFrees ==
    ASSUME NEW t, Good(t), NEW prev, NEW next
    PROVE  SameBut(t, RemoveConsolidate(t, prev, next).tree, next)
<1>1. CASE t.consolidate /\ prev \in Texts /\ next \in Texts
  <2> DEFINE s == t.value[prev] \o t.value[next]
  <2>1. t.value[prev] \in Seq(Node) /\ t.value[next] \in Seq(Node)
    BY <1>1 DEF Good, Tree, Node, Normal
  <2>2. s \in Seq(Node)
    BY <2>1
  <2>3. RemoveConsolidate(t, prev, next).tree = Absorb(t, prev, s, next)
    BY <1>1 DEF RemoveConsolidate
  <2> HIDE DEF s
  <2> QED
    BY <1>1, <2>2, <2>3, AbsorbFrees
<1>2. CASE ~(t.consolidate /\ prev \in Texts /\ next \in Texts)
  BY <1>2 DEF RemoveConsolidate, SameBut
<1> QED
  BY <1>1, <1>2

\* Merging a text node into a neighbour frees at most that text node.
LEMMA AddConsolidateFrees ==
    ASSUME NEW t, Good(t), NEW n, NEW prev, NEW next
    PROVE  SameBut(t, AddConsolidate(t, n, prev, next).tree, n)
<1> DEFINE a == AddConsolidate(t, n, prev, next)
<1>1. CASE ~t.consolidate \/ n \notin Texts
  BY <1>1 DEF AddConsolidate, SameBut
<1>2. CASE t.consolidate /\ n \in Texts /\ prev \in Texts
  <2> DEFINE s == t.value[prev] \o t.value[n]
  <2>1. t.value[prev] \in Seq(Node) /\ t.value[n] \in Seq(Node)
    BY <1>2 DEF Good, Tree, Node, Normal
  <2>2. s \in Seq(Node)
    BY <2>1
  <2>3. a.tree = Absorb(t, prev, s, n)
    BY <1>2 DEF AddConsolidate
  <2> HIDE DEF s, a
  <2>4. SameBut(t, Absorb(t, prev, s, n), n)
    BY <1>2, <2>2, AbsorbFrees
  <2> QED
    BY <2>3, <2>4 DEF a
<1>3. CASE t.consolidate /\ n \in Texts /\ prev \notin Texts /\ next \in Texts
  <2> DEFINE s == t.value[n] \o t.value[next]
  <2>1. t.value[next] \in Seq(Node) /\ t.value[n] \in Seq(Node)
    BY <1>3 DEF Good, Tree, Node, Normal
  <2>2. s \in Seq(Node)
    BY <2>1
  <2>3. a.tree = Absorb(t, next, s, n)
    BY <1>3 DEF AddConsolidate
  <2> HIDE DEF s, a
  <2>4. SameBut(t, Absorb(t, next, s, n), n)
    BY <1>3, <2>2, AbsorbFrees
  <2> QED
    BY <2>3, <2>4 DEF a
<1>4. CASE t.consolidate /\ n \in Texts /\ prev \notin Texts /\ next \notin Texts
  BY <1>4 DEF AddConsolidate, SameBut
<1> QED
  BY <1>1, <1>2, <1>3, <1>4

\* The node that is about to move survives the merge of its neighbours.
LEMMA LeaveNeighboursKeeps ==
    ASSUME NEW t, Good(t), NEW n \in Node
    PROVE  LET u == LeaveNeighbours(t, n)
           IN /\ SameBut(t, u, NextSibling(t, n))
              /\ u.phase[n] = t.phase[n]
              /\ \A p \in Container : u.phase[p] = t.phase[p]
<1> DEFINE u == LeaveNeighbours(t, n)
           x == NextSibling(t, n)
<1>1. SameBut(t, u, x)
  BY RemoveConsolidateFrees DEF LeaveNeighbours
<1>2. x # n
  BY NeighbourIsOther, NoNodeIsNoNode DEF NextSibling
<1>3. \A p \in Container : p \in Node /\ p \notin Texts
  BY KindsAreDisjoint DEF Container, Node, Normal
<1> HIDE DEF u, x
<1>4. u.phase[n] = t.phase[n] /\ \A p \in Container : u.phase[p] = t.phase[p]
  BY <1>1, <1>2, <1>3 DEF SameBut
<1> QED
  BY <1>1, <1>4 DEF u, x

-----------------------------------------------------------------------------
(* Moves: only text nodes are freed. *)

Moved(t, u) ==
    /\ Good(u)
    /\ \A m \in Node : \/ u.phase[m] = t.phase[m]
                       \/ u.phase[m] = "removed" /\ m \in Texts

\* The structure check lets only normal nodes under containers.
LEMMA MayBeChildKinds ==
    ASSUME NEW p, NEW n, MayBeChild(p, n)
    PROVE  p \in Container /\ n \in Node \ Documents
  BY DEF MayBeChild, Node

\* A tree that differs only in freed text nodes is what a move may leave.
LEMMA SameButMoves ==
    ASSUME NEW t, NEW u, NEW x, NEW v, NEW y, SameBut(t, u, x), SameBut(u, v, y)
    PROVE  Moved(t, u) /\ Moved(t, v)
  BY DEF SameBut, Moved

\* append keeps the arena good, whatever nodes it is given.
LEMMA AppendNodeMoves ==
    ASSUME NEW t, Good(t), NEW p \in Node, NEW n \in Node, Live(t, p), Live(t, n)
    PROVE  Moved(t, AppendNode(t, p, n).tree)
<1> DEFINE u == LeaveNeighbours(t, n)
           a == AddConsolidate(u, n, LastChild(u, p), NoNode)
<1>1. CASE ~MayBeChild(p, n)
  BY <1>1 DEF AppendNode, Err, Moved
<1>2. CASE MayBeChild(p, n)
  <2>1. p \in Container /\ n \in Node \ Documents
    BY <1>2, MayBeChildKinds
  <2>2. /\ SameBut(t, u, NextSibling(t, n)) /\ Good(u)
        /\ Live(u, n) /\ Live(u, p)
    BY <2>1, LeaveNeighboursKeeps DEF SameBut, Live
  <2>3. SameBut(u, a.tree, n)
    BY <2>2, AddConsolidateFrees
  <2>4. AppendNode(t, p, n).tree = a.tree \/ AppendNode(t, p, n) = CheckedAppend(u, p, n)
    BY <1>2 DEF AppendNode, Ok
  <2> HIDE DEF a, u
  <2>5. Moved(t, a.tree) /\ Moved(t, u)
    BY <2>2, <2>3, SameButMoves
  <2>6. Good(CheckedAppend(u, p, n).tree) /\ CheckedAppend(u, p, n).tree.phase = u.phase
    BY <2>1, <2>2, CheckedAppendGood
  <2>7. Moved(t, CheckedAppend(u, p, n).tree)
    BY <2>5, <2>6 DEF Moved
  <2> QED
    BY <2>4, <2>5, <2>7
<1> QED
  BY <1>1, <1>2

\* prepend keeps the arena good, whatever nodes it is given.
LEMMA PrependNodeMoves ==
    ASSUME NEW t, Good(t), NEW p \in Node, NEW n \in Node, Live(t, p), Live(t, n)
    PROVE  Moved(t, PrependNode(t, p, n).tree)
<1> DEFINE u == LeaveNeighbours(t, n)
           a == AddConsolidate(u, n, NoNode, FirstChild(u, p))
           r == Last(AbnormalChildren(u, p))
<1>1. CASE ~MayBeChild(p, n)
  BY <1>1 DEF PrependNode, Err, Moved
<1>2. CASE MayBeChild(p, n)
  <2>1. p \in Container /\ n \in Node \ Documents
    BY <1>2, MayBeChildKinds
  <2>2. /\ SameBut(t, u, NextSibling(t, n)) /\ Good(u)
        /\ Live(u, n) /\ Live(u, p)
    BY <2>1, LeaveNeighboursKeeps DEF SameBut, Live
  <2>3. SameBut(u, a.tree, n)
    BY <2>2, AddConsolidateFrees
  <2>4. \/ PrependNode(t, p, n).tree = a.tree
        \/ /\ AbnormalChildren(u, p) # <<>>
           /\ PrependNode(t, p, n) = InsertBeside(u, r, n, 0)
        \/ PrependNode(t, p, n) = CheckedPrepend(u, p, n)
    BY <1>2 DEF PrependNode, Ok, CheckedInsertAfter
  <2> HIDE DEF a, u
  <2>5. Moved(t, a.tree) /\ Moved(t, u)
    BY <2>2, <2>3, SameButMoves
  <2>6. Good(CheckedPrepend(u, p, n).tree) /\ CheckedPrepend(u, p, n).tree.phase = u.phase
    BY <2>1, <2>2, CheckedPrependGood
  <2>7. Moved(t, CheckedPrepend(u, p, n).tree)
    BY <2>5, <2>6 DEF Moved
  <2>8. ASSUME AbnormalChildren(u, p) # <<>>
        PROVE  Moved(t, InsertBeside(u, r, n, 0).tree)
    <3>1. r \in Node /\ u.parent[r] = p
      BY <2>2, <2>8, AbnormalChildrenListed
    <3>2. u.parent[r] # NoNode
      BY <3>1, NoNodeIsNoNode
    <3> HIDE DEF r
    <3>3. LET o == InsertBeside(u, r, n, 0) IN Good(o.tree) /\ o.tree.phase = u.phase
      BY <2>1, <2>2, <3>1, <3>2, InsertBesideGood
    <3> QED
      BY <2>5, <3>3 DEF Moved
  <2> QED
    BY <2>4, <2>5, <2>7, <2>8
<1> QED
  BY <1>1, <1>2

\* insert_after and insert_before alike: a reference that is still live after
\* the merge still has its parent.
LEMMA InsertMoves ==
    ASSUME NEW t, Good(t), NEW r \in Node, NEW n \in Node, Live(t, n),
           MayBeChild(t.parent[r], n), NEW offset \in {0, -1}
    PROVE  LET u == LeaveNeighbours(t, n)
           IN /\ Good(u) /\ Moved(t, u)
              /\ Live(u, r) => Moved(t, InsertBeside(u, r, n, offset).tree)
              /\ \A prev, next : Moved(t, AddConsolidate(u, n, prev, next).tree)
<1> DEFINE u == LeaveNeighbours(t, n)
<1>1. t.parent[r] \in Container /\ n \in Node \ Documents
  BY MayBeChildKinds
<1>2. /\ SameBut(t, u, NextSibling(t, n)) /\ Good(u) /\ Live(u, n)
  BY LeaveNeighboursKeeps DEF SameBut, Live
<1> HIDE DEF u
<1>3. ASSUME NEW prev, NEW next
      PROVE  Moved(t, u) /\ Moved(t, AddConsolidate(u, n, prev, next).tree)
  BY <1>2, AddConsolidateFrees, SameButMoves
<1>4. ASSUME Live(u, r) PROVE Moved(t, InsertBeside(u, r, n, offset).tree)
  <2>1. u.parent[r] = t.parent[r]
    BY <1>2, <1>4 DEF SameBut, Live
  <2>2. u.parent[r] # NoNode
    BY <1>1, <2>1, NoNodeIsNoNode DEF Container, Node, Normal
  <2>3. LET o == InsertBeside(u, r, n, offset) IN Good(o.tree) /\ o.tree.phase = u.phase
    BY <1>1, <1>2, <2>2, InsertBesideGood
  <2> QED
    BY <1>3, <2>3 DEF Moved
<1> QED
  BY <1>2, <1>3, <1>4 DEF u

\* insert_after keeps the arena good, whatever nodes it is given.
LEMMA InsertAfterMoves ==
    ASSUME NEW t, Good(t), NEW r \in Node, NEW n \in Node, Live(t, n)
    PROVE  Moved(t, InsertAfter(t, r, n).tree)
<1> DEFINE u == LeaveNeighbours(t, n)
           o == InsertBeside(u, r, n, 0)
           a == AddConsolidate(u, n, r, NextSibling(u, r))
<1>1. CASE ~MayBeChild(t.parent[r], n)
  BY <1>1 DEF InsertAfter, Err, Moved
<1>2. CASE MayBeChild(t.parent[r], n)
  <2>1. /\ Moved(t, u) /\ Moved(t, a.tree)
        /\ Live(u, r) => Moved(t, o.tree)
    BY <1>2, InsertMoves
  <2>2. \/ InsertAfter(t, r, n).tree = u
        \/ InsertAfter(t, r, n).tree = a.tree
        \/ Live(u, r) /\ InsertAfter(t, r, n) = o
    BY <1>2 DEF InsertAfter, Ok, Panic, CheckedInsertAfter
  <2> HIDE DEF u, o, a
  <2> QED
    BY <2>1, <2>2
<1> QED
  BY <1>1, <1>2

\* insert_before keeps the arena good, whatever nodes it is given.
LEMMA InsertBeforeMoves ==
    ASSUME NEW t, Good(t), NEW r \in Node, NEW n \in Node, Live(t, n)
    PROVE  Moved(t, InsertBefore(t, r, n).tree)
<1> DEFINE u == LeaveNeighbours(t, n)
           o == InsertBeside(u, r, n, -1)
           a == AddConsolidate(u, n, PreviousSibling(u, r), r)
<1>1. CASE ~MayBeChild(t.parent[r], n)
  BY <1>1 DEF InsertBefore, Err, Moved
<1>2. CASE MayBeChild(t.parent[r], n)
  <2>1. /\ Moved(t, u) /\ Moved(t, a.tree)
        /\ Live(u, r) => Moved(t, o.tree)
    BY <1>2, InsertMoves
  <2>2. \/ InsertBefore(t, r, n).tree = u
        \/ InsertBefore(t, r, n).tree = a.tree
        \/ Live(u, r) /\ InsertBefore(t, r, n) = o
    BY <1>2 DEF InsertBefore, Ok, Panic, CheckedInsertBefore
  <2> HIDE DEF u, o, a
  <2> QED
    BY <2>1, <2>2
<1> QED
  BY <1>1, <1>2

\* What moves is sound.
LEMMA MovedSound ==
    ASSUME NEW t, NEW o, Moved(t, o.tree)
    PROVE  Sound(t, o)
  BY DEF Moved, Sound

-----------------------------------------------------------------------------
(* Taking nodes out, and the calls built from several of these. *)

\* detach is sound.
LEMMA DetachNodeSound ==
    ASSUME NEW t, Good(t), NEW n \in Node
    PROVE  Sound(t, DetachNode(t, n))
<1> DEFINE u == Unlink(t, n)
           f == RemoveConsolidate(u, PreviousSibling(t, n), NextSibling(t, n)).tree
<1>1. Good(u) /\ u.phase = t.phase
  BY UnlinkGood
<1>2. DetachNode(t, n).tree = f
  BY DEF DetachNode, Ok
<1> HIDE DEF u
<1>3. SameBut(u, f, NextSibling(t, n))
  BY <1>1, RemoveConsolidateFrees
<1> HIDE DEF f
<1> QED
  BY <1>1, <1>2, <1>3 DEF Sound, SameBut

\* remove is sound.
LEMMA RemoveNodeSound ==
    ASSUME NEW t, Good(t), NEW n \in Node
    PROVE  Sound(t, RemoveNode(t, n))
<1> DEFINE u == RemoveSubtree(t, n)
           f == RemoveConsolidate(u, PreviousSibling(t, n), NextSibling(t, n)).tree
<1>1. /\ Good(u)
      /\ \A m \in Node : u.phase[m] = IF m \in Subtree(t, n) THEN "removed"
                                      ELSE t.phase[m]
  BY RemoveSubtreeGood
<1>2. RemoveNode(t, n).tree = f
  BY DEF RemoveNode, Ok
<1> HIDE DEF u
<1>3. SameBut(u, f, NextSibling(t, n))
  BY <1>1, RemoveConsolidateFrees
<1> HIDE DEF f
<1> QED
  BY <1>1, <1>2, <1>3 DEF Sound, SameBut

\* Freeing an element but not its content is sound.
LEMMA RemoveElementSound ==
    ASSUME NEW t, Good(t), NEW n \in Elements
    PROVE  Sound(t, RemoveElement(t, n))
<1> DEFINE s == t.kids[n]
           k == Leading(s, Abnormal)
           u == FreeRun(t, n, 0, k)
<1>1. n \in Node /\ n \in Container
  BY DEF Container, Node, Normal
<1>2. s \in Seq(Node)
  BY <1>1 DEF Good, Tree
<1>3. k \in 0 .. Len(s) /\ \A i \in 1 .. k : s[i] \in Abnormal
  <2> HIDE DEF s
  <2> QED
    BY <1>2, LeadingPrefix
<1>4. Abnormal \cap Container = {}
  BY KindsAreDisjoint DEF Abnormal, Container
<1>5. RemoveElement(t, n) = Dissolve(u, n)
  BY DEF RemoveElement
<1> HIDE DEF k
<1>6. 0 \in 0 .. Len(s) /\ \A i \in 0 + 1 .. k : s[i] \notin Container
  BY <1>2, <1>3, <1>4
<1>7. /\ Good(u)
      /\ \A m \in Node : \/ u.phase[m] = t.phase[m]
                         \/ u.phase[m] = "removed" /\ m \notin Container
  BY <1>1, <1>3, <1>6, FreeRunGood
<1> HIDE DEF u
<1>8. Sound(u, Dissolve(u, n))
  BY <1>1, <1>7, DissolveSound
<1> QED
  BY <1>5, <1>7, <1>8 DEF Sound

\* element_unwrap is sound.
LEMMA ElementUnwrapSound ==
    ASSUME NEW t, Good(t), NEW n \in Node
    PROVE  Sound(t, ElementUnwrap(t, n))
<1> DEFINE first == FirstChild(t, n)
           last  == LastChild(t, n)
           r     == RemoveElement(t, n)
           prev  == PreviousSibling(r.tree, first)
           next  == NextSibling(r.tree, last)
           a     == RemoveConsolidate(r.tree, prev, first)
           b     == IF a.merged /\ first = last
                    THEN RemoveConsolidate(a.tree, prev, next)
                    ELSE RemoveConsolidate(a.tree, last, NextSibling(a.tree, last))
<1>1. \/ ElementUnwrap(t, n).tree = t
      \/ ElementUnwrap(t, n) = RemoveNode(t, n)
      \/ n \in Elements /\ ElementUnwrap(t, n) = r
      \/ n \in Elements /\ ElementUnwrap(t, n).tree = b.tree
  BY DEF ElementUnwrap, Ok, Err, Panic
<1>2. CASE ElementUnwrap(t, n).tree = t
  BY <1>2 DEF Sound
<1>3. CASE ElementUnwrap(t, n) = RemoveNode(t, n)
  BY <1>3, RemoveNodeSound
<1>4. CASE n \in Elements /\ ElementUnwrap(t, n) = r
  BY <1>4, RemoveElementSound
<1>5. CASE n \in Elements /\ ElementUnwrap(t, n).tree = b.tree
  <2>1. Sound(t, r)
    BY <1>5, RemoveElementSound
  <2> DEFINE y == r.tree
  <2>2. Good(y) /\ \A m \in Node : t.phase[m] = "removed" => y.phase[m] = "removed"
    BY <2>1 DEF Sound
  <2>3. SameBut(y, a.tree, first)
    BY <2>2, RemoveConsolidateFrees
  <2> DEFINE z == a.tree
  <2>4. Good(z) /\ \A m \in Node : t.phase[m] = "removed" => z.phase[m] = "removed"
    <3> HIDE DEF y, z
    <3> QED
      BY <2>2, <2>3 DEF SameBut, z
  <2>5. \/ SameBut(z, b.tree, next)
        \/ SameBut(z, b.tree, NextSibling(z, last))
    BY <2>4, RemoveConsolidateFrees
  <2> HIDE DEF z, b
  <2>6. Good(b.tree) /\ \A m \in Node : t.phase[m] = "removed" => b.tree.phase[m] = "removed"
    BY <2>4, <2>5 DEF SameBut
  <2> QED
    BY <1>5, <2>6 DEF Sound
<1> HIDE DEF b, r
<1> QED
  BY <1>1, <1>2, <1>3, <1>4, <1>5

\* The wrapper is new, so that the wrapped node can go under it; neither the
\* wrapper nor the old parent is a text node, so that both survive the append.
LEMMA ElementWrapSound ==
    ASSUME NEW t, Good(t), NEW n \in Node, Live(t, n),
           NEW w \in Elements, t.phase[w] = "fresh"
    PROVE  Sound(t, ElementWrap(t, n, w))
<1> DEFINE p    == t.parent[n]
           prev == PreviousSibling(t, n)
           v    == NewNode(t, w)
           u    == Unlink(v, n)
           a    == AppendNode(u, w, n)
           z    == a.tree
<1>1. /\ w \in Node /\ w \notin Texts /\ w # n
      /\ \A q \in Container : q \in Node /\ q \notin Texts
  BY KindsAreDisjoint DEF Node, Normal, Container, Live
<1>2. /\ Good(v) /\ v.phase = [t.phase EXCEPT ![w] = "live"]
  BY <1>1, NewNodeGood
<1>3. t.phase \in [Node -> Phases]
  BY DEF Good, Tree
<1>4. Good(u) /\ u.phase = v.phase
  <2> HIDE DEF v
  <2> QED
    BY <1>2, UnlinkGood
<1> HIDE DEF u, v
<1>5. \A m \in Node : u.phase[m] = IF m = w THEN "live" ELSE t.phase[m]
  BY <1>2, <1>3, <1>4
<1>6. Live(u, w) /\ Live(u, n)
  BY <1>1, <1>5 DEF Live
<1>7. Moved(u, z)
  BY <1>1, <1>4, <1>6, AppendNodeMoves
<1>8. Good(z) /\ \A m \in Node : t.phase[m] = "removed" => z.phase[m] = "removed"
  BY <1>5, <1>7 DEF Moved
<1>9. Live(z, w)
  BY <1>1, <1>5, <1>7 DEF Moved, Live
<1>10. \/ ElementWrap(t, n, w).tree = t
       \/ ElementWrap(t, n, w).tree = z
       \/ prev # NoNode /\ ElementWrap(t, n, w) = InsertAfter(z, prev, w)
       \/ p # NoNode /\ ElementWrap(t, n, w) = PrependNode(z, p, w)
  BY DEF ElementWrap, Err, u, v
<1> HIDE DEF z, a
<1>11. CASE ElementWrap(t, n, w).tree \in {t, z}
  BY <1>8, <1>11 DEF Sound
<1>12. CASE prev # NoNode /\ ElementWrap(t, n, w) = InsertAfter(z, prev, w)
  <2>1. prev \in Node
    BY <1>12, NeighbourIsOther DEF PreviousSibling
  <2> HIDE DEF prev
  <2>2. Moved(z, InsertAfter(z, prev, w).tree)
    BY <1>1, <1>8, <1>9, <2>1, InsertAfterMoves
  <2> QED
    BY <1>8, <1>12, <2>2 DEF Sound, Moved
<1>13. CASE p # NoNode /\ ElementWrap(t, n, w) = PrependNode(z, p, w)
  <2>1. p \in Container /\ Live(t, p)
    BY <1>13 DEF Good, Forest, ParentsAreContainers
  <2> HIDE DEF p
  <2>2. p \in Node /\ Live(z, p)
    BY <1>1, <1>5, <1>7, <2>1 DEF Moved, Live
  <2>3. Moved(z, PrependNode(z, p, w).tree)
    BY <1>1, <1>8, <1>9, <2>2, PrependNodeMoves
  <2> QED
    BY <1>8, <1>13, <2>3 DEF Sound, Moved
<1> QED
  BY <1>10, <1>11, <1>12, <1>13

\* The parent of the replaced node is not in the subtree that is removed.
LEMMA ReplaceSound ==
    ASSUME NEW t, Good(t), NEW n \in Node, NEW m \in Node
    PROVE  Sound(t, Replace(t, n, m))
<1> DEFINE p    == t.parent[n]
           prev == PreviousSibling(t, n)
           u    == RemoveSubtree(t, n)
<1>1. /\ Good(u)
      /\ \A x \in Node : u.phase[x] = IF x \in Subtree(t, n) THEN "removed"
                                      ELSE t.phase[x]
  BY RemoveSubtreeGood
<1>2. \/ Replace(t, n, m).tree \in {t, u}
      \/ Live(u, m) /\ prev # NoNode /\ Replace(t, n, m) = InsertAfter(u, prev, m)
      \/ Live(u, m) /\ p # NoNode /\ Replace(t, n, m) = PrependNode(u, p, m)
  BY DEF Replace, Err, Panic
<1> HIDE DEF u
<1>3. CASE Replace(t, n, m).tree \in {t, u}
  BY <1>1, <1>3 DEF Sound
<1>4. CASE Live(u, m) /\ prev # NoNode /\ Replace(t, n, m) = InsertAfter(u, prev, m)
  <2>1. prev \in Node
    BY <1>4, NeighbourIsOther DEF PreviousSibling
  <2> HIDE DEF prev
  <2>2. Moved(u, InsertAfter(u, prev, m).tree)
    BY <1>1, <1>4, <2>1, InsertAfterMoves
  <2> QED
    BY <1>1, <1>4, <2>2 DEF Sound, Moved
<1>5. CASE Live(u, m) /\ p # NoNode /\ Replace(t, n, m) = PrependNode(u, p, m)
  <2>1. p \in Node /\ Live(t, p) /\ p \notin Subtree(t, n)
    BY <1>5, ParentOutside DEF Good, Forest, ParentsAreContainers, Container, Node, Normal
  <2> HIDE DEF p
  <2>2. Live(u, p)
    BY <1>1, <2>1 DEF Live
  <2>3. Moved(u, PrependNode(u, p, m).tree)
    BY <1>1, <1>5, <2>1, <2>2, PrependNodeMoves
  <2> QED
    BY <1>1, <1>5, <2>3 DEF Sound, Moved
<1> QED
  BY <1>2, <1>3, <1>4, <1>5

-----------------------------------------------------------------------------
(* The attribute and namespace maps. *)

Maps == {Attributes, Namespaces}

\* The entries of a map are a run of children of its element.
LEMMA MapIsRun ==
    ASSUME NEW t, Good(t), NEW e \in Node, NEW K \in Maps
    PROVE  /\ MapStart(t, e, K) \in 0 .. Len(t.kids[e])
           /\ MapEnd(t, e, K) \in MapStart(t, e, K) .. Len(t.kids[e])
           /\ \A i \in MapStart(t, e, K) + 1 .. MapEnd(t, e, K) :
                 t.kids[e][i] \in K
           /\ MapEnd(t, e, K) < Len(t.kids[e]) =>
                 t.kids[e][MapEnd(t, e, K) + 1] \notin K
<1> DEFINE s == t.kids[e]
           b == MapStart(t, e, K)
           q == SubSeq(s, b + 1, Len(s))
           k == Leading(q, K)
<1>1. s \in Seq(Node)
  BY DEF Good, Tree
<1>2. MapEnd(t, e, K) = b + k
  BY DEF MapEnd
<1>3. b = 0 \/ b = Leading(s, Namespaces)
  BY DEF MapStart
<1> HIDE DEF s
<1>4. b \in 0 .. Len(s)
  BY <1>1, <1>3, LeadingPrefix
<1> HIDE DEF b
<1>5. q \in Seq(Node) /\ Len(q) = Len(s) - b
  BY <1>1, <1>4
<1>6. ASSUME NEW i \in b + 1 .. Len(s) PROVE q[i - b] = s[i]
  BY <1>1, <1>4
<1> HIDE DEF q
<1>7. /\ k \in 0 .. Len(q) /\ \A i \in 1 .. k : q[i] \in K
      /\ k < Len(q) => q[k + 1] \notin K
  BY <1>5, LeadingPrefix
<1> HIDE DEF k
<1>8. Len(s) \in Nat /\ b + k \in b .. Len(s)
  BY <1>1, <1>4, <1>5, <1>7
<1>9. ASSUME NEW i \in b + 1 .. b + k PROVE s[i] \in K
  <2>1. i \in b + 1 .. Len(s) /\ i - b \in 1 .. k
    BY <1>4, <1>5, <1>7, <1>8
  <2> QED
    BY <1>6, <1>7, <2>1
<1>10. ASSUME b + k < Len(s) PROVE s[b + k + 1] \notin K
  <2> DEFINE m == b + k + 1
  <2>1. k < Len(q) /\ m \in b + 1 .. Len(s) /\ m - b = k + 1
    BY <1>1, <1>4, <1>5, <1>7, <1>10
  <2> HIDE DEF m
  <2>2. q[m - b] = s[m]
    BY <1>6, <2>1
  <2>3. s[m] \notin K
    BY <1>7, <2>1, <2>2
  <2> QED
    BY <2>3 DEF m
<1> QED
  BY <1>2, <1>4, <1>8, <1>9, <1>10 DEF s, b

\* The entries of a map are children of the element, of the category.
LEMMA MapNodesListed ==
    ASSUME NEW t, Good(t), NEW e \in Node, NEW K \in Maps
    PROVE  /\ MapNodes(t, e, K) \in Seq(Node)
           /\ \A i \in DOMAIN MapNodes(t, e, K) :
                 t.parent[MapNodes(t, e, K)[i]] = e
<1> DEFINE s == t.kids[e]
           b == MapStart(t, e, K)
           c == MapEnd(t, e, K)
           q == SubSeq(s, b + 1, c)
<1>1. s \in Seq(Node)
  BY DEF Good, Tree
<1>2. b \in 0 .. Len(s) /\ c \in b .. Len(s)
  BY MapIsRun
<1>3. MapNodes(t, e, K) = q
  BY DEF MapNodes
<1>4. \A i \in DOMAIN s : t.parent[s[i]] = e
  BY ParentsHaveKids
<1> HIDE DEF s, b, c
<1>5. q \in Seq(Node) /\ Len(q) = c - b
  BY <1>1, <1>2
<1>6. ASSUME NEW i \in 1 .. c - b PROVE q[i] = s[i + b] /\ i + b \in DOMAIN s
  BY <1>1, <1>2
<1> HIDE DEF q
<1>7. ASSUME NEW i \in DOMAIN q PROVE t.parent[q[i]] = e
  BY <1>4, <1>5, <1>6
<1> QED
  BY <1>3, <1>5, <1>7

\* A look-up in a map finds an entry of the name if there is one.
LEMMA GetNodeFinds ==
    ASSUME NEW t, Good(t), NEW e \in Node, NEW K \in Maps, NEW name
    PROVE  LET s == MapNodes(t, e, K)
               a == GetNode(t, e, K, name)
           IN IF \E i \in DOMAIN s : NameOf[s[i]] = name
              THEN \E i \in DOMAIN s : a = s[i] /\ NameOf[a] = name
              ELSE a = NoNode
<1> DEFINE s == MapNodes(t, e, K)
<1>1. s \in Seq(Node)
  BY MapNodesListed
<1> DEFINE Found(i) == /\ NameOf[s[i]] = name
                       /\ \A j \in 1 .. i - 1 : NameOf[s[j]] # name
           i == CHOOSE i \in DOMAIN s : Found(i)
<1>2. GetNode(t, e, K, name) =
        IF \E j \in DOMAIN s : NameOf[s[j]] = name THEN s[i] ELSE NoNode
  BY DEF GetNode
<1> HIDE DEF s
<1>3. ASSUME \E j \in DOMAIN s : NameOf[s[j]] = name
      PROVE  i \in DOMAIN s /\ NameOf[s[i]] = name
  <2> DEFINE T == {j \in DOMAIN s : NameOf[s[j]] = name}
  <2>1. T \in SUBSET Nat /\ T # {} /\ DOMAIN s = 1 .. Len(s) /\ Len(s) \in Nat
    BY <1>1, <1>3
  <2>2. PICK x \in T : \A y \in T : x <= y
    <3> HIDE DEF T
    <3> QED
      BY <2>1, Least
  <2>3. ASSUME NEW j \in 1 .. x - 1 PROVE NameOf[s[j]] # name
    <3>1. j \in DOMAIN s /\ ~(x <= j)
      BY <2>1
    <3> QED
      BY <2>2, <3>1
  <2>4. x \in DOMAIN s /\ Found(x)
    BY <2>3
  <2>5. i \in DOMAIN s /\ Found(i)
    BY <2>4
  <2> QED
    BY <2>5
<1> HIDE DEF i
<1> QED
  BY <1>2, <1>3 DEF s

\* A look-up in a map finds an entry of the element or nothing.
LEMMA GetNodeIsNode ==
    ASSUME NEW t, Good(t), NEW e \in Node, NEW K \in Maps, NEW name
    PROVE  GetNode(t, e, K, name) \in Node \cup {NoNode}
<1> DEFINE s == MapNodes(t, e, K)
           a == GetNode(t, e, K, name)
<1>1. s \in Seq(Node)
  BY MapNodesListed
<1>2. a = NoNode \/ \E i \in DOMAIN s : a = s[i]
  BY GetNodeFinds
<1> HIDE DEF s, a
<1>3. a \in Node \cup {NoNode}
  BY <1>1, <1>2
<1> QED
  BY <1>3 DEF a

\* A new entry goes beside an entry of the element, or first.
LEMMA InsertionPointListed ==
    ASSUME NEW t, Good(t), NEW e \in Node, NEW K \in Maps,
           InsertionPoint(t, e, K) # NoNode
    PROVE  LET at == InsertionPoint(t, e, K) IN at \in Node /\ t.parent[at] = e
<1>1. ASSUME NEW L \in Maps, MapNodes(t, e, L) # <<>>
      PROVE  LET at == Last(MapNodes(t, e, L)) IN at \in Node /\ t.parent[at] = e
  <2> DEFINE s == MapNodes(t, e, L)
  <2>1. s \in Seq(Node) /\ \A i \in DOMAIN s : t.parent[s[i]] = e
    BY MapNodesListed
  <2>2. s # <<>>
    BY <1>1
  <2> HIDE DEF s
  <2>3. Len(s) \in DOMAIN s /\ Last(s) = s[Len(s)]
    BY <2>1, <2>2 DEF Last
  <2> QED
    BY <2>1, <2>3 DEF s
<1>2. \E L \in Maps : /\ MapNodes(t, e, L) # <<>>
                      /\ InsertionPoint(t, e, K) = Last(MapNodes(t, e, L))
  BY DEF InsertionPoint, Maps
<1> QED
  BY <1>1, <1>2

\* Placing a new entry keeps the arena good.
LEMMA PlaceEntryMoves ==
    ASSUME NEW t, Good(t), NEW e \in Elements, NEW K \in Maps,
           NEW a \in Abnormal, Live(t, e), Live(t, a)
    PROVE  Moved(t, PlaceEntry(t, e, K, a).tree)
<1> DEFINE at == InsertionPoint(t, e, K)
<1>1. e \in Node /\ e \in Container /\ a \in Node \ Documents
  BY KindsAreDisjoint DEF Node, Normal, Container, Abnormal
<1>2. \/ /\ at # NoNode
         /\ PlaceEntry(t, e, K, a).tree = InsertBeside(t, at, a, 0).tree
      \/ PlaceEntry(t, e, K, a).tree = CheckedPrepend(t, e, a).tree
  BY DEF PlaceEntry, Unwrapped, Panic, CheckedInsertAfter
<1>3. ASSUME at # NoNode
      PROVE  Moved(t, InsertBeside(t, at, a, 0).tree)
  <2>1. at \in Node /\ t.parent[at] = e
    BY <1>1, <1>3, InsertionPointListed
  <2>2. t.parent[at] # NoNode
    BY <1>1, <2>1, NoNodeIsNoNode
  <2> HIDE DEF at
  <2>3. LET o == InsertBeside(t, at, a, 0) IN Good(o.tree) /\ o.tree.phase = t.phase
    BY <1>1, <2>1, <2>2, InsertBesideGood
  <2> QED
    BY <2>3 DEF Moved
<1>4. LET o == CheckedPrepend(t, e, a) IN Good(o.tree) /\ o.tree.phase = t.phase
  BY <1>1, CheckedPrependGood
<1>5. Moved(t, CheckedPrepend(t, e, a).tree)
  BY <1>4 DEF Moved
<1> QED
  BY <1>2, <1>3, <1>5

\* insert_node keeps the arena good.
LEMMA InsertNodeMoves ==
    ASSUME NEW t, Good(t), NEW e \in Elements, NEW K \in Maps,
           NEW a \in Abnormal, Live(t, e), Live(t, a)
    PROVE  Moved(t, InsertNode(t, e, K, a).tree)
<1> DEFINE old == GetNode(t, e, K, NameOf[a])
           u == [t EXCEPT !.value[old] = t.value[a]]
<1>1. e \in Node /\ a \in Node
  BY DEF Node, Normal
<1>2. CASE old # NoNode
  <2>1. old \in Node
    BY <1>1, <1>2, GetNodeIsNode
  <2>2. InsertNode(t, e, K, a).tree = u
    BY <1>2 DEF InsertNode, Ok
  <2> HIDE DEF old
  <2> DEFINE v == t.value[a]
  <2>3. v \in Seq(Node)
    BY <1>1 DEF Good, Tree
  <2> HIDE DEF v
  <2>4. u = [t EXCEPT !.value[old] = v]
    BY DEF v
  <2>5. Good(u) /\ u.phase = t.phase
    BY <2>1, <2>3, <2>4, ValueGood
  <2> QED
    BY <2>2, <2>5 DEF Moved
<1>3. CASE old = NoNode
  <2>1. InsertNode(t, e, K, a) = PlaceEntry(t, e, K, a)
    BY <1>3 DEF InsertNode
  <2> QED
    BY <2>1, PlaceEntryMoves
<1> QED
  BY <1>2, <1>3

\* insert is sound.
LEMMA InsertEntrySound ==
    ASSUME NEW t, Good(t), NEW e \in Elements, NEW K \in Maps,
           NEW a \in Abnormal, Live(t, e), t.phase[a] = "fresh"
    PROVE  Sound(t, InsertEntry(t, e, K, a))
<1> DEFINE old == GetNode(t, e, K, NameOf[a])
           u == [t EXCEPT !.value[old] = <<a>>]
           v == NewNode(t, a)
<1>1. e \in Node /\ a \in Node
  BY DEF Node, Normal
<1>2. CASE old # NoNode
  <2>1. old \in Node
    BY <1>1, <1>2, GetNodeIsNode
  <2>2. InsertEntry(t, e, K, a).tree = u
    BY <1>2 DEF InsertEntry, Ok
  <2> HIDE DEF old
  <2> DEFINE s == <<a>>
  <2>3. s \in Seq(Node) /\ u = [t EXCEPT !.value[old] = s]
    BY <1>1
  <2> HIDE DEF s
  <2>4. Good(u) /\ u.phase = t.phase
    BY <2>1, <2>3, ValueGood
  <2> QED
    BY <2>2, <2>4 DEF Sound
<1>3. CASE old = NoNode
  <2>1. InsertEntry(t, e, K, a) = PlaceEntry(v, e, K, a)
    BY <1>3 DEF InsertEntry
  <2>2. Good(v) /\ v.phase = [t.phase EXCEPT ![a] = "live"]
    BY <1>1, NewNodeGood
  <2> HIDE DEF v
  <2>3. t.phase \in [Node -> Phases]
    BY DEF Good, Tree
  <2>4. Live(v, a) /\ Live(v, e)
    BY <1>1, <2>2, <2>3 DEF Live
  <2>5. Moved(v, PlaceEntry(v, e, K, a).tree)
    BY <2>2, <2>4, PlaceEntryMoves
  <2>6. \A m \in Node : t.phase[m] = "removed" => v.phase[m] = "removed"
    BY <1>1, <2>2, <2>3
  <2> QED
    BY <2>1, <2>5, <2>6 DEF Sound, Moved
<1> QED
  BY <1>2, <1>3

\* remove of a map entry is sound.
LEMMA RemoveEntrySound ==
    ASSUME NEW t, Good(t), NEW e \in Elements, NEW K \in Maps, NEW name
    PROVE  Sound(t, RemoveEntry(t, e, K, name))
<1> DEFINE old == GetNode(t, e, K, name)
<1>1. CASE old = NoNode
  BY <1>1 DEF RemoveEntry, Ok, Sound
<1>2. CASE old # NoNode
  <2>1. old \in Node
    BY <1>2, GetNodeIsNode DEF Node, Normal
  <2>2. RemoveEntry(t, e, K, name) = RemoveNode(t, old)
    BY <1>2 DEF RemoveEntry
  <2> HIDE DEF old
  <2> QED
    BY <2>1, <2>2, RemoveNodeSound
<1> QED
  BY <1>1, <1>2

\* clear is sound.
LEMMA ClearMapSound ==
    ASSUME NEW t, Good(t), NEW e \in Elements, NEW K \in Maps
    PROVE  Sound(t, ClearMap(t, e, K))
<1> DEFINE i == MapStart(t, e, K)
           j == MapEnd(t, e, K)
           u == FreeRun(t, e, i, j)
<1>1. e \in Node /\ K \cap Container = {}
  BY KindsAreDisjoint DEF Node, Normal, Container, Abnormal, Maps
<1>2. /\ i \in 0 .. Len(t.kids[e]) /\ j \in i .. Len(t.kids[e])
      /\ \A k \in i + 1 .. j : t.kids[e][k] \notin Container
  BY <1>1, MapIsRun
<1>3. ClearMap(t, e, K).tree = u
  BY DEF ClearMap, Ok
<1> HIDE DEF i, j
<1>4. /\ Good(u)
      /\ \A m \in Node : \/ u.phase[m] = t.phase[m]
                         \/ u.phase[m] = "removed" /\ m \notin Container
  BY <1>1, <1>2, FreeRunGood
<1> HIDE DEF u
<1> QED
  BY <1>3, <1>4 DEF Sound

\* any_append keeps the arena good.
LEMMA AnyAppendMoves ==
    ASSUME NEW t, Good(t), NEW p \in Node, NEW n \in Node, Live(t, p), Live(t, n)
    PROVE  Moved(t, AnyAppend(t, p, n).tree)
<1>1. ASSUME NEW K \in Maps, n \in K
      PROVE  Moved(t, AppendEntryNode(t, p, K, n).tree)
  <2>1. CASE p \notin Elements
    BY <2>1 DEF AppendEntryNode, Err, Moved
  <2>2. CASE p \in Elements
    <3>1. AppendEntryNode(t, p, K, n) = InsertNode(t, p, K, n)
      BY <1>1, <2>2 DEF AppendEntryNode
    <3>2. n \in Abnormal
      BY <1>1 DEF Maps, Abnormal
    <3> QED
      BY <2>2, <3>1, <3>2, InsertNodeMoves
  <2> QED
    BY <2>1, <2>2
<1>2. Attributes \in Maps /\ Namespaces \in Maps
  BY DEF Maps
<1>3. Moved(t, AppendNode(t, p, n).tree)
  BY AppendNodeMoves
<1> QED
  BY <1>1, <1>2, <1>3 DEF AnyAppend

-----------------------------------------------------------------------------
(* The specification. *)

Inv == Good(tree) /\ panicked \in BOOLEAN

\* A removed handle stays removed, and its slot is empty.
StaysRemoved ==
    \A n \in Node : tree.phase[n] = "removed" =>
        tree'.phase[n] = "removed" /\ tree'.kids[n] = <<>>

\* The empty arena is good.
LEMMA InitInv == Init => Inv
<1> SUFFICES ASSUME Init PROVE Inv
  OBVIOUS
<1>1. tree \in Tree /\ panicked \in BOOLEAN
  <2> DEFINE e == <<>>
  <2>1. e \in Seq(Node)
    OBVIOUS
  <2>2. tree = [parent |-> [n \in Node |-> NoNode], kids |-> [n \in Node |-> e],
                value |-> [n \in Node |-> e], phase |-> [n \in Node |-> "fresh"],
                consolidate |-> TRUE]
    BY DEF Init
  <2> HIDE DEF e
  <2> QED
    <3>1. [n \in Node |-> e] \in [Node -> Seq(Node)]
      BY <2>1
    <3>2. tree \in Tree
      BY <2>2, <3>1 DEF Tree, Phases
    <3>3. panicked \in BOOLEAN
      BY DEF Init
    <3> QED
      BY <3>2, <3>3
<1>2. ParentsAreContainers(tree)
  BY DEF Init, ParentsAreContainers
<1>3. KidsAgree(tree)
  <2>1. IsInjective(<<>>) /\ Range(<<>>) = {}
    BY DEF IsInjective, Range
  <2> QED
    BY <2>1, NoNodeIsNoNode DEF Init, KidsAgree
<1>4. Acyclic(tree)
  <2> SUFFICES ASSUME NEW S \in SUBSET Container, NEW n \in S
               PROVE  tree.parent[n] \notin S
    BY DEF Acyclic
  <2> QED
    BY NoNodeIsNoNode DEF Init, Container, Node, Normal
<1> QED
  BY <1>1, <1>2, <1>3, <1>4 DEF Inv, Good, Forest

\* A call whose outcome is sound is a good step.
LEMMA CallKeeps ==
    ASSUME Inv, NEW t, NEW o, Call(o), Sound(t, o),
           \A n \in Node : tree.phase[n] = "removed" => t.phase[n] = "removed"
    PROVE  Inv' /\ StaysRemoved
<1>1. tree' = o.tree /\ panicked' \in BOOLEAN
  BY DEF Call
<1>2. Good(tree') /\ \A n \in Node : tree.phase[n] = "removed" => tree'.phase[n] = "removed"
  BY <1>1 DEF Sound
<1>3. ASSUME NEW n \in Node, tree.phase[n] = "removed" PROVE tree'.kids[n] = <<>>
  BY <1>2, <1>3, Childless DEF Live
<1> QED
  BY <1>1, <1>2, <1>3 DEF Inv, StaysRemoved

\* Allocating a fresh handle removes nothing and leaves the others as they are.
LEMMA FreshKeeps ==
    ASSUME Inv, NEW n \in Node, Fresh(n)
    PROVE  LET t == NewNode(tree, n)
           IN /\ Good(t) /\ Live(t, n)
              /\ \A m \in LiveNodes : Live(t, m)
              /\ \A m \in Node : tree.phase[m] = "removed" => t.phase[m] = "removed"
<1> DEFINE t == NewNode(tree, n)
<1>1. Good(t) /\ t.phase = [tree.phase EXCEPT ![n] = "live"]
  BY NewNodeGood DEF Inv
<1>2. tree.phase \in [Node -> Phases]
  BY DEF Inv, Good, Tree
<1> HIDE DEF t
<1>3. /\ Live(t, n) /\ \A m \in LiveNodes : Live(t, m)
      /\ \A m \in Node : tree.phase[m] = "removed" => t.phase[m] = "removed"
  BY <1>1, <1>2 DEF Live, LiveNodes, Fresh
<1> QED
  BY <1>1, <1>3 DEF t

\* Every call keeps the arena good and lets no removed handle come back.
LEMMA NextKeeps ==
    ASSUME Inv, Next
    PROVE  Inv' /\ StaysRemoved
<1> USE DEF Inv
<1>1. LiveNodes \subseteq Node /\ \A n \in LiveNodes : Live(tree, n)
  BY DEF LiveNodes
<1>2. CASE New
  <2>1. PICK n \in Node : Fresh(n) /\ Call(Ok(NewNode(tree, n)))
    BY <1>2 DEF New
  <2> DEFINE t == NewNode(tree, n)
  <2>2. Good(t) /\ \A m \in Node : tree.phase[m] = "removed" => t.phase[m] = "removed"
    BY <2>1, FreshKeeps
  <2>3. Sound(t, Ok(t))
    BY <2>2 DEF Sound, Ok
  <2> HIDE DEF t
  <2> QED
    BY <2>1, <2>2, <2>3, CallKeeps DEF t
<1>3. CASE AppendNew
  <2>1. PICK p \in LiveNodes, n \in Node \ Attributes :
            Fresh(n) /\ Call(AnyAppend(NewNode(tree, n), p, n))
    BY <1>3 DEF AppendNew
  <2> DEFINE t == NewNode(tree, n)
             o == AnyAppend(t, p, n)
  <2>2. /\ Good(t) /\ Live(t, n) /\ Live(t, p)
        /\ \A m \in Node : tree.phase[m] = "removed" => t.phase[m] = "removed"
    BY <2>1, FreshKeeps
  <2> HIDE DEF t
  <2>3. Sound(t, o)
    BY <1>1, <2>2, AnyAppendMoves, MovedSound
  <2>4. Call(o)
    BY <2>1 DEF t
  <2> HIDE DEF o
  <2> QED
    BY <2>2, <2>3, <2>4, CallKeeps
<1>4. CASE NewDocumentWithElement
  <2>1. PICK d \in Documents, e \in LiveNodes :
            Fresh(d) /\ Call(IF e \in Elements THEN AppendNode(NewNode(tree, d), d, e)
                             ELSE Err(tree))
    BY <1>4 DEF NewDocumentWithElement
  <2> DEFINE t == NewNode(tree, d)
             o == AppendNode(t, d, e)
  <2>2. d \in Node
    BY DEF Node, Normal
  <2>3. /\ Good(t) /\ Live(t, d) /\ Live(t, e)
        /\ \A m \in Node : tree.phase[m] = "removed" => t.phase[m] = "removed"
    BY <2>1, <2>2, FreshKeeps
  <2>4. Call(o) \/ Call(Err(tree))
    BY <2>1
  <2> HIDE DEF t
  <2>5. Sound(t, o)
    BY <1>1, <2>2, <2>3, AppendNodeMoves, MovedSound
  <2>6. Sound(tree, Err(tree))
    BY DEF Sound, Err
  <2> HIDE DEF o
  <2> QED
    BY <2>3, <2>4, <2>5, <2>6, CallKeeps
<1>5. CASE CallAppend
  <2>1. PICK p \in LiveNodes, n \in LiveNodes : Call(AnyAppend(tree, p, n))
    BY <1>5 DEF CallAppend
  <2>2. Sound(tree, AnyAppend(tree, p, n))
    BY <1>1, AnyAppendMoves, MovedSound
  <2> QED
    BY <2>1, <2>2, CallKeeps
<1>6. CASE CallPrepend
  <2>1. PICK p \in LiveNodes, n \in LiveNodes : Call(PrependNode(tree, p, n))
    BY <1>6 DEF CallPrepend
  <2>2. Sound(tree, PrependNode(tree, p, n))
    BY <1>1, PrependNodeMoves, MovedSound
  <2> QED
    BY <2>1, <2>2, CallKeeps
<1>7. CASE CallInsertAfter
  <2>1. PICK r \in LiveNodes, n \in LiveNodes : Call(InsertAfter(tree, r, n))
    BY <1>7 DEF CallInsertAfter
  <2>2. Sound(tree, InsertAfter(tree, r, n))
    BY <1>1, InsertAfterMoves, MovedSound
  <2> QED
    BY <2>1, <2>2, CallKeeps
<1>8. CASE CallInsertBefore
  <2>1. PICK r \in LiveNodes, n \in LiveNodes : Call(InsertBefore(tree, r, n))
    BY <1>8 DEF CallInsertBefore
  <2>2. Sound(tree, InsertBefore(tree, r, n))
    BY <1>1, InsertBeforeMoves, MovedSound
  <2> QED
    BY <2>1, <2>2, CallKeeps
<1>9. CASE CallDetach
  <2>1. PICK n \in LiveNodes : Call(DetachNode(tree, n))
    BY <1>9 DEF CallDetach
  <2>2. Sound(tree, DetachNode(tree, n))
    BY <1>1, DetachNodeSound
  <2> QED
    BY <2>1, <2>2, CallKeeps
<1>10. CASE CallRemove
  <2>1. PICK n \in LiveNodes : Call(RemoveNode(tree, n))
    BY <1>10 DEF CallRemove
  <2>2. Sound(tree, RemoveNode(tree, n))
    BY <1>1, RemoveNodeSound
  <2> QED
    BY <2>1, <2>2, CallKeeps
<1>11. CASE CallElementUnwrap
  <2>1. PICK n \in LiveNodes : Call(ElementUnwrap(tree, n))
    BY <1>11 DEF CallElementUnwrap
  <2>2. Sound(tree, ElementUnwrap(tree, n))
    BY <1>1, ElementUnwrapSound
  <2> QED
    BY <2>1, <2>2, CallKeeps
<1>12. CASE CallElementWrap
  <2>1. PICK n \in LiveNodes, w \in Elements : Fresh(w) /\ Call(ElementWrap(tree, n, w))
    BY <1>12 DEF CallElementWrap
  <2>2. Sound(tree, ElementWrap(tree, n, w))
    BY <1>1, <2>1, ElementWrapSound DEF Fresh
  <2> QED
    BY <2>1, <2>2, CallKeeps
<1>13. CASE CallReplace
  <2>1. PICK n \in LiveNodes, m \in LiveNodes : Call(Replace(tree, n, m))
    BY <1>13 DEF CallReplace
  <2>2. Sound(tree, Replace(tree, n, m))
    BY <1>1, ReplaceSound
  <2> QED
    BY <2>1, <2>2, CallKeeps
<1>14. CASE CallInsertEntry
  <2>1. PICK e \in LiveNodes \cap Elements, a \in Abnormal, K \in Maps :
            Fresh(a) /\ Call(InsertEntry(tree, e, K, a))
    BY <1>14 DEF CallInsertEntry, Maps
  <2>2. Sound(tree, InsertEntry(tree, e, K, a))
    BY <1>1, <2>1, InsertEntrySound DEF Fresh
  <2> QED
    BY <2>1, <2>2, CallKeeps
<1>15. CASE CallRemoveEntry
  <2>1. PICK e \in LiveNodes \cap Elements, a \in Abnormal, K \in Maps :
            Call(RemoveEntry(tree, e, K, NameOf[a]))
    BY <1>15 DEF CallRemoveEntry, Maps
  <2>2. Sound(tree, RemoveEntry(tree, e, K, NameOf[a]))
    BY <1>1, RemoveEntrySound
  <2> QED
    BY <2>1, <2>2, CallKeeps
<1>16. CASE CallClear
  <2>1. PICK e \in LiveNodes \cap Elements, K \in Maps : Call(ClearMap(tree, e, K))
    BY <1>16 DEF CallClear, Maps
  <2>2. Sound(tree, ClearMap(tree, e, K))
    BY <1>1, ClearMapSound
  <2> QED
    BY <2>1, <2>2, CallKeeps
<1>17. CASE SetTextConsolidation
  <2>1. PICK b \in BOOLEAN : Call(Ok([tree EXCEPT !.consolidate = b]))
    BY <1>17 DEF SetTextConsolidation
  <2> DEFINE t == [tree EXCEPT !.consolidate = b]
  <2>2. t \in Tree /\ t.parent = tree.parent /\ t.kids = tree.kids /\ t.phase = tree.phase
    BY DEF Good, Tree
  <2>3. \A m \in Node : Live(tree, m) => Live(t, m)
    BY <2>2 DEF Live
  <2> HIDE DEF t
  <2>4. Good(t)
    BY <2>2, <2>3, RelabelGood
  <2>5. Sound(t, Ok(t))
    BY <2>4 DEF Sound, Ok
  <2>6. Call(Ok(t))
    BY <2>1 DEF t
  <2> QED
    BY <2>2, <2>5, <2>6, CallKeeps
<1> QED
  BY <1>2, <1>3, <1>4, <1>5, <1>6, <1>7, <1>8, <1>9, <1>10, <1>11, <1>12, <1>13,
     <1>14, <1>15, <1>16, <1>17 DEF Next

\* The arena is always of its type and a forest.
THEOREM Invariance == Spec => []Inv
<1>1. Inv /\ [Next]_vars => Inv'
  <2>1. CASE Next
    BY <2>1, NextKeeps
  <2>2. ASSUME Inv, UNCHANGED vars PROVE Inv'
    BY <2>2 DEF Inv, vars
  <2> QED
    BY <2>1, <2>2
<1> QED
  BY InitInv, <1>1, PTL DEF Spec

\* The state variables have their types after any calls, with any numbers of
\* nodes.
THEOREM TypeCorrect == Spec => []TypeOK
<1>1. Inv => TypeOK
  BY DEF Inv, Good, TypeOK
<1> QED
  BY <1>1, Invariance, PTL

\* No calls, careful or not, break the tree structure: parents and children
\* agree, documents have no parent, only live containers have children, and
\* no node is above itself.
THEOREM AlwaysForest == Spec => []ForestOK
<1>1. Inv => ForestOK
  BY DEF Inv, Good, ForestOK
<1> QED
  BY <1>1, Invariance, PTL

\* A handle that a call freed, whether it was given to the call or merged away,
\* is never live again and has no children.
THEOREM RemovedStaysRemoved == Spec => RemovedForGood
<1>1. Inv /\ [Next]_vars => [StaysRemoved]_vars
  BY NextKeeps
<1> QED
  BY <1>1, Invariance, PTL DEF Spec, RemovedForGood, StaysRemoved
=============================================================================
