-------------------------- MODULE XotContents_proofs --------------------------
(***************************************************************************)
(* What the content of an element is made of: the shares of its children,  *)
(* joined.  What it shows when texts meet, when a node leaves and when one *)
(* arrives, and what the calls that take out a node do to it.              *)
(***************************************************************************)
EXTENDS XotTexts_proofs

-----------------------------------------------------------------------------
(* Joined sequences: every member of s replaced by its share. *)

Shares == [Node -> Seq(Node)]

Joint(f, s) == FlattenSeq([i \in DOMAIN s |-> f[s[i]]])

\* g[k] joins the shares of the first k members of s.
Running(g, f, s) ==
    /\ g \in [0 .. Len(s) -> Seq(Node)]
    /\ g[0] = <<>>
    /\ \A i \in 1 .. Len(s) : g[i] = g[i - 1] \o f[s[i]]

\* Joining is associative, and the empty sequence adds nothing.
LEMMA JoinLaws ==
    /\ \A x, y, z \in Seq(Node) : (x \o y) \o z = x \o (y \o z)
    /\ \A x, y \in Seq(Node) : x \o y \in Seq(Node)
    /\ \A x \in Seq(Node) : x \o <<>> = x /\ <<>> \o x = x
    /\ <<>> \in Seq(Node) /\ \A x \in Node : <<x>> \in Seq(Node)
<1>1. \A x, y, z \in Seq(Node) : (x \o y) \o z = x \o (y \o z)
  OBVIOUS
<1>2. \A x, y \in Seq(Node) : x \o y \in Seq(Node)
  OBVIOUS
<1>3. \A x \in Seq(Node) : x \o <<>> = x /\ <<>> \o x = x
  OBVIOUS
<1>4. <<>> \in Seq(Node) /\ \A x \in Node : <<x>> \in Seq(Node)
  OBVIOUS
<1> QED
  BY <1>1, <1>2, <1>3, <1>4

\* The first of the laws, for three given sequences.
LEMMA JoinAssociates ==
    ASSUME NEW x \in Seq(Node), NEW y \in Seq(Node), NEW z \in Seq(Node)
    PROVE  (x \o y) \o z = x \o (y \o z)
OBVIOUS

\* The members of a sequence of nodes and their shares.
LEMMA SharesAt ==
    ASSUME NEW f \in Shares, NEW s \in Seq(Node)
    PROVE  /\ Len(s) \in Nat /\ DOMAIN s = 1 .. Len(s)
           /\ \A i \in 1 .. Len(s) : s[i] \in Node /\ f[s[i]] \in Seq(Node)
           /\ \A x \in Node : f[x] \in Seq(Node)
<1>1. Len(s) \in Nat /\ DOMAIN s = 1 .. Len(s) /\ \A i \in 1 .. Len(s) : s[i] \in Node
  OBVIOUS
<1>2. \A x \in Node : f[x] \in Seq(Node)
  BY DEF Shares
<1> QED
  BY <1>1, <1>2

\* g starts with b and takes the steps of F.
Iterates(g, N, X, b, F) ==
    /\ g \in [0 .. N -> X]
    /\ g[0] = b /\ \A i \in 1 .. N : g[i - 1] \in X /\ g[i] = F[i][g[i - 1]]

\* What is defined step by step exists.
LEMMA IterationExists ==
    ASSUME NEW N \in Nat, NEW X, NEW b \in X, NEW F \in StepsIn(N, X)
    PROVE  \E g : Iterates(g, N, X, b, F)
<1>1. PICK g \in [0 .. N -> X] :
        g[0] = b /\ \A i \in 1 .. N : g[i - 1] \in X /\ g[i] = F[i][g[i - 1]]
  BY Iteration
<1> QED
  BY <1>1 DEF Iterates

\* There is such a g.
LEMMA RunExists ==
    ASSUME NEW f \in Shares, NEW s \in Seq(Node)
    PROVE  \E g : Running(g, f, s)
<1> DEFINE N == Len(s)
           X == Seq(Node)
           F == [i \in 1 .. N |-> [x \in X |-> x \o f[s[i]]]]
<1>1. N \in Nat /\ \A i \in 1 .. N : f[s[i]] \in X
  BY SharesAt
<1>2. <<>> \in X /\ \A x, y \in X : x \o y \in X
  BY JoinLaws
<1> HIDE DEF N, X
<1>3. F \in StepsIn(N, X)
  <2>1. \A i \in 1 .. N : [x \in X |-> x \o f[s[i]]] \in [X -> X]
    BY <1>1, <1>2
  <2> QED
    BY <2>1 DEF StepsIn
<1> DEFINE b == <<>>
<1>4. PICK g : Iterates(g, N, X, b, F)
  <2>1. N \in Nat
    BY <1>1
  <2>2. b \in X
    BY <1>2
  <2> HIDE DEF F, b
  <2> QED
    BY <2>1, <2>2, <1>3, IterationExists
<1>5. \A i \in 1 .. N : g[i] = g[i - 1] \o f[s[i]]
  BY <1>4 DEF Iterates
<1> QED
  BY <1>4, <1>5 DEF Iterates, Running, N, X

\* Two functions that start alike and take the same steps are alike.
LEMMA RunUnique ==
    ASSUME NEW f \in Shares, NEW s \in Seq(Node), NEW g, Running(g, f, s), NEW h,
           \A i \in 1 .. Len(s) :
                h[i] = IF i = 1 THEN f[s[i]] ELSE h[i - 1] \o f[s[i]]
    PROVE  \A k \in 1 .. Len(s) : h[k] = g[k]
<1> DEFINE N == Len(s)
           T == {k \in 0 .. N : k = 0 \/ h[k] = g[k]}
<1>1. N \in Nat /\ \A i \in 1 .. N : f[s[i]] \in Seq(Node)
  BY SharesAt
<1>2. g[0] = <<>> /\ \A i \in 1 .. N : g[i] = g[i - 1] \o f[s[i]]
  BY DEF Running
<1>3. \A i \in 1 .. N : h[i] = IF i = 1 THEN f[s[i]] ELSE h[i - 1] \o f[s[i]]
  OBVIOUS
<1> HIDE DEF N
<1>4. 0 \in T
  BY <1>1
<1>5. ASSUME NEW k \in 1 .. N, k - 1 \in T PROVE k \in T
  <2>1. k \in 0 .. N
    BY <1>1
  <2>2. CASE k = 1
    <3>1. 1 \in 1 .. N /\ 1 - 1 = 0
      BY <2>2
    <3>2. g[1] = g[0] \o f[s[1]]
      BY <1>2, <3>1
    <3>3. g[1] = f[s[1]]
      BY <1>1, <1>2, <3>1, <3>2, JoinLaws
    <3>4. h[1] = f[s[1]]
      BY <1>3, <3>1
    <3> QED
      BY <2>1, <2>2, <3>3, <3>4
  <2>3. CASE k # 1
    <3>1. h[k - 1] = g[k - 1]
      BY <1>5, <2>3
    <3>2. h[k] = h[k - 1] \o f[s[k]]
      BY <1>3, <2>3
    <3>3. g[k] = g[k - 1] \o f[s[k]]
      BY <1>2
    <3> QED
      BY <2>1, <3>1, <3>2, <3>3
  <2> QED
    BY <2>2, <2>3
<1>6. \A k \in 0 .. N : k \in T
  <2> HIDE DEF T
  <2> QED
    BY <1>1, <1>4, <1>5, Counting
<1>7. ASSUME NEW k \in 1 .. N PROVE h[k] = g[k]
  <2>1. k \in 0 .. N /\ k # 0
    BY <1>1
  <2> QED
    BY <1>6, <2>1
<1> QED
  BY <1>7 DEF N

\* Whatever joins the shares one by one ends with the joint sequence.
LEMMA JointIs ==
    ASSUME NEW f \in Shares, NEW s \in Seq(Node), NEW g, Running(g, f, s)
    PROVE  Joint(f, s) = g[Len(s)]
<1> DEFINE N == Len(s)
           ss == [i \in DOMAIN s |-> f[s[i]]]
           Is(h) == h = [i \in 1 .. N |-> IF i = 1 THEN ss[i] ELSE h[i - 1] \o ss[i]]
           flat == CHOOSE h : Is(h)
<1>1. N \in Nat /\ DOMAIN s = 1 .. N /\ \A i \in 1 .. N : f[s[i]] \in Seq(Node)
  BY SharesAt
<1>2. ss \in Seq(Seq(Node)) /\ Len(ss) = N /\ \A i \in 1 .. N : ss[i] = f[s[i]]
  BY <1>1
<1> HIDE DEF ss
<1>3. FlattenSeq(ss) = IF N = 0 THEN ss ELSE flat[N]
  BY <1>2 DEF FlattenSeq
<1>4. g[0] = <<>> /\ \A i \in 1 .. N : g[i] = g[i - 1] \o f[s[i]]
  BY DEF Running
<1> HIDE DEF N
<1>5. CASE N = 0
  <2>1. ss = <<>>
    BY <1>2, <1>5
  <2> QED
    BY <1>3, <1>4, <1>5, <2>1 DEF Joint, ss, N
<1>6. CASE N # 0
  <2> DEFINE h == [i \in 1 .. N |-> g[i]]
  <2>1. Is(h)
    <3>1. ASSUME NEW i \in 1 .. N PROVE h[i] = IF i = 1 THEN ss[i] ELSE h[i - 1] \o ss[i]
      <4>1. h[i] = g[i - 1] \o ss[i]
        BY <1>2, <1>4
      <4>2. CASE i = 1
        <5>1. i - 1 = 0 /\ ss[i] \in Seq(Node)
          BY <1>1, <1>2, <4>2
        <5>2. h[i] = <<>> \o ss[i]
          BY <1>4, <4>1, <5>1
        <5> HIDE DEF h
        <5> QED
          BY <4>2, <5>1, <5>2, JoinLaws
      <4>3. CASE i # 1
        <5>1. i - 1 \in 1 .. N
          BY <1>1, <4>3
        <5>2. h[i - 1] = g[i - 1]
          BY <5>1
        <5> HIDE DEF h
        <5> QED
          BY <4>1, <4>3, <5>2
      <4> QED
        BY <4>2, <4>3
    <3>2. h = [i \in 1 .. N |-> h[i]]
      OBVIOUS
    <3> HIDE DEF h
    <3> QED
      BY <3>1, <3>2
  <2>2. Is(flat)
    <3> HIDE DEF Is
    <3> QED
      BY <2>1 DEF flat
  <2>3. \A i \in 1 .. N : flat[i] = IF i = 1 THEN ss[i] ELSE flat[i - 1] \o ss[i]
    BY <2>2, Zenon
  <2> HIDE DEF h, Is, flat
  <2>4. \A i \in 1 .. Len(s) : flat[i] = IF i = 1 THEN f[s[i]] ELSE flat[i - 1] \o f[s[i]]
    BY <1>2, <2>3 DEF N
  <2>5. \A k \in 1 .. Len(s) : flat[k] = g[k]
    BY <2>4, RunUnique
  <2>6. N \in 1 .. Len(s)
    BY <1>1, <1>6 DEF N
  <2> QED
    BY <1>3, <1>6, <2>5, <2>6 DEF Joint, ss, N
<1> QED
  BY <1>5, <1>6

\* A joined sequence is the last of its running joints.
LEMMA JointRuns ==
    ASSUME NEW f \in Shares, NEW s \in Seq(Node)
    PROVE  /\ Joint(f, s) \in Seq(Node)
           /\ \E g : Running(g, f, s) /\ Joint(f, s) = g[Len(s)]
<1>1. PICK g : Running(g, f, s)
  BY RunExists
<1>2. Joint(f, s) = g[Len(s)]
  BY <1>1, JointIs
<1>3. Len(s) \in 0 .. Len(s)
  BY SharesAt
<1> QED
  BY <1>1, <1>2, <1>3 DEF Running

\* The members of joined sequences.
LEMMA JoinMembers ==
    ASSUME NEW a \in Seq(Node), NEW b \in Seq(Node)
    PROVE  Range(a \o b) = Range(a) \cup Range(b)
<1> DEFINE c == a \o b
<1>1. /\ c \in Seq(Node) /\ Len(c) = Len(a) + Len(b) /\ Len(a) \in Nat /\ Len(b) \in Nat
      /\ DOMAIN c = 1 .. Len(c) /\ DOMAIN a = 1 .. Len(a) /\ DOMAIN b = 1 .. Len(b)
  OBVIOUS
<1>2. \A k \in 1 .. Len(a) : c[k] = a[k]
  BY Concat
<1>3. \A k \in 1 .. Len(b) : c[Len(a) + k] = b[k]
  BY Concat
<1> HIDE DEF c
<1>4. ASSUME NEW k \in 1 .. Len(c) PROVE c[k] \in Range(a) \cup Range(b)
  <2>1. CASE k <= Len(a)
    BY <1>1, <1>2, <2>1 DEF Range
  <2>2. CASE k > Len(a)
    <3>1. k - Len(a) \in 1 .. Len(b) /\ Len(a) + (k - Len(a)) = k
      BY <1>1, <2>2
    <3> QED
      BY <1>1, <1>3, <3>1 DEF Range
  <2> QED
    BY <1>1, <2>1, <2>2
<1>5. ASSUME NEW k \in 1 .. Len(a) PROVE a[k] \in Range(c)
  <2>1. k \in 1 .. Len(c)
    BY <1>1
  <2> QED
    BY <1>1, <1>2, <2>1 DEF Range
<1>6. ASSUME NEW k \in 1 .. Len(b) PROVE b[k] \in Range(c)
  <2>1. Len(a) + k \in 1 .. Len(c)
    BY <1>1
  <2> QED
    BY <1>1, <1>3, <2>1 DEF Range
<1> QED
  BY <1>1, <1>4, <1>5, <1>6 DEF c, Range

\* The members of the shortest sequences.
LEMMA OneMember ==
    ASSUME NEW x \in Node
    PROVE  Range(<<x>>) = {x} /\ Range(<<>>) = {}
<1>1. DOMAIN <<x>> = 1 .. 1 /\ <<x>>[1] = x /\ DOMAIN <<>> = {}
  OBVIOUS
<1> QED
  BY <1>1 DEF Range

\* Nothing joins to nothing, and one share to itself.
LEMMA JointFew ==
    ASSUME NEW f \in Shares
    PROVE  Joint(f, <<>>) = <<>> /\ \A x \in Node : Joint(f, <<x>>) = f[x]
<1>1. Joint(f, <<>>) = <<>>
  <2>1. <<>> \in Seq(Node) /\ Len(<<>>) = 0
    OBVIOUS
  <2>2. PICK g : Running(g, f, <<>>) /\ Joint(f, <<>>) = g[Len(<<>>)]
    BY <2>1, JointRuns
  <2> QED
    BY <2>1, <2>2 DEF Running
<1>2. ASSUME NEW x \in Node PROVE Joint(f, <<x>>) = f[x]
  <2>1. PICK s : s = <<x>>
    OBVIOUS
  <2>2. s \in Seq(Node) /\ Len(s) = 1 /\ s[1] = x
    BY <2>1
  <2>3. PICK g : Running(g, f, s) /\ Joint(f, s) = g[Len(s)]
    BY <2>2, JointRuns
  <2>4. g[0] = <<>> /\ \A i \in 1 .. Len(s) : g[i] = g[i - 1] \o f[s[i]]
    BY <2>3 DEF Running
  <2>5. 1 \in 1 .. Len(s) /\ 1 - 1 = 0
    BY <2>2
  <2>6. g[1] = <<>> \o f[x]
    BY <2>2, <2>4, <2>5
  <2>7. f[x] \in Seq(Node)
    BY DEF Shares
  <2>8. g[1] = f[x]
    BY <2>6, <2>7, JoinLaws
  <2> QED
    BY <2>1, <2>2, <2>3, <2>8
<1> QED
  BY <1>1, <1>2

\* Only the shares of the members matter.
LEMMA JointSame ==
    ASSUME NEW f \in Shares, NEW h \in Shares, NEW s \in Seq(Node),
           \A x \in Range(s) : f[x] = h[x]
    PROVE  Joint(f, s) = Joint(h, s)
<1>1. PICK g : Running(g, f, s) /\ Joint(f, s) = g[Len(s)]
  BY JointRuns
<1>2. \A i \in 1 .. Len(s) : f[s[i]] = h[s[i]]
  BY SharesAt DEF Range
<1>3. Running(g, h, s)
  BY <1>1, <1>2 DEF Running
<1> QED
  BY <1>1, <1>3, JointIs

\* Joining the shares of a and then those of b.
LEMMA JointJoin ==
    ASSUME NEW f \in Shares, NEW a \in Seq(Node), NEW b \in Seq(Node)
    PROVE  Joint(f, a \o b) = Joint(f, a) \o Joint(f, b)
<1>1. PICK g : Running(g, f, a) /\ Joint(f, a) = g[Len(a)]
  BY JointRuns
<1>2. PICK h : Running(h, f, b) /\ Joint(f, b) = h[Len(b)]
  BY JointRuns
<1> DEFINE M == Len(a)
           N == Len(b)
           c == a \o b
           r == [k \in 0 .. M + N |-> IF k <= M THEN g[k] ELSE g[M] \o h[k - M]]
<1>3. M \in Nat /\ N \in Nat /\ c \in Seq(Node) /\ Len(c) = M + N
  OBVIOUS
<1>4. \A k \in 1 .. M : c[k] = a[k]
  BY Concat
<1>5. \A k \in 1 .. N : c[M + k] = b[k]
  BY Concat
<1>6. /\ \A k \in 0 .. M : g[k] \in Seq(Node)
      /\ g[0] = <<>>
      /\ \A i \in 1 .. M : g[i] = g[i - 1] \o f[a[i]]
  BY <1>1 DEF Running
<1>7. /\ \A k \in 0 .. N : h[k] \in Seq(Node)
      /\ h[0] = <<>>
      /\ \A i \in 1 .. N : h[i] = h[i - 1] \o f[b[i]]
  BY <1>2 DEF Running
<1>8. \A i \in 1 .. N : f[b[i]] \in Seq(Node)
  BY SharesAt
<1> HIDE DEF M, N, c
<1>9. \A k \in 0 .. M : k \in 0 .. M + N /\ r[k] = g[k]
  BY <1>3
<1>10. ASSUME NEW j \in 0 .. N PROVE M + j \in 0 .. M + N /\ r[M + j] = g[M] \o h[j]
  <2>1. M + j \in 0 .. M + N /\ (M + j) - M = j /\ M \in 0 .. M /\ (M + j <= M <=> j = 0)
    BY <1>3
  <2>2. CASE j = 0
    <3>1. M + j = M /\ g[M] \in Seq(Node) /\ h[j] = <<>> /\ r[M] = g[M]
      BY <1>3, <1>6, <1>7, <1>9, <2>1, <2>2
    <3> HIDE DEF r
    <3> QED
      BY <2>1, <3>1, JoinLaws
  <2>3. CASE j # 0
    <3>1. r[M + j] = g[M] \o h[(M + j) - M]
      BY <2>1, <2>3
    <3> HIDE DEF r
    <3> QED
      BY <2>1, <3>1
  <2> QED
    BY <2>2, <2>3
<1>14. r \in [0 .. M + N -> Seq(Node)]
  <2>1. ASSUME NEW k \in 0 .. M + N PROVE r[k] \in Seq(Node)
    <3> HIDE DEF r
    <3>1. CASE k <= M
      <4>1. k \in 0 .. M
        BY <1>3, <3>1
      <4> QED
        BY <1>6, <1>9, <4>1
    <3>2. CASE k > M
      <4>1. k - M \in 0 .. N /\ M \in 0 .. M /\ M + (k - M) = k
        BY <1>3, <3>2
      <4>2. r[k] = g[M] \o h[k - M]
        BY <1>10, <4>1
      <4>3. g[M] \in Seq(Node) /\ h[k - M] \in Seq(Node)
        BY <1>6, <1>7, <4>1
      <4> QED
        BY <4>2, <4>3, JoinLaws
    <3> QED
      BY <1>3, <3>1, <3>2
  <2> QED
    BY <2>1
<1> HIDE DEF r
<1>11. ASSUME NEW i \in 1 .. M + N PROVE r[i] = r[i - 1] \o f[c[i]]
  <2>1. CASE i <= M
    <3>1. i \in 1 .. M /\ i \in 0 .. M /\ i - 1 \in 0 .. M
      BY <1>3, <2>1
    <3> QED
      BY <1>4, <1>6, <1>9, <3>1
  <2>2. CASE i > M
    <3> DEFINE j == i - M
    <3>1. j \in 1 .. N /\ j \in 0 .. N /\ M + j = i /\ j - 1 \in 0 .. N /\ M \in 0 .. M
          /\ M + (j - 1) = i - 1
      BY <1>3, <2>2
    <3> HIDE DEF j
    <3>2. r[i] = g[M] \o h[j]
      BY <1>10, <3>1
    <3>3. r[i - 1] = g[M] \o h[j - 1]
      BY <1>10, <3>1
    <3>4. h[j] = h[j - 1] \o f[b[j]] /\ c[i] = b[j]
      BY <1>5, <1>7, <3>1
    <3>5. g[M] \in Seq(Node) /\ h[j - 1] \in Seq(Node) /\ f[b[j]] \in Seq(Node)
      BY <1>6, <1>7, <1>8, <3>1
    <3>6. (g[M] \o h[j - 1]) \o f[b[j]] = g[M] \o (h[j - 1] \o f[b[j]])
      <4> DEFINE x == g[M]
                 y == h[j - 1]
                 z == f[b[j]]
      <4>1. x \in Seq(Node) /\ y \in Seq(Node) /\ z \in Seq(Node)
        BY <3>5
      <4> HIDE DEF x, y, z
      <4>2. (x \o y) \o z = x \o (y \o z)
        BY <4>1
      <4> QED
        BY <4>2 DEF x, y, z
    <3> QED
      BY <3>2, <3>3, <3>4, <3>6
  <2>3. i <= M \/ i > M
    BY <1>3
  <2> QED
    BY <2>1, <2>2, <2>3
<1>15. r[0] = <<>> /\ r[M + N] = g[M] \o h[N]
  <2>1. 0 \in 0 .. M /\ N \in 0 .. N
    BY <1>3
  <2> QED
    BY <1>6, <1>9, <1>10, <2>1
<1>12. Running(r, f, c)
  BY <1>3, <1>11, <1>14, <1>15 DEF Running
<1>13. Joint(f, c) = r[M + N]
  BY <1>3, <1>12, JointIs
<1> QED
  BY <1>1, <1>2, <1>13, <1>15 DEF M, N, c

\* Members of the joint sequence are members of a share.
LEMMA JointMembers ==
    ASSUME NEW f \in Shares, NEW s \in Seq(Node), NEW U, \A x \in Range(s) : Range(f[x]) \subseteq U
    PROVE  Range(Joint(f, s)) \subseteq U
<1>1. PICK g : Running(g, f, s) /\ Joint(f, s) = g[Len(s)]
  BY JointRuns
<1> DEFINE N == Len(s)
           T == {k \in 0 .. N : Range(g[k]) \subseteq U}
<1>2. N \in Nat /\ \A i \in 1 .. N : Range(f[s[i]]) \subseteq U /\ f[s[i]] \in Seq(Node)
  BY SharesAt DEF Range
<1>3. /\ \A k \in 0 .. N : g[k] \in Seq(Node)
      /\ g[0] = <<>>
      /\ \A i \in 1 .. N : g[i] = g[i - 1] \o f[s[i]]
  BY <1>1 DEF Running
<1> HIDE DEF N
<1>4. 0 \in T
  BY <1>2, <1>3 DEF Range
<1>5. ASSUME NEW k \in 1 .. N, k - 1 \in T PROVE k \in T
  <2>1. k \in 0 .. N /\ k - 1 \in 0 .. N
    BY <1>2
  <2>2. Range(g[k - 1] \o f[s[k]]) = Range(g[k - 1]) \cup Range(f[s[k]])
    BY <1>2, <1>3, <2>1, JoinMembers
  <2> QED
    BY <1>2, <1>3, <1>5, <2>1, <2>2
<1>6. \A k \in 0 .. N : k \in T
  <2> HIDE DEF T
  <2> QED
    BY <1>2, <1>4, <1>5, Counting
<1>7. N \in 0 .. N
  BY <1>2
<1> QED
  BY <1>1, <1>6, <1>7 DEF N

\* Joining shares of what is joined from shares.
LEMMA JointTwice ==
    ASSUME NEW f \in Shares, NEW h \in Shares, NEW s \in Seq(Node), NEW e \in Shares,
           \A x \in Range(s) : e[x] = Joint(f, h[x])
    PROVE  Joint(f, Joint(h, s)) = Joint(e, s)
<1>1. PICK g : Running(g, h, s) /\ Joint(h, s) = g[Len(s)]
  BY JointRuns
<1> DEFINE N == Len(s)
           r == [k \in 0 .. N |-> Joint(f, g[k])]
<1>2. N \in Nat /\ \A i \in 1 .. N : e[s[i]] = Joint(f, h[s[i]]) /\ h[s[i]] \in Seq(Node)
  BY SharesAt DEF Range
<1>3. /\ \A k \in 0 .. N : g[k] \in Seq(Node)
      /\ g[0] = <<>>
      /\ \A i \in 1 .. N : g[i] = g[i - 1] \o h[s[i]]
  BY <1>1 DEF Running
<1> HIDE DEF N
<1>4. r \in [0 .. N -> Seq(Node)]
  BY <1>3, JointRuns
<1>5. r[0] = <<>> /\ r[N] = Joint(f, g[N])
  BY <1>2, <1>3, JointFew
<1>6. ASSUME NEW i \in 1 .. N PROVE r[i] = r[i - 1] \o e[s[i]]
  <2>1. i \in 0 .. N /\ i - 1 \in 0 .. N
    BY <1>2
  <2>2. r[i] = Joint(f, g[i]) /\ r[i - 1] = Joint(f, g[i - 1])
    BY <2>1
  <2>3. Joint(f, g[i - 1] \o h[s[i]]) = Joint(f, g[i - 1]) \o Joint(f, h[s[i]])
    BY <1>2, <1>3, <2>1, JointJoin
  <2> QED
    BY <1>2, <1>3, <2>2, <2>3
<1> HIDE DEF r
<1>7. Running(r, e, s)
  BY <1>4, <1>5, <1>6 DEF Running, N
<1> QED
  BY <1>1, <1>5, <1>7, JointIs DEF N

-----------------------------------------------------------------------------
(* The algebra of joined sequences. *)

Seqs == Seq(Node)
Nil == <<>>
One(x) == <<x>>
Cat(x, y) == x \o y

\* The laws of joining, for the hidden operators.
LEMMA CatLaws ==
    /\ \A x, y, z \in Seqs : Cat(Cat(x, y), z) = Cat(x, Cat(y, z))
    /\ \A x, y \in Seqs : Cat(x, y) \in Seqs
    /\ \A x \in Seqs : Cat(x, Nil) = x /\ Cat(Nil, x) = x
    /\ Nil \in Seqs /\ \A x \in Node : One(x) \in Seqs
  BY JoinLaws DEF Seqs, Nil, One, Cat

\* Joining shares takes the concatenation apart.
LEMMA JointLaws ==
    ASSUME NEW f \in Shares
    PROVE  /\ Joint(f, Nil) = Nil
           /\ \A x \in Node : Joint(f, One(x)) = f[x] /\ f[x] \in Seqs
           /\ \A s \in Seqs : Joint(f, s) \in Seqs
           /\ \A x, y \in Seqs : Joint(f, Cat(x, y)) = Cat(Joint(f, x), Joint(f, y))
<1>1. Joint(f, Nil) = Nil /\ \A x \in Node : Joint(f, One(x)) = f[x]
  BY JointFew DEF Nil, One
<1>2. \A x \in Node : f[x] \in Seqs
  BY DEF Shares, Seqs
<1>3. \A s \in Seqs : Joint(f, s) \in Seqs
  BY JointRuns DEF Seqs
<1>4. \A x, y \in Seqs : Joint(f, Cat(x, y)) = Cat(Joint(f, x), Joint(f, y))
  BY JointJoin DEF Seqs, Cat
<1> QED
  BY <1>1, <1>2, <1>3, <1>4

\* The members of a concatenation are those of its parts.
LEMMA CatMembers ==
    /\ \A x, y \in Seqs : Range(Cat(x, y)) = Range(x) \cup Range(y)
    /\ \A x \in Node : Range(One(x)) = {x}
    /\ Range(Nil) = {}
    /\ \A x \in Seqs : Range(x) \subseteq Node
<1>1. \A x, y \in Seqs : Range(Cat(x, y)) = Range(x) \cup Range(y)
  BY JoinMembers DEF Seqs, Cat
<1>2. Range(Nil) = {} /\ \A x \in Node : Range(One(x)) = {x}
  <2>1. \A x \in Node : Range(One(x)) = {x}
    BY OneMember DEF One
  <2>2. DOMAIN <<>> = {}
    OBVIOUS
  <2>3. Range(Nil) = {}
    BY <2>2 DEF Nil, Range
  <2> QED
    BY <2>1, <2>3
<1>3. \A x \in Seqs : Range(x) \subseteq Node
  BY DEF Seqs, Range
<1> QED
  BY <1>1, <1>2, <1>3

\* Sequences with the same members in the same places.
LEMMA SameSeq ==
    ASSUME NEW a \in Seqs, NEW b \in Seqs, Len(a) = Len(b), \A k \in 1 .. Len(a) : a[k] = b[k]
    PROVE  a = b
BY DEF Seqs

\* c is a with b behind it.
IsCat(c, a, b) ==
    /\ c \in Seqs /\ Len(c) = Len(a) + Len(b) /\ Len(a) \in Nat /\ Len(b) \in Nat
    /\ DOMAIN c = 1 .. Len(a) + Len(b) /\ DOMAIN a = 1 .. Len(a) /\ DOMAIN b = 1 .. Len(b)
    /\ \A k \in 1 .. Len(a) : c[k] = a[k]
    /\ \A k \in 1 .. Len(b) : c[Len(a) + k] = b[k]

\* Where the members of a concatenation are.
LEMMA CatAt ==
    ASSUME NEW a \in Seqs, NEW b \in Seqs
    PROVE  IsCat(Cat(a, b), a, b)
<1>1. \A k \in 1 .. Len(a) : (a \o b)[k] = a[k]
  BY Concat DEF Seqs
<1>2. \A k \in 1 .. Len(b) : (a \o b)[Len(a) + k] = b[k]
  BY Concat DEF Seqs
<1>3. a \o b \in Seq(Node) /\ Len(a \o b) = Len(a) + Len(b) /\ Len(a) \in Nat /\ Len(b) \in Nat
  BY DEF Seqs
<1>4. DOMAIN a = 1 .. Len(a) /\ DOMAIN b = 1 .. Len(b) /\ DOMAIN (a \o b) = 1 .. Len(a) + Len(b)
  BY <1>3 DEF Seqs
<1> QED
  BY <1>1, <1>2, <1>3, <1>4 DEF Cat, Seqs, IsCat

\* The members of s behind the first i, up to j.
LEMMA Part ==
    ASSUME NEW s \in Seqs, NEW i \in 0 .. Len(s), NEW j \in i .. Len(s)
    PROVE  LET c == SubSeq(s, i + 1, j)
           IN /\ c \in Seqs /\ Len(c) = j - i /\ DOMAIN c = 1 .. j - i
              /\ \A k \in 1 .. j - i : c[k] = s[i + k]
<1> DEFINE c == SubSeq(s, i + 1, j)
<1>1. Len(s) \in Nat /\ i \in Nat /\ j \in Nat /\ i <= j /\ j <= Len(s) /\ s \in Seq(Node)
  BY DEF Seqs
<1>2. c \in Seq(Node)
  BY <1>1
<1>3. Len(c) = j - i
  BY <1>1
<1>4. ASSUME NEW k \in 1 .. j - i PROVE c[k] = s[i + k]
  <2>1. k \in 1 .. Len(c) /\ (i + 1) + k - 1 = i + k
    BY <1>1, <1>3
  <2> QED
    BY <1>1, <2>1
<1> HIDE DEF c
<1>5. DOMAIN c = 1 .. j - i
  BY <1>2, <1>3
<1> QED
  BY <1>2, <1>3, <1>4, <1>5 DEF c, Seqs

\* A sequence is what comes up to a place and what comes behind it.
LEMMA Split ==
    ASSUME NEW s \in Seqs, NEW i \in 0 .. Len(s)
    PROVE  LET a == SubSeq(s, 1, i)
               b == SubSeq(s, i + 1, Len(s))
           IN /\ a \in Seqs /\ b \in Seqs /\ s = Cat(a, b)
              /\ Len(a) = i /\ Len(b) = Len(s) - i
              /\ Range(a) = {s[k] : k \in 1 .. i} /\ Range(b) = {s[k] : k \in i + 1 .. Len(s)}
<1> DEFINE a == SubSeq(s, 1, i)
           b == SubSeq(s, i + 1, Len(s))
           N == Len(s)
<1>1. N \in Nat /\ i \in Nat /\ i <= N /\ DOMAIN s = 1 .. N
  BY DEF Seqs
<1>2. a \in Seqs /\ Len(a) = i /\ \A k \in 1 .. i : a[k] = s[k]
  <2>1. 0 \in 0 .. Len(s) /\ i \in 0 .. Len(s) /\ 0 + 1 = 1 /\ i - 0 = i /\ \A k \in 1 .. i : 0 + k = k
    BY <1>1
  <2> QED
    BY <2>1, Part
<1>3. b \in Seqs /\ Len(b) = N - i /\ \A k \in 1 .. N - i : b[k] = s[i + k]
  <2>1. Len(s) \in i .. Len(s)
    BY <1>1
  <2> QED
    BY <2>1, Part
<1> HIDE DEF a, b, N
<1> DEFINE c == Cat(a, b)
<1>9. IsCat(c, a, b)
  BY <1>2, <1>3, CatAt
<1> HIDE DEF c
<1>4. /\ c \in Seqs /\ Len(c) = N
      /\ \A k \in 1 .. i : c[k] = a[k]
      /\ \A k \in 1 .. N - i : c[i + k] = b[k]
  BY <1>1, <1>2, <1>3, <1>9 DEF IsCat
<1>5. ASSUME NEW k \in 1 .. N PROVE s[k] = c[k]
  <2>1. CASE k <= i
    BY <1>2, <1>4, <1>1, <2>1
  <2>2. CASE k > i
    <3>1. k - i \in 1 .. N - i /\ i + (k - i) = k
      BY <1>1, <2>2
    <3> QED
      BY <1>3, <1>4, <3>1
  <2> QED
    BY <1>1, <2>1, <2>2
<1>6. s = c
  BY <1>1, <1>4, <1>5, SameSeq DEF N
<1>7. Range(a) = {s[k] : k \in 1 .. i}
  <2>1. DOMAIN a = 1 .. i
    BY <1>2 DEF Seqs
  <2> QED
    BY <1>2, <2>1 DEF Range
<1>8. Range(b) = {s[k] : k \in i + 1 .. N}
  <2>1. DOMAIN b = 1 .. N - i
    BY <1>3 DEF Seqs
  <2>2. ASSUME NEW k \in i + 1 .. N PROVE s[k] \in Range(b)
    <3>1. k - i \in 1 .. N - i /\ i + (k - i) = k
      BY <1>1
    <3> QED
      BY <1>3, <2>1, <3>1 DEF Range
  <2>3. ASSUME NEW k \in 1 .. N - i PROVE b[k] \in {s[m] : m \in i + 1 .. N}
    <3>1. i + k \in i + 1 .. N
      BY <1>1
    <3> QED
      BY <1>3, <3>1
  <2> QED
    BY <2>1, <2>2, <2>3 DEF Range
<1> QED
  BY <1>2, <1>3, <1>6, <1>7, <1>8 DEF a, b, c, N

\* The first i members and the last ones, one by one.
LEMMA Ends ==
    ASSUME NEW s \in Seqs, NEW i \in 1 .. Len(s)
    PROVE  /\ SubSeq(s, 1, i) = Cat(SubSeq(s, 1, i - 1), One(s[i]))
           /\ SubSeq(s, i, Len(s)) = Cat(One(s[i]), SubSeq(s, i + 1, Len(s)))
<1> DEFINE N == Len(s)
           x == s[i]
           o == One(x)
           a == SubSeq(s, 1, i - 1)
           b == SubSeq(s, i + 1, N)
           c == SubSeq(s, 1, i)
           d == SubSeq(s, i, N)
<1>1. N \in Nat /\ i \in Nat /\ 1 <= i /\ i <= N /\ x \in Node
  BY DEF Seqs
<1>2. o \in Seqs /\ Len(o) = 1 /\ o[1] = x
  BY <1>1 DEF One, Seqs
<1>3. a \in Seqs /\ Len(a) = i - 1 /\ \A k \in 1 .. i - 1 : a[k] = s[k]
  <2>1. 0 \in 0 .. Len(s) /\ i - 1 \in 0 .. Len(s) /\ 0 + 1 = 1 /\ (i - 1) - 0 = i - 1
        /\ \A k \in 1 .. i - 1 : 0 + k = k
    BY <1>1
  <2> QED
    BY <2>1, Part
<1>4. b \in Seqs /\ Len(b) = N - i /\ \A k \in 1 .. N - i : b[k] = s[i + k]
  <2>1. Len(s) \in i .. Len(s) /\ i \in 0 .. Len(s)
    BY <1>1
  <2> QED
    BY <2>1, Part
<1>5. c \in Seqs /\ Len(c) = i /\ \A k \in 1 .. i : c[k] = s[k]
  <2>1. 0 \in 0 .. Len(s) /\ i \in 0 .. Len(s) /\ 0 + 1 = 1 /\ i - 0 = i
        /\ \A k \in 1 .. i : 0 + k = k
    BY <1>1
  <2> QED
    BY <2>1, Part
<1>6. d \in Seqs /\ Len(d) = N - i + 1 /\ \A k \in 1 .. N - i + 1 : d[k] = s[i + k - 1]
  <2> DEFINE h == i - 1
  <2>1. Len(s) \in h .. Len(s) /\ h \in 0 .. Len(s) /\ h + 1 = i /\ N - h = N - i + 1
        /\ \A k \in 1 .. N - i + 1 : h + k = i + k - 1
    BY <1>1
  <2> HIDE DEF h
  <2>2. LET e == SubSeq(s, h + 1, Len(s))
        IN e \in Seqs /\ Len(e) = Len(s) - h /\ \A k \in 1 .. Len(s) - h : e[k] = s[h + k]
    BY <2>1, Part
  <2> QED
    BY <2>1, <2>2
<1> HIDE DEF N, x, o, a, b, c, d
<1>7. c = Cat(a, o)
  <2> DEFINE e == Cat(a, o)
  <2>1. IsCat(e, a, o)
    BY <1>2, <1>3, CatAt
  <2> HIDE DEF e
  <2>2. e \in Seqs /\ Len(e) = i /\ e[i] = x /\ \A k \in 1 .. i - 1 : e[k] = a[k]
    <3>1. (i - 1) + 1 = i /\ 1 \in 1 .. 1
      BY <1>1
    <3> QED
      BY <1>2, <1>3, <2>1, <3>1 DEF IsCat
  <2>3. ASSUME NEW k \in 1 .. i PROVE c[k] = e[k]
    <3>1. k = i \/ k \in 1 .. i - 1
      BY <1>1
    <3> QED
      BY <1>3, <1>5, <2>2, <3>1 DEF x
  <2> QED
    BY <1>5, <2>2, <2>3, SameSeq DEF e
<1>8. d = Cat(o, b)
  <2> DEFINE e == Cat(o, b)
  <2>1. IsCat(e, o, b)
    BY <1>2, <1>4, CatAt
  <2> HIDE DEF e
  <2>2. e \in Seqs /\ Len(e) = N - i + 1 /\ e[1] = x /\ \A k \in 1 .. N - i : e[1 + k] = b[k]
    <3>1. 1 + (N - i) = N - i + 1 /\ 1 \in 1 .. 1
      BY <1>1
    <3> QED
      BY <1>2, <1>4, <2>1, <3>1 DEF IsCat
  <2>3. ASSUME NEW k \in 1 .. N - i + 1 PROVE d[k] = e[k]
    <3>1. CASE k = 1
      <4>1. i + 1 - 1 = i
        BY <1>1
      <4> QED
        BY <1>6, <2>2, <3>1, <4>1 DEF x
    <3>2. CASE k # 1
      <4>1. k - 1 \in 1 .. N - i /\ 1 + (k - 1) = k /\ i + (k - 1) = i + k - 1
        BY <1>1, <3>2
      <4> QED
        BY <1>4, <1>6, <2>2, <4>1
    <3> QED
      BY <3>1, <3>2
  <2> QED
    BY <1>6, <2>2, <2>3, SameSeq DEF e
<1> QED
  BY <1>7, <1>8 DEF N, x, o, a, b, c, d

\* s is a, then n, then b; n is there once.
Around(s, n, a, b) ==
    a \in Seqs /\ b \in Seqs /\ s = Cat(a, Cat(One(n), b)) /\ n \notin Range(a) /\ n \notin Range(b)

\* A sequence around the member at a position.
LEMMA AroundAt ==
    ASSUME NEW s \in Seqs, IsInjective(s), NEW i \in 1 .. Len(s)
    PROVE  LET a == SubSeq(s, 1, i - 1)
               b == SubSeq(s, i + 1, Len(s))
           IN Around(s, s[i], a, b) /\ Splice(s, i - 1, i, <<>>) = Cat(a, b)
<1> DEFINE a == SubSeq(s, 1, i - 1)
           b == SubSeq(s, i + 1, Len(s))
           d == SubSeq(s, i, Len(s))
<1>1. /\ Len(s) \in Nat /\ i \in Nat /\ 1 <= i /\ i <= Len(s) /\ s[i] \in Node
      /\ DOMAIN s = 1 .. Len(s) /\ i - 1 \in 0 .. Len(s) /\ i \in 0 .. Len(s) /\ (i - 1) + 1 = i
  BY DEF Seqs
<1>2. /\ a \in Seqs /\ d \in Seqs /\ s = Cat(a, d)
      /\ Range(a) = {s[k] : k \in 1 .. i - 1}
  <2> DEFINE h == i - 1
  <2>1. h \in 0 .. Len(s) /\ h + 1 = i
    BY <1>1
  <2> HIDE DEF h
  <2>2. LET x == SubSeq(s, 1, h)
            y == SubSeq(s, h + 1, Len(s))
        IN x \in Seqs /\ y \in Seqs /\ s = Cat(x, y) /\ Range(x) = {s[k] : k \in 1 .. h}
    BY <2>1, Split
  <2> QED
    BY <2>1, <2>2 DEF h
<1>3. b \in Seqs /\ Range(b) = {s[k] : k \in i + 1 .. Len(s)}
  BY <1>1, Split
<1>4. d = Cat(One(s[i]), b)
  BY Ends
<1>5. s[i] \notin Range(a) /\ s[i] \notin Range(b)
  <2>1. ASSUME NEW k \in 1 .. Len(s), s[k] = s[i] PROVE k = i
    BY <1>1, <2>1 DEF IsInjective
  <2>2. ASSUME NEW k \in 1 .. i - 1 PROVE s[k] # s[i]
    <3>1. k \in 1 .. Len(s) /\ k # i
      BY <1>1
    <3> QED
      BY <2>1, <3>1
  <2>3. ASSUME NEW k \in i + 1 .. Len(s) PROVE s[k] # s[i]
    <3>1. k \in 1 .. Len(s) /\ k # i
      BY <1>1
    <3> QED
      BY <2>1, <3>1
  <2> QED
    BY <1>2, <1>3, <2>2, <2>3
<1>6. Splice(s, i - 1, i, <<>>) = Cat(a, b)
  <2>1. Cat(Cat(a, Nil), b) = Cat(a, b)
    BY <1>2, CatLaws
  <2> QED
    BY <2>1 DEF Splice, Cat, Nil
<1> HIDE DEF a, b, d
<1>7. Around(s, s[i], a, b)
  BY <1>2, <1>3, <1>4, <1>5 DEF Around
<1> QED
  BY <1>6, <1>7 DEF a, b

\* Members without a share show nothing.
LEMMA JointNil ==
    ASSUME NEW f \in Shares, NEW s \in Seqs, \A x \in Range(s) : f[x] = Nil
    PROVE  Joint(f, s) = Nil
<1>1. \A x \in Range(s) : Range(f[x]) \subseteq {}
  BY CatMembers
<1>2. Range(Joint(f, s)) \subseteq {}
  BY <1>1, JointMembers DEF Seqs
<1>3. DOMAIN Joint(f, s) = {}
  BY <1>2 DEF Range
<1>4. Joint(f, s) \in Seq(Node)
  BY JointLaws DEF Seqs
<1> QED
  BY <1>3, <1>4, EmptySeq DEF Nil

\* Members that are their own share show the sequence itself.
LEMMA JointSelf ==
    ASSUME NEW f \in Shares, NEW s \in Seqs, \A x \in Range(s) : f[x] = One(x)
    PROVE  Joint(f, s) = s
<1> DEFINE N == Len(s)
           g == [k \in 0 .. N |-> SubSeq(s, 1, k)]
<1>1. N \in Nat /\ DOMAIN s = 1 .. N /\ s \in Seq(Node)
  BY DEF Seqs
<1>2. \A k \in 0 .. N : g[k] = SubSeq(s, 1, k)
  OBVIOUS
<1>3. ASSUME NEW k \in 0 .. N PROVE SubSeq(s, 1, k) \in Seq(Node)
  BY Split DEF Seqs
<1>4. g \in [0 .. N -> Seq(Node)]
  BY <1>3
<1>5. SubSeq(s, 1, 0) = <<>> /\ SubSeq(s, 1, N) = s
  <2>1. SubSeq(s, 1, 0) = <<>>
    BY <1>1
  <2> QED
    BY <1>1, <2>1, WholeSeq
<1> HIDE DEF g, N
<1>6. ASSUME NEW i \in 1 .. N PROVE g[i] = g[i - 1] \o f[s[i]]
  <2>1. i \in 0 .. N /\ i - 1 \in 0 .. N /\ i \in 1 .. Len(s)
    BY <1>1 DEF N
  <2>2. SubSeq(s, 1, i) = SubSeq(s, 1, i - 1) \o One(s[i])
    BY <2>1, Ends DEF Cat
  <2>3. f[s[i]] = One(s[i])
    BY <1>1 DEF Range
  <2> QED
    BY <1>2, <2>1, <2>2, <2>3
<1>7. 0 \in 0 .. N /\ N \in 0 .. N
  BY <1>1
<1>8. Running(g, f, s)
  BY <1>2, <1>4, <1>5, <1>6, <1>7 DEF Running, N
<1>9. Joint(f, s) = g[N]
  BY <1>1, <1>8, JointIs DEF N
<1> QED
  BY <1>2, <1>5, <1>7, <1>9

\* f, with nothing for n.
Mute(f, n) == [f EXCEPT ![n] = Nil]

\* Muting a node changes nothing where it is not listed.
LEMMA MuteIs ==
    ASSUME NEW f \in Shares, NEW n \in Node
    PROVE  /\ Mute(f, n) \in Shares /\ Mute(f, n)[n] = Nil
           /\ \A x \in Node : x # n => Mute(f, n)[x] = f[x]
           /\ \A s \in Seqs : n \notin Range(s) => Joint(Mute(f, n), s) = Joint(f, s)
<1>1. /\ Mute(f, n) \in Shares /\ Mute(f, n)[n] = Nil
      /\ \A x \in Node : x # n => Mute(f, n)[x] = f[x]
  BY CatLaws DEF Mute, Shares, Seqs
<1>2. ASSUME NEW s \in Seqs, n \notin Range(s) PROVE Joint(Mute(f, n), s) = Joint(f, s)
  <2>1. \A x \in Range(s) : Mute(f, n)[x] = f[x]
    BY <1>1, <1>2, CatMembers
  <2>2. s \in Seq(Node) /\ Mute(f, n) \in Shares
    BY <1>1 DEF Seqs
  <2> HIDE DEF Mute
  <2> QED
    BY <2>1, <2>2, JointSame
<1> QED
  BY <1>1, <1>2

\* What is around a node, with its share and with the node muted.
LEMMA JointAround ==
    ASSUME NEW f \in Shares, NEW s, NEW n \in Node, NEW a, NEW b, Around(s, n, a, b)
    PROVE  /\ Joint(f, s) = Cat(Joint(f, a), Cat(f[n], Joint(f, b)))
           /\ Joint(Mute(f, n), s) = Cat(Joint(f, a), Joint(f, b))
           /\ Joint(Mute(f, n), s) = Joint(f, Cat(a, b))
<1>1. a \in Seqs /\ b \in Seqs /\ s = Cat(a, Cat(One(n), b)) /\ n \notin Range(a) /\ n \notin Range(b)
  BY DEF Around
<1>2. One(n) \in Seqs /\ Cat(One(n), b) \in Seqs
  BY <1>1, CatLaws
<1>3. ASSUME NEW h \in Shares PROVE Joint(h, s) = Cat(Joint(h, a), Cat(h[n], Joint(h, b)))
  <2>1. Joint(h, s) = Cat(Joint(h, a), Joint(h, Cat(One(n), b)))
    BY <1>1, <1>2, JointLaws
  <2>2. Joint(h, Cat(One(n), b)) = Cat(Joint(h, One(n)), Joint(h, b))
    BY <1>1, <1>2, JointLaws
  <2>3. Joint(h, One(n)) = h[n]
    BY JointLaws
  <2> QED
    BY <2>1, <2>2, <2>3
<1>4. Mute(f, n) \in Shares /\ Mute(f, n)[n] = Nil
  BY MuteIs
<1>5. Joint(Mute(f, n), a) = Joint(f, a) /\ Joint(Mute(f, n), b) = Joint(f, b)
  BY <1>1, MuteIs
<1>6. Joint(f, a) \in Seqs /\ Joint(f, b) \in Seqs
  BY <1>1, JointLaws
<1>7. Joint(Mute(f, n), s) = Cat(Joint(f, a), Joint(f, b))
  <2>1. Joint(Mute(f, n), s) = Cat(Joint(f, a), Cat(Nil, Joint(f, b)))
    BY <1>3, <1>4, <1>5
  <2>2. Cat(Nil, Joint(f, b)) = Joint(f, b)
    BY <1>6, CatLaws
  <2> QED
    BY <2>1, <2>2
<1>8. Joint(f, Cat(a, b)) = Cat(Joint(f, a), Joint(f, b))
  BY <1>1, JointLaws
<1> QED
  BY <1>3, <1>7, <1>8

-----------------------------------------------------------------------------
(* Where a node is listed. *)

\* The lists of a good tree and the parents agree.
LEMMA KidsAre ==
    ASSUME NEW t, Good(t)
    PROVE  /\ \A q \in Node : t.kids[q] \in Seqs /\ IsInjective(t.kids[q])
           /\ \A q, n \in Node : n \in Range(t.kids[q]) <=> t.parent[n] = q
           /\ \A n \in Node : t.parent[n] # NoNode => t.parent[n] \in Node
  BY DEF Good, Tree, Forest, KidsAgree, Seqs

\* Taking a node off its list leaves what was around it.
LEMMA UnlinkAround ==
    ASSUME NEW t, Good(t), NEW n \in Node, t.parent[n] # NoNode
    PROVE  \E a, b : /\ Around(t.kids[t.parent[n]], n, a, b)
                     /\ \A q \in Node : Unlink(t, n).kids[q] =
                          IF q = t.parent[n] THEN Cat(a, b) ELSE t.kids[q]
<1> DEFINE s == t.kids[t.parent[n]]
           i == Position(t, n)
<1>1. i \in 1 .. Len(s) /\ s[i] = n /\ s \in Seqs /\ IsInjective(s)
  BY PositionListed DEF Seqs
<1>2. \A q \in Node : Unlink(t, n).kids[q] =
                          IF q = t.parent[n] THEN Splice(s, i - 1, i, <<>>) ELSE t.kids[q]
  BY UnlinkKids
<1> HIDE DEF s, i
<1>3. PICK a, b : a = SubSeq(s, 1, i - 1) /\ b = SubSeq(s, i + 1, Len(s))
  OBVIOUS
<1>4. Around(s, n, a, b) /\ Splice(s, i - 1, i, <<>>) = Cat(a, b)
  BY <1>1, <1>3, AroundAt
<1> QED
  BY <1>2, <1>4 DEF s

\* What the children show, but for n, is what they show once n is taken out.
LEMMA CutShares ==
    ASSUME NEW t, Good(t), NEW n \in Node, NEW f \in Shares, NEW q \in Node
    PROVE  Joint(f, Unlink(t, n).kids[q]) = Joint(Mute(f, n), t.kids[q])
<1>1. CASE t.parent[n] = NoNode
  <2>1. Unlink(t, n) = t
    BY <1>1 DEF Unlink
  <2>2. n \notin Range(t.kids[q]) /\ t.kids[q] \in Seqs
    BY <1>1, KidsAre, NoNodeIsNoNode
  <2> QED
    BY <2>1, <2>2, MuteIs
<1>2. CASE t.parent[n] # NoNode
  <2>1. PICK a, b : /\ Around(t.kids[t.parent[n]], n, a, b)
                    /\ \A m \in Node : Unlink(t, n).kids[m] =
                          IF m = t.parent[n] THEN Cat(a, b) ELSE t.kids[m]
    BY <1>2, UnlinkAround
  <2>2. CASE q = t.parent[n]
    BY <2>1, <2>2, JointAround
  <2>3. CASE q # t.parent[n]
    <3>1. n \notin Range(t.kids[q]) /\ t.kids[q] \in Seqs
      BY <2>3, KidsAre
    <3> QED
      BY <2>1, <2>3, <3>1, MuteIs
  <2> QED
    BY <2>2, <2>3
<1> QED
  BY <1>1, <1>2

-----------------------------------------------------------------------------
(* What the children of a node show. *)

Share(t) == [x \in Node |-> IF x \in Abnormal THEN Nil ELSE Segment(t, x)]

Shown(t, q) == Joint(Share(t), t.kids[q])

\* The same, but for n.
Rest(t, n, q) == Joint(Mute(Share(t), n), t.kids[q])

\* The share of a node: nothing of an entry, the value of a text, else the node.
LEMMA ShareIs ==
    ASSUME NEW t, Good(t)
    PROVE  /\ Share(t) \in Shares
           /\ \A x \in Node : t.value[x] \in Seqs /\ Segment(t, x) \in Seqs
           /\ \A x \in Normal : x \in Node /\ Share(t)[x] = Segment(t, x)
           /\ \A x \in Abnormal : x \in Node /\ Share(t)[x] = Nil
           /\ \A x \in Texts : x \in Node /\ Share(t)[x] = t.value[x] /\ Segment(t, x) = t.value[x]
           /\ \A x \in Normal \ Texts : Share(t)[x] = One(x) /\ Segment(t, x) = One(x)
<1>1. \A x \in Node : t.value[x] \in Seqs
  BY DEF Good, Tree, Seqs
<1>2. \A x \in Node : Segment(t, x) \in Seqs
  BY <1>1, CatLaws DEF Segment, One
<1>3. Share(t) \in Shares
  BY <1>2, CatLaws DEF Share, Shares, Seqs
<1>4. Normal \subseteq Node /\ Abnormal \subseteq Node /\ Texts \subseteq Normal /\ Normal \cap Abnormal = {}
  BY TextsAreNormal DEF Node
<1>5. \A x \in Node : Share(t)[x] = IF x \in Abnormal THEN Nil ELSE Segment(t, x)
  BY DEF Share
<1> QED
  BY <1>1, <1>2, <1>3, <1>4, <1>5 DEF Segment, One

\* The content of a node is what its children show.
LEMMA ContentIs ==
    ASSUME NEW t, Good(t), Ordered(t), NEW p \in Node
    PROVE  Content(t, p) = Shown(t, p)
<1> DEFINE s == t.kids[p]
           k == Leading(s, Abnormal)
           a == SubSeq(s, 1, k)
           c == SubSeq(s, k + 1, Len(s))
<1>1. s \in Seqs /\ s \in Seq(Node)
  BY KidsAre DEF Seqs
<1>2. k \in 0 .. Len(s) /\ \A i \in 1 .. k : s[i] \in Abnormal
  BY <1>1, LeadingPrefix
<1>3. Len(s) \in Nat /\ DOMAIN s = 1 .. Len(s)
  BY <1>1
<1>4. \A i \in k + 1 .. Len(s) : s[i] \in Normal
  <2>1. ASSUME NEW i \in k + 1 .. Len(s) PROVE i \in DOMAIN t.kids[p] /\ Leading(t.kids[p], Abnormal) < i
    BY <1>2, <1>3
  <2> QED
    BY <2>1, BehindLeading
<1>5. Children(t, p) = c
  BY DEF Children
<1> HIDE DEF k, s
<1>6. /\ a \in Seqs /\ c \in Seqs /\ s = Cat(a, c)
      /\ Range(a) = {s[i] : i \in 1 .. k} /\ Range(c) = {s[i] : i \in k + 1 .. Len(s)}
  BY <1>1, <1>2, Split
<1> HIDE DEF a, c
<1>7. Joint(Share(t), s) = Cat(Joint(Share(t), a), Joint(Share(t), c))
  BY <1>6, ShareIs, JointLaws
<1>8. Joint(Share(t), a) = Nil
  <2>1. \A x \in Range(a) : Share(t)[x] = Nil
    BY <1>2, <1>6, ShareIs
  <2> QED
    BY <1>6, <2>1, ShareIs, JointNil
<1>9. Joint(Share(t), c) \in Seqs
  BY <1>6, ShareIs, JointLaws
<1>10. Joint(Share(t), s) = Joint(Share(t), c)
  BY <1>7, <1>8, <1>9, CatLaws
<1>11. \A i \in DOMAIN c : Share(t)[c[i]] = Segment(t, c[i])
  <2>1. \A i \in DOMAIN c : c[i] \in Normal
    BY <1>4, <1>6 DEF Range
  <2> QED
    BY <2>1, ShareIs
<1>12. [i \in DOMAIN c |-> Share(t)[c[i]]] = [i \in DOMAIN c |-> Segment(t, c[i])]
  BY <1>11
<1>13. Joint(Share(t), c) = Content(t, p)
  BY <1>5, <1>12 DEF Joint, Content
<1> QED
  BY <1>10, <1>13 DEF Shown, s

\* Different nodes show different things.
LEMMA SegmentsApart ==
    ASSUME NEW t, Good(t), HeldOnce(t), Written(t), NEW m \in Normal, NEW n \in Normal, m # n
    PROVE  Range(Segment(t, m)) \cap Range(Segment(t, n)) = {}
<1>1. ASSUME NEW x \in Normal PROVE Range(Segment(t, x)) \subseteq IF x \in Texts THEN Texts ELSE {x}
  <2>1. CASE x \in Texts
    <3>1. Segment(t, x) = t.value[x]
      BY <2>1, ShareIs
    <3> QED
      BY <2>1, <3>1 DEF Written, Range
  <2>2. CASE x \notin Texts
    BY <2>2, ShareIs, CatMembers
  <2> QED
    BY <2>1, <2>2
<1>2. CASE m \notin Texts \/ n \notin Texts
  BY <1>1, <1>2
<1>3. CASE m \in Texts /\ n \in Texts
  <2>1. Segment(t, m) = t.value[m] /\ Segment(t, n) = t.value[n]
    BY <1>3, ShareIs
  <2> QED
    BY <1>3, <2>1 DEF HeldOnce, Range
<1> QED
  BY <1>2, <1>3

\* Taking what n shows out of what the children of a node show leaves what
\* the others show.
LEMMA WithoutIs ==
    ASSUME NEW t, Good(t), HeldOnce(t), Written(t), NEW n \in Normal, NEW q \in Node
    PROVE  Without(Shown(t, q), Segment(t, n)) = Rest(t, n, q)
<1> DEFINE seg == Segment(t, n)
           s == t.kids[q]
           h == Share(t)
           e == Mute(h, n)
           f == [y \in Node |-> IF y \in Range(seg) THEN Nil ELSE One(y)]
           r == Joint(h, s)
<1>1. s \in Seqs /\ h \in Shares /\ n \in Node
  BY KidsAre, ShareIs
<1>2. e \in Shares /\ e[n] = Nil /\ \A x \in Node : x # n => e[x] = h[x]
  BY <1>1, MuteIs
<1>3. f \in Shares
  BY CatLaws DEF Shares, Seqs
<1>4. \A y \in Node : /\ y \in Range(seg) => f[y] = Nil
                      /\ y \notin Range(seg) => f[y] = One(y)
  OBVIOUS
<1> HIDE DEF f
<1>5. ASSUME NEW x \in Node PROVE e[x] = Joint(f, h[x])
  <2>1. h[x] \in Seqs /\ Range(h[x]) \subseteq Node
    BY <1>1, JointLaws, CatMembers
  <2>2. CASE x = n
    <3>1. h[x] = seg
      BY <2>2, ShareIs
    <3>2. \A y \in Range(h[x]) : f[y] = Nil
      BY <1>4, <2>1, <3>1
    <3>3. Joint(f, h[x]) = Nil
      BY <1>3, <2>1, <3>2, JointNil
    <3> QED
      BY <1>2, <2>2, <3>3
  <2>3. CASE x # n
    <3>1. Range(h[x]) \cap Range(seg) = {}
      <4>1. CASE x \in Abnormal
        BY <4>1, ShareIs, CatMembers
      <4>2. CASE x \in Normal
        BY <2>3, <4>2, ShareIs, SegmentsApart
      <4> QED
        BY <4>1, <4>2 DEF Node
    <3>2. \A y \in Range(h[x]) : f[y] = One(y)
      BY <1>4, <2>1, <3>1
    <3>3. Joint(f, h[x]) = h[x]
      BY <1>3, <2>1, <3>2, JointSelf
    <3> QED
      BY <1>2, <2>3, <3>3
  <2> QED
    BY <2>2, <2>3
<1> HIDE DEF e, h
<1>6. Joint(f, r) = Joint(e, s)
  <2>1. s \in Seq(Node) /\ \A x \in Range(s) : e[x] = Joint(f, h[x])
    BY <1>1, <1>5, CatMembers DEF Seqs
  <2> QED
    BY <1>1, <1>2, <1>3, <2>1, JointTwice
<1>7. Without(r, seg) = Joint(f, r)
  <2>1. r \in Seqs
    BY <1>1, JointLaws
  <2> HIDE DEF r
  <2>2. ASSUME NEW i \in DOMAIN r
        PROVE  f[r[i]] = IF r[i] \in Range(seg) THEN <<>> ELSE <<r[i]>>
    <3>1. r[i] \in Node
      BY <2>1, CatMembers DEF Range
    <3> QED
      BY <1>4, <3>1 DEF Nil, One
  <2>3. [i \in DOMAIN r |-> f[r[i]]] =
            [i \in DOMAIN r |-> IF r[i] \in Range(seg) THEN <<>> ELSE <<r[i]>>]
    BY <2>2
  <2>4. ToSet(seg) = Range(seg)
    BY DEF ToSet, Range
  <2> QED
    BY <2>3, <2>4 DEF Without, Joint
<1> QED
  BY <1>6, <1>7 DEF Shown, Rest, h, e, r

-----------------------------------------------------------------------------
(* Texts that meet. *)

\* s is a, then x and y, then b; x and y are there once.
Pair(s, x, y, a, b) ==
    /\ a \in Seqs /\ b \in Seqs /\ s = Cat(a, Cat(One(x), Cat(One(y), b))) /\ x # y
    /\ {x, y} \cap Range(a) = {} /\ {x, y} \cap Range(b) = {}

\* s is a, then x, n and y, then b, each of the three once.
Trio(s, x, n, y, a, b) ==
    /\ a \in Seqs /\ b \in Seqs
    /\ s = Cat(a, Cat(One(x), Cat(One(n), Cat(One(y), b))))
    /\ {x, n, y} \cap Range(a) = {} /\ {x, n, y} \cap Range(b) = {}
    /\ x # n /\ n # y /\ x # y

\* Two neighbours by their position.
LEMMA PairAt ==
    ASSUME NEW s \in Seqs, IsInjective(s), NEW i \in 1 .. Len(s), i + 1 \in 1 .. Len(s)
    PROVE  Pair(s, s[i], s[i + 1], SubSeq(s, 1, i - 1), SubSeq(s, i + 2, Len(s)))
<1> DEFINE a == SubSeq(s, 1, i - 1)
           b == SubSeq(s, i + 2, Len(s))
           a2 == SubSeq(s, 1, i)
           b2 == SubSeq(s, i + 1, Len(s))
           x == s[i]
           y == s[i + 1]
<1>1. x \in Node /\ y \in Node /\ (i + 1) + 1 = i + 2 /\ (i + 1) - 1 = i
  BY DEF Seqs
<1>2. Around(s, x, a, b2)
  BY AroundAt
<1>3. Around(s, y, a2, b)
  <2> DEFINE j == i + 1
  <2>1. j \in 1 .. Len(s) /\ j = i + 1
    OBVIOUS
  <2> HIDE DEF j
  <2>2. Around(s, s[j], SubSeq(s, 1, j - 1), SubSeq(s, j + 1, Len(s)))
    BY <2>1, AroundAt
  <2> QED
    BY <1>1, <2>1, <2>2
<1>4. a2 = Cat(a, One(x))
  BY Ends
<1>5. b2 = Cat(One(y), b)
  <2> DEFINE j == i + 1
  <2>1. j \in 1 .. Len(s) /\ j = i + 1
    OBVIOUS
  <2> HIDE DEF j
  <2>2. SubSeq(s, j, Len(s)) = Cat(One(s[j]), SubSeq(s, j + 1, Len(s)))
    BY <2>1, Ends
  <2> QED
    BY <1>1, <2>1, <2>2
<1> HIDE DEF a, b, a2, b2, x, y
<1>6. a \in Seqs /\ b \in Seqs /\ One(x) \in Seqs /\ One(y) \in Seqs
  BY <1>1, <1>2, <1>3, CatLaws DEF Around
<1>7. Range(a2) = Range(a) \cup {x} /\ Range(b2) = {y} \cup Range(b)
  BY <1>1, <1>4, <1>5, <1>6, CatMembers
<1>8. x \notin Range(a) /\ x \notin Range(b2) /\ y \notin Range(a2) /\ y \notin Range(b)
  BY <1>2, <1>3 DEF Around
<1>9. s = Cat(a, Cat(One(x), Cat(One(y), b)))
  BY <1>2, <1>5 DEF Around
<1>10. Pair(s, x, y, a, b)
  BY <1>6, <1>7, <1>8, <1>9 DEF Pair
<1> QED
  BY <1>10 DEF a, b, x, y

\* Two neighbours in a sequence.
LEMMA NextToPair ==
    ASSUME NEW s \in Seqs, IsInjective(s), NEW x, NEW y, NextTo(s, x, y)
    PROVE  \E a, b : Pair(s, x, y, a, b)
<1>1. PICK i \in DOMAIN s : i + 1 \in DOMAIN s /\ s[i] = x /\ s[i + 1] = y
  BY DEF NextTo
<1>2. DOMAIN s = 1 .. Len(s)
  BY DEF Seqs
<1>3. i \in 1 .. Len(s) /\ i + 1 \in 1 .. Len(s)
  BY <1>1, <1>2
<1>4. Pair(s, s[i], s[i + 1], SubSeq(s, 1, i - 1), SubSeq(s, i + 2, Len(s)))
  BY <1>3, PairAt
<1> QED
  BY <1>1, <1>4

\* Three neighbours in a sequence.
LEMMA NextToTrio ==
    ASSUME NEW s \in Seqs, IsInjective(s), NEW x, NEW n, NEW y, NextTo(s, x, n), NextTo(s, n, y)
    PROVE  \E a, b : Trio(s, x, n, y, a, b)
<1>1. PICK i \in DOMAIN s : i + 1 \in DOMAIN s /\ s[i] = x /\ s[i + 1] = n
  BY DEF NextTo
<1>2. PICK j \in DOMAIN s : j + 1 \in DOMAIN s /\ s[j] = n /\ s[j + 1] = y
  BY DEF NextTo
<1>3. j = i + 1
  BY <1>1, <1>2 DEF IsInjective
<1>4. DOMAIN s = 1 .. Len(s)
  BY DEF Seqs
<1>5. /\ i \in 1 .. Len(s) /\ i + 1 \in 1 .. Len(s) /\ j \in 1 .. Len(s) /\ j + 1 \in 1 .. Len(s)
      /\ j - 1 = i /\ i + 2 = j + 1
  BY <1>1, <1>2, <1>3, <1>4
<1>6. PICK a, b, c, d : /\ a = SubSeq(s, 1, i - 1) /\ b = SubSeq(s, j + 1, Len(s))
                        /\ c = SubSeq(s, 1, i) /\ d = SubSeq(s, j + 2, Len(s))
  OBVIOUS
<1>7. Pair(s, x, n, a, b)
  <2>1. Pair(s, s[i], s[i + 1], SubSeq(s, 1, i - 1), SubSeq(s, i + 2, Len(s)))
    BY <1>5, PairAt
  <2> QED
    BY <1>1, <1>5, <1>6, <2>1
<1>8. Pair(s, n, y, c, d)
  <2>1. Pair(s, s[j], s[j + 1], SubSeq(s, 1, j - 1), SubSeq(s, j + 2, Len(s)))
    BY <1>5, PairAt
  <2> QED
    BY <1>2, <1>5, <1>6, <2>1
<1>9. c = Cat(a, One(x))
  BY <1>1, <1>5, <1>6, Ends
<1>10. b = Cat(One(y), d)
  <2> DEFINE k == j + 1
  <2>1. k \in 1 .. Len(s) /\ k = j + 1 /\ j + 2 = k + 1
    BY <1>5
  <2> HIDE DEF k
  <2>2. SubSeq(s, k, Len(s)) = Cat(One(s[k]), SubSeq(s, k + 1, Len(s)))
    BY <2>1, Ends
  <2> QED
    BY <1>2, <1>6, <2>1, <2>2
<1>11. x \in Node /\ n \in Node /\ y \in Node
  BY <1>1, <1>2 DEF Seqs
<1>12. a \in Seqs /\ b \in Seqs /\ c \in Seqs /\ d \in Seqs /\ One(x) \in Seqs /\ One(y) \in Seqs
  BY <1>7, <1>8, <1>11, CatLaws DEF Pair
<1>13. Range(c) = Range(a) \cup {x} /\ Range(b) = {y} \cup Range(d)
  BY <1>9, <1>10, <1>11, <1>12, CatMembers
<1>14. s = Cat(a, Cat(One(x), Cat(One(n), Cat(One(y), d))))
  BY <1>7, <1>10 DEF Pair
<1> QED
  BY <1>7, <1>8, <1>12, <1>13, <1>14 DEF Pair, Trio

\* The law of association, for three given sequences.
LEMMA CatAssociates ==
    ASSUME NEW x \in Seqs, NEW y \in Seqs, NEW z \in Seqs
    PROVE  Cat(Cat(x, y), z) = Cat(x, Cat(y, z))
  BY CatLaws

\* What a sequence shows with the share of x taken to be v.
LEMMA JointParts ==
    ASSUME NEW h \in Shares, NEW x \in Node, NEW y \in Node, NEW a \in Seqs, NEW m \in Seqs, NEW b \in Seqs
    PROVE  /\ Joint(h, Cat(a, Cat(One(x), b))) = Cat(Joint(h, a), Cat(h[x], Joint(h, b)))
           /\ Joint(h, Cat(a, Cat(One(x), Cat(m, Cat(One(y), b)))))
                = Cat(Joint(h, a), Cat(h[x], Cat(Joint(h, m), Cat(h[y], Joint(h, b)))))
<1>1. ASSUME NEW z \in Node, NEW c \in Seqs, NEW d \in Seqs
      PROVE  Joint(h, Cat(c, Cat(One(z), d))) = Cat(Joint(h, c), Cat(h[z], Joint(h, d)))
  <2>1. One(z) \in Seqs /\ Cat(One(z), d) \in Seqs
    BY CatLaws
  <2>2. Joint(h, Cat(c, Cat(One(z), d))) = Cat(Joint(h, c), Joint(h, Cat(One(z), d)))
    BY <2>1, JointLaws
  <2>3. Joint(h, Cat(One(z), d)) = Cat(Joint(h, One(z)), Joint(h, d))
    BY <2>1, JointLaws
  <2>4. Joint(h, One(z)) = h[z]
    BY JointLaws
  <2> QED
    BY <2>2, <2>3, <2>4
<1>2. Cat(One(y), b) \in Seqs /\ Cat(m, Cat(One(y), b)) \in Seqs
  BY CatLaws
<1>3. Joint(h, Cat(m, Cat(One(y), b))) = Cat(Joint(h, m), Cat(h[y], Joint(h, b)))
  BY <1>1
<1> QED
  BY <1>1, <1>2, <1>3

\* x takes what y shows, and only silent members lie between them.
LEMMA Regrouped ==
    ASSUME NEW f \in Shares, NEW h \in Shares, NEW x \in Node, NEW y \in Node,
           NEW a \in Seqs, NEW m \in Seqs, NEW b \in Seqs,
           h[x] = Cat(f[x], f[y]), h[y] = Nil,
           Joint(f, m) = Nil, Joint(h, m) = Nil,
           \A z \in Range(a) \cup Range(b) : h[z] = f[z]
    PROVE  LET s == Cat(a, Cat(One(x), Cat(m, Cat(One(y), b)))) IN Joint(h, s) = Joint(f, s)
<1> DEFINE s == Cat(a, Cat(One(x), Cat(m, Cat(One(y), b))))
           p == Joint(f, a)
           q == Joint(f, b)
<1>1. Joint(h, a) = p /\ Joint(h, b) = q
  BY JointSame DEF Seqs
<1>2. p \in Seqs /\ q \in Seqs /\ f[x] \in Seqs /\ f[y] \in Seqs
  BY JointLaws
<1>3. Joint(f, s) = Cat(p, Cat(f[x], Cat(Nil, Cat(f[y], q))))
  BY JointParts
<1>4. Joint(h, s) = Cat(Joint(h, a), Cat(h[x], Cat(Joint(h, m), Cat(h[y], Joint(h, b)))))
  BY JointParts
<1>5. Joint(h, s) = Cat(p, Cat(Cat(f[x], f[y]), Cat(Nil, Cat(Nil, q))))
  BY <1>1, <1>4
<1> HIDE DEF s, p, q
<1>6. Cat(f[y], q) \in Seqs /\ Cat(Nil, q) = q /\ Cat(Nil, Cat(f[y], q)) = Cat(f[y], q)
  BY <1>2, CatLaws
<1>7. Cat(Cat(f[x], f[y]), q) = Cat(f[x], Cat(f[y], q))
  BY <1>2, CatAssociates
<1>8. Joint(h, s) = Joint(f, s)
  BY <1>3, <1>5, <1>6, <1>7
<1> QED
  BY <1>8 DEF s

\* h gives x what f gives to x and y, and nothing to y.
Joins(f, h, x, y) ==
    /\ f \in Shares /\ h \in Shares
    /\ h[x] = Cat(f[x], f[y]) /\ h[y] = Nil
    /\ \A z \in Node : z # x /\ z # y => h[z] = f[z]

\* A sequence shows the same after two neighbours were merged.
LEMMA PairJoined ==
    ASSUME NEW f, NEW h, NEW x \in Node, NEW y \in Node, Joins(f, h, x, y),
           NEW s, NEW a, NEW b, Pair(s, x, y, a, b)
    PROVE  Joint(h, s) = Joint(f, s)
<1>1. /\ a \in Seqs /\ b \in Seqs /\ s = Cat(a, Cat(One(x), Cat(One(y), b))) /\ x # y
      /\ {x, y} \cap Range(a) = {} /\ {x, y} \cap Range(b) = {}
  BY DEF Pair
<1>2. f \in Shares /\ h \in Shares /\ h[x] = Cat(f[x], f[y]) /\ h[y] = Nil
  BY DEF Joins
<1>3. \A z \in Range(a) \cup Range(b) : h[z] = f[z]
  BY <1>1, CatMembers DEF Joins
<1>4. Nil \in Seqs /\ One(y) \in Seqs /\ Cat(One(y), b) \in Seqs /\ Cat(Nil, Cat(One(y), b)) = Cat(One(y), b)
  BY <1>1, CatLaws
<1>5. Joint(f, Nil) = Nil /\ Joint(h, Nil) = Nil
  BY <1>2, JointLaws
<1>6. LET r == Cat(a, Cat(One(x), Cat(Nil, Cat(One(y), b)))) IN Joint(h, r) = Joint(f, r)
  BY <1>1, <1>2, <1>3, <1>4, <1>5, Regrouped
<1> QED
  BY <1>1, <1>4, <1>6

\* A sequence shows the same after two were merged around a mute node.
LEMMA TrioJoined ==
    ASSUME NEW f, NEW h, NEW x \in Node, NEW y \in Node, Joins(f, h, x, y),
           NEW n \in Node, f[n] = Nil, h[n] = Nil,
           NEW s, NEW a, NEW b, Trio(s, x, n, y, a, b)
    PROVE  Joint(h, s) = Joint(f, s)
<1>1. /\ a \in Seqs /\ b \in Seqs
      /\ s = Cat(a, Cat(One(x), Cat(One(n), Cat(One(y), b)))) /\ x # y
      /\ {x, n, y} \cap Range(a) = {} /\ {x, n, y} \cap Range(b) = {}
  BY DEF Trio
<1>2. f \in Shares /\ h \in Shares /\ h[x] = Cat(f[x], f[y]) /\ h[y] = Nil
  BY DEF Joins
<1>3. \A z \in Range(a) \cup Range(b) : h[z] = f[z]
  BY <1>1, CatMembers DEF Joins
<1>4. One(n) \in Seqs
  BY CatLaws
<1>5. Joint(f, One(n)) = Nil /\ Joint(h, One(n)) = Nil
  BY <1>2, JointLaws
<1>6. LET r == Cat(a, Cat(One(x), Cat(One(n), Cat(One(y), b)))) IN Joint(h, r) = Joint(f, r)
  BY <1>1, <1>2, <1>3, <1>4, <1>5, Regrouped
<1> QED
  BY <1>1, <1>6

\* Two texts of one parent with nothing between them that shows: joining them
\* changes what no node shows.
LEMMA JoinedHere ==
    ASSUME NEW t, Good(t), NEW f, NEW h, NEW x \in Node, NEW y \in Node, Joins(f, h, x, y),
           \/ Beside(t, x, y)
           \/ \E n \in Node : Beside(t, x, n) /\ Beside(t, n, y) /\ f[n] = Nil /\ h[n] = Nil,
           NEW q \in Node
    PROVE  Joint(h, t.kids[q]) = Joint(f, t.kids[q])
<1>1. t.kids[q] \in Seqs /\ IsInjective(t.kids[q])
  BY KidsAre
<1>2. f \in Shares /\ h \in Shares
  BY DEF Joins
<1>3. CASE q # t.parent[x] /\ q # t.parent[y]
  <2>1. x \notin Range(t.kids[q]) /\ y \notin Range(t.kids[q])
    BY <1>3, KidsAre
  <2>2. \A z \in Range(t.kids[q]) : h[z] = f[z]
    BY <1>1, <2>1, CatMembers DEF Joins
  <2> QED
    BY <1>1, <1>2, <2>2, JointSame DEF Seqs
<1>4. CASE Beside(t, x, y) /\ (q = t.parent[x] \/ q = t.parent[y])
  <2>1. NextTo(t.kids[q], x, y)
    BY <1>4, BesideListed
  <2>2. PICK a, b : Pair(t.kids[q], x, y, a, b)
    BY <1>1, <2>1, NextToPair
  <2> QED
    BY <2>2, PairJoined
<1>5. CASE (\E n \in Node : Beside(t, x, n) /\ Beside(t, n, y) /\ f[n] = Nil /\ h[n] = Nil)
           /\ (q = t.parent[x] \/ q = t.parent[y])
  <2>1. PICK n \in Node : Beside(t, x, n) /\ Beside(t, n, y) /\ f[n] = Nil /\ h[n] = Nil
    BY <1>5
  <2>2. t.parent[x] = t.parent[n] /\ t.parent[y] = t.parent[n]
    BY <2>1, BesideListed
  <2>3. NextTo(t.kids[q], x, n) /\ NextTo(t.kids[q], n, y)
    BY <1>5, <2>1, <2>2, BesideListed
  <2>4. PICK a, b : Trio(t.kids[q], x, n, y, a, b)
    BY <1>1, <2>3, NextToTrio
  <2> QED
    BY <2>1, <2>4, TrioJoined
<1> QED
  BY <1>3, <1>4, <1>5

\* When y gives its text to x.
LEMMA AbsorbShares ==
    ASSUME NEW t, Good(t), NEW x \in Texts, NEW y \in Texts, x # y, NEW v \in Seqs
    PROVE  LET u == Absorb(t, x, v, y)
           IN /\ Good(u)
              /\ Share(u) \in Shares /\ Share(u)[x] = v /\ Share(u)[y] = Nil
              /\ \A z \in Node : z # x /\ z # y => Share(u)[z] = Share(t)[z]
              /\ \A z \in Node : z # x /\ z # y => Segment(u, z) = Segment(t, z)
              /\ \A h \in Shares, q \in Node : h[y] = Nil => Joint(h, u.kids[q]) = Joint(h, t.kids[q])
<1> DEFINE u == Absorb(t, x, v, y)
           w == [t EXCEPT !.value[x] = v]
<1>1. x \in Node /\ y \in Node /\ v \in Seq(Node)
  BY TextsAreNormal DEF Seqs
<1>2. Good(w) /\ w.kids = t.kids
  BY <1>1, ValueGood
<1>3. u = Free(w, y)
  BY DEF Absorb
<1>4. Good(u)
  BY <1>1, AbsorbFrees DEF SameBut
<1>5. u.value = [[t.value EXCEPT ![x] = v] EXCEPT ![y] = <<>>]
  <2>1. v \in Seq(Node)
    BY <1>1
  <2>2. /\ u.phase = [t.phase EXCEPT ![y] = "removed"]
        /\ u.value = [[t.value EXCEPT ![x] = v] EXCEPT ![y] = <<>>]
    BY <2>1, AbsorbValues
  <2> QED
    BY <2>2
<1>6. u.kids = Unlink(w, y).kids
  <2>1. Unlink(w, y) \in Tree
    BY <1>1, <1>2, UnlinkGood DEF Good
  <2> HIDE DEF w
  <2> QED
    BY <1>3, <2>1 DEF Free, Tree
<1> HIDE DEF u, w
<1>7. Share(u) \in Shares /\ Share(t) \in Shares
  BY <1>4, ShareIs
<1>8. t.value \in [Node -> Seq(Node)]
  BY DEF Good, Tree
<1>9. u.value[x] = v /\ u.value[y] = Nil /\ \A z \in Node : z # x /\ z # y => u.value[z] = t.value[z]
  BY <1>1, <1>5, <1>8 DEF Nil
<1>10. Share(u)[x] = v /\ Share(u)[y] = Nil
  BY <1>4, <1>9, ShareIs
<1>11. \A z \in Node : z # x /\ z # y => Segment(u, z) = Segment(t, z)
  BY <1>9 DEF Segment
<1>12. \A z \in Node : z # x /\ z # y => Share(u)[z] = Share(t)[z]
  BY <1>11 DEF Share
<1>13. ASSUME NEW h \in Shares, NEW q \in Node, h[y] = Nil
       PROVE  Joint(h, u.kids[q]) = Joint(h, t.kids[q])
  <2>1. Joint(h, u.kids[q]) = Joint(Mute(h, y), t.kids[q])
    BY <1>1, <1>2, <1>6, CutShares
  <2>2. Mute(h, y) \in Shares /\ \A z \in Node : Mute(h, y)[z] = h[z]
    BY <1>1, <1>13, MuteIs
  <2>3. t.kids[q] \in Seqs /\ Range(t.kids[q]) \subseteq Node
    BY KidsAre, CatMembers
  <2> HIDE DEF Mute
  <2>4. Joint(Mute(h, y), t.kids[q]) = Joint(h, t.kids[q])
    BY <2>2, <2>3, JointSame DEF Seqs
  <2> QED
    BY <2>1, <2>4
<1> QED
  BY <1>4, <1>7, <1>10, <1>11, <1>12, <1>13 DEF u

\* Joining two texts that nothing parts changes what no node shows.
LEMMA JoinShows ==
    ASSUME NEW t, Good(t), NEW x \in Texts, NEW y \in Texts, x # y, NEW v, v = Cat(t.value[x], t.value[y])
    PROVE  LET u == Absorb(t, x, v, y)
           IN /\ Beside(t, x, y) => \A q \in Node : Shown(u, q) = Shown(t, q)
              /\ \A n \in Node, q \in Node : Beside(t, x, n) /\ Beside(t, n, y) => Rest(u, n, q) = Rest(t, n, q)
<1> DEFINE u == Absorb(t, x, v, y)
<1>1. x \in Node /\ y \in Node /\ v \in Seqs
  BY TextsAreNormal, ShareIs, CatLaws
<1>2. Share(t) \in Shares /\ Share(t)[x] = t.value[x] /\ Share(t)[y] = t.value[y]
  BY ShareIs
<1>3. /\ Share(u) \in Shares /\ Share(u)[x] = v /\ Share(u)[y] = Nil
      /\ \A z \in Node : z # x /\ z # y => Share(u)[z] = Share(t)[z]
  BY <1>1, AbsorbShares
<1>4. \A h \in Shares, q \in Node : h[y] = Nil => Joint(h, u.kids[q]) = Joint(h, t.kids[q])
  BY <1>1, AbsorbShares
<1> HIDE DEF u
<1>5. Joins(Share(t), Share(u), x, y)
  BY <1>2, <1>3 DEF Joins
<1>6. ASSUME Beside(t, x, y), NEW q \in Node PROVE Shown(u, q) = Shown(t, q)
  <2>1. Joint(Share(u), t.kids[q]) = Joint(Share(t), t.kids[q])
    BY <1>1, <1>5, <1>6, JoinedHere
  <2> QED
    BY <1>3, <1>4, <2>1 DEF Shown
<1>7. ASSUME NEW n \in Node, NEW q \in Node, Beside(t, x, n), Beside(t, n, y)
      PROVE  Rest(u, n, q) = Rest(t, n, q)
  <2> DEFINE f == Mute(Share(t), n)
             h == Mute(Share(u), n)
  <2>1. x # n /\ n # y
    BY <1>7, BesideListed
  <2>2. f \in Shares /\ f[n] = Nil /\ \A z \in Node : z # n => f[z] = Share(t)[z]
    BY <1>2, MuteIs
  <2>3. h \in Shares /\ h[n] = Nil /\ \A z \in Node : z # n => h[z] = Share(u)[z]
    BY <1>3, MuteIs
  <2> HIDE DEF f, h
  <2>4. Joins(f, h, x, y)
    <3>1. h[x] = Cat(f[x], f[y]) /\ h[y] = Nil
      BY <1>1, <1>5, <2>1, <2>2, <2>3 DEF Joins
    <3>2. \A z \in Node : z # x /\ z # y => h[z] = f[z]
      BY <1>3, <2>2, <2>3
    <3> QED
      BY <2>2, <2>3, <3>1, <3>2 DEF Joins
  <2>5. Joint(h, t.kids[q]) = Joint(f, t.kids[q])
    BY <1>1, <1>7, <2>2, <2>3, <2>4, JoinedHere
  <2>6. h[y] = Nil
    BY <2>4 DEF Joins
  <2>7. Joint(h, u.kids[q]) = Joint(h, t.kids[q])
    BY <1>4, <2>3, <2>6
  <2> QED
    BY <2>5, <2>7 DEF Rest, f, h
<1> QED
  BY <1>6, <1>7 DEF u

-----------------------------------------------------------------------------
(* Leaving a place. *)

\* The neighbours that n leaves behind show what they showed.
LEMMA LeaveShows ==
    ASSUME NEW t, Good(t), NEW n \in Normal
    PROVE  LET u == LeaveNeighbours(t, n)
               x == PreviousSibling(t, n)
               y == NextSibling(t, n)
           IN /\ Good(u)
              /\ \A q \in Node : Rest(u, n, q) = Rest(t, n, q)
              /\ \A z \in Node : z \notin {x, y} \/ ~({x, y} \subseteq Texts) => Segment(u, z) = Segment(t, z)
              /\ Segment(u, n) = Segment(t, n)
<1> DEFINE u == LeaveNeighbours(t, n)
           x == PreviousSibling(t, n)
           y == NextSibling(t, n)
<1>1. n \in Node
  BY TextsAreNormal
<1>2. u = RemoveConsolidate(t, x, y).tree
  BY DEF LeaveNeighbours
<1>3. CASE ~(t.consolidate /\ x \in Texts /\ y \in Texts)
  <2>1. u = t
    BY <1>2, <1>3 DEF RemoveConsolidate
  <2> QED
    BY <2>1
<1>4. CASE t.consolidate /\ x \in Texts /\ y \in Texts
  <2>1. u = Absorb(t, x, t.value[x] \o t.value[y], y)
    BY <1>2, <1>4 DEF RemoveConsolidate
  <2>2. Beside(t, x, n) /\ Beside(t, n, y)
    BY <1>4, SiblingsBeside, TextsAreNormal
  <2>3. x # y /\ x # n /\ y # n
    BY <2>2, BesideUnique, BesideListed
  <2> HIDE DEF u, x, y
  <2>4. PICK v : v = Cat(t.value[x], t.value[y])
    OBVIOUS
  <2>5. u = Absorb(t, x, v, y)
    BY <2>1, <2>4 DEF Cat
  <2>6. v \in Seqs
    BY <1>4, <2>4, ShareIs, CatLaws
  <2>7. Good(u)
    BY <1>4, <2>3, <2>5, <2>6, AbsorbShares
  <2>8. \A z \in Node : z # x /\ z # y => Segment(u, z) = Segment(t, z)
    BY <1>4, <2>3, <2>5, <2>6, AbsorbShares
  <2>9. \A q \in Node : Rest(u, n, q) = Rest(t, n, q)
    BY <1>1, <1>4, <2>2, <2>3, <2>4, <2>5, JoinShows
  <2> QED
    BY <1>1, <1>4, <2>3, <2>7, <2>8, <2>9 DEF u, x, y
<1> QED
  BY <1>3, <1>4

\* What is left when n is cut out with everything in G, a set that is closed
\* downwards and holds no sibling of n.
LEMMA CutMerged ==
    ASSUME NEW t, Good(t), NEW n \in Normal, NEW G, NEW v, Good(v),
           \A q \in Node \ G : v.kids[q] = Unlink(t, n).kids[q],
           \A z \in Node \ G : v.value[z] = t.value[z],
           \A z \in Node \ {n} : t.parent[z] \in Node \ G => z \notin G,
           t.parent[n] \notin G,
           NEW q \in Node \ G
    PROVE  Shown(RemoveConsolidate(v, PreviousSibling(t, n), NextSibling(t, n)).tree, q) = Rest(t, n, q)
<1> DEFINE x == PreviousSibling(t, n)
           y == NextSibling(t, n)
           w == RemoveConsolidate(v, x, y).tree
           f == Share(t)
           s == Unlink(t, n).kids[q]
<1>1. n \in Node /\ f \in Shares /\ Share(v) \in Shares
  BY TextsAreNormal, ShareIs
<1>2. s \in Seqs /\ Range(s) \subseteq Node
  BY <1>1, UnlinkGood, KidsAre, CatMembers
<1>3. \A z \in Range(s) : z \in Node /\ z \notin G /\ z # n
  <2>1. \A m \in Node : Range(Unlink(t, n).kids[m]) = Range(t.kids[m]) \ {n}
    BY <1>1, UnlinkGood
  <2>2. Range(s) = Range(t.kids[q]) \ {n}
    BY <2>1
  <2> QED
    BY <1>2, <2>2, KidsAre
<1>4. v.kids[q] = s
  OBVIOUS
<1>5. \A z \in Node \ G : Segment(v, z) = Segment(t, z)
  BY DEF Segment
<1>6. \A z \in Node \ G : Share(v)[z] = f[z]
  BY <1>5 DEF Share
<1>7. ASSUME NEW h \in Shares PROVE Joint(h, s) = Joint(Mute(h, n), t.kids[q])
  BY <1>1, CutShares
<1> HIDE DEF s, f
<1>8. CASE ~(v.consolidate /\ x \in Texts /\ y \in Texts)
  <2>1. w = v
    BY <1>8 DEF RemoveConsolidate
  <2>2. Joint(Share(v), s) = Joint(f, s)
    BY <1>1, <1>2, <1>3, <1>6, JointSame DEF Seqs
  <2> QED
    BY <1>1, <1>4, <1>7, <2>1, <2>2 DEF Shown, Rest, f
<1>9. CASE v.consolidate /\ x \in Texts /\ y \in Texts
  <2>1. w = Absorb(v, x, v.value[x] \o v.value[y], y)
    BY <1>9 DEF RemoveConsolidate
  <2>2. Beside(t, x, n) /\ Beside(t, n, y)
    BY <1>9, SiblingsBeside, TextsAreNormal
  <2>3. x # y /\ x # n /\ y # n /\ t.parent[x] = t.parent[n] /\ t.parent[y] = t.parent[n] /\ t.parent[n] \in Node
    BY <2>2, BesideUnique, BesideListed
  <2> HIDE DEF w, x, y
  <2>4. x \in Node \ G /\ y \in Node \ G
    BY <1>9, <2>3, TextsAreNormal
  <2>5. PICK val : val = Cat(v.value[x], v.value[y])
    OBVIOUS
  <2>6. val \in Seqs /\ val = Cat(f[x], f[y])
    <3>1. v.value[x] = t.value[x] /\ v.value[y] = t.value[y]
      BY <2>4
    <3>2. f[x] = t.value[x] /\ f[y] = t.value[y]
      BY <1>9, ShareIs DEF f
    <3>3. f[x] \in Seqs /\ f[y] \in Seqs
      BY <1>1, <2>4, JointLaws
    <3> QED
      BY <2>5, <3>1, <3>2, <3>3, CatLaws
  <2>7. w = Absorb(v, x, val, y)
    BY <2>1, <2>5 DEF Cat
  <2>8. /\ Share(w) \in Shares /\ Share(w)[x] = val /\ Share(w)[y] = Nil
        /\ \A z \in Node : z # x /\ z # y => Share(w)[z] = Share(v)[z]
    BY <1>9, <2>3, <2>6, <2>7, AbsorbShares
  <2>9. Joint(Share(w), w.kids[q]) = Joint(Share(w), s)
    BY <1>4, <1>9, <2>3, <2>6, <2>7, <2>8, AbsorbShares
  <2> DEFINE k == [[f EXCEPT ![x] = val] EXCEPT ![y] = Nil]
  <2>10. /\ k \in Shares /\ k[x] = val /\ k[y] = Nil
         /\ \A z \in Node : z # x /\ z # y => k[z] = f[z]
    <3>1. Nil \in Seqs
      BY CatLaws
    <3> QED
      BY <1>1, <2>3, <2>4, <2>6, <3>1 DEF Shares, Seqs
  <2> HIDE DEF k
  <2>11. \A z \in Range(s) : Share(w)[z] = k[z]
    BY <1>3, <1>6, <2>8, <2>10
  <2>12. Joint(Share(w), s) = Joint(k, s)
    BY <1>2, <2>8, <2>10, <2>11, JointSame DEF Seqs
  <2>13. Joint(k, s) = Joint(Mute(k, n), t.kids[q])
    BY <1>7, <2>10
  <2>14. Mute(k, n) \in Shares /\ Mute(k, n)[n] = Nil /\ \A z \in Node : z # n => Mute(k, n)[z] = k[z]
    BY <1>1, <2>10, MuteIs
  <2>15. Mute(f, n) \in Shares /\ Mute(f, n)[n] = Nil /\ \A z \in Node : z # n => Mute(f, n)[z] = f[z]
    BY <1>1, MuteIs
  <2> HIDE DEF Mute
  <2>16. Joins(Mute(f, n), Mute(k, n), x, y)
    <3>1. Mute(k, n)[x] = Cat(Mute(f, n)[x], Mute(f, n)[y]) /\ Mute(k, n)[y] = Nil
      BY <2>3, <2>4, <2>6, <2>10, <2>14, <2>15
    <3>2. \A z \in Node : z # x /\ z # y => Mute(k, n)[z] = Mute(f, n)[z]
      BY <2>10, <2>14, <2>15
    <3> QED
      BY <2>14, <2>15, <3>1, <3>2 DEF Joins
  <2>17. Joint(Mute(k, n), t.kids[q]) = Joint(Mute(f, n), t.kids[q])
    BY <1>1, <2>2, <2>4, <2>14, <2>15, <2>16, JoinedHere
  <2> QED
    BY <2>9, <2>12, <2>13, <2>17 DEF Shown, Rest, f, w, x, y
<1> QED
  BY <1>8, <1>9

\* After detach, and after remove outside what is removed, every node shows
\* what it showed but for n.
LEMMA DetachShows ==
    ASSUME NEW t, Good(t), NEW n \in Normal, NEW q \in Node
    PROVE  Shown(DetachNode(t, n).tree, q) = Rest(t, n, q)
<1> DEFINE v == Unlink(t, n)
<1>1. n \in Node
  BY TextsAreNormal
<1>2. Good(v) /\ v.value = t.value
  BY <1>1, UnlinkGood, FreeEmpties
<1>3. DetachNode(t, n).tree = RemoveConsolidate(v, PreviousSibling(t, n), NextSibling(t, n)).tree
  BY DEF DetachNode, Ok
<1>4. PICK G : G = {}
  OBVIOUS
<1>5. /\ \A m \in Node \ G : v.kids[m] = Unlink(t, n).kids[m]
      /\ \A z \in Node \ G : v.value[z] = t.value[z]
      /\ \A z \in Node \ {n} : t.parent[z] \in Node \ G => z \notin G
      /\ t.parent[n] \notin G /\ q \in Node \ G
  BY <1>2, <1>4
<1> HIDE DEF v
<1>6. \A m \in Node \ G : v.kids[m] = Unlink(t, n).kids[m]
  BY <1>5
<1>7. Shown(RemoveConsolidate(v, PreviousSibling(t, n), NextSibling(t, n)).tree, q) = Rest(t, n, q)
  BY <1>2, <1>5, <1>6, CutMerged
<1> QED
  BY <1>3, <1>7

\* What is left of a content when a node is taken out and merged over.
LEMMA RemoveShows ==
    ASSUME NEW t, Good(t), NEW n \in Normal, NEW q \in Node \ Subtree(t, n)
    PROVE  /\ Shown(RemoveNode(t, n).tree, q) = Rest(t, n, q)
           /\ Shown(RemoveSubtree(t, n), q) = Rest(t, n, q)
<1> DEFINE v == RemoveSubtree(t, n)
           G == Subtree(t, n)
<1>1. n \in Node
  BY TextsAreNormal
<1>2. Good(v)
  BY <1>1, RemoveSubtreeGood
<1>3. \A m \in Node \ G : v.kids[m] = Unlink(t, n).kids[m]
  BY <1>1, RemoveSubtreeThinner
<1>4. \A z \in Node \ G : v.value[z] = t.value[z]
  <2>1. Unlink(t, n) \in Tree /\ Unlink(t, n).value = t.value
    BY <1>1, UnlinkGood, FreeEmpties DEF Good
  <2> QED
    BY <2>1 DEF RemoveSubtree, Tree
<1>5. \A z \in Node \ {n} : t.parent[z] \in Node \ G => z \notin G
  BY <1>1, SubtreeHasParents
<1>6. t.parent[n] \notin G
  <2>1. CASE t.parent[n] = NoNode
    BY <2>1, NoNodeIsNoNode DEF Subtree
  <2>2. CASE t.parent[n] # NoNode
    BY <1>1, <2>2, ParentOutside
  <2> QED
    BY <2>1, <2>2
<1> HIDE DEF v
<1>7. Shown(RemoveConsolidate(v, PreviousSibling(t, n), NextSibling(t, n)).tree, q) = Rest(t, n, q)
  BY <1>2, <1>3, <1>4, <1>5, <1>6, CutMerged
<1>8. Shown(v, q) = Rest(t, n, q)
  <2>1. q \in Node \ G /\ v.kids[q] = Unlink(t, n).kids[q]
    BY <1>3
  <2>2. Range(Unlink(t, n).kids[q]) = Range(t.kids[q]) \ {n}
    BY <1>1, UnlinkGood
  <2>3. Unlink(t, n).kids[q] \in Seqs /\ Range(Unlink(t, n).kids[q]) \subseteq Node
    <3>1. Good(Unlink(t, n))
      BY <1>1, UnlinkGood
    <3> QED
      BY <3>1, KidsAre, CatMembers
  <2>4. \A z \in Range(Unlink(t, n).kids[q]) : z \in Node \ G
    BY <1>5, <2>1, <2>2, <2>3, KidsAre
  <2>5. \A z \in Range(Unlink(t, n).kids[q]) : Share(v)[z] = Share(t)[z]
    BY <1>4, <2>4 DEF Share, Segment
  <2>6. Joint(Share(v), Unlink(t, n).kids[q]) = Joint(Share(t), Unlink(t, n).kids[q])
    BY <1>2, <2>3, <2>5, ShareIs, JointSame DEF Seqs
  <2>7. Joint(Share(t), Unlink(t, n).kids[q]) = Joint(Mute(Share(t), n), t.kids[q])
    BY <1>1, ShareIs, CutShares
  <2> QED
    BY <2>1, <2>6, <2>7 DEF Shown, Rest
<1> QED
  BY <1>7, <1>8 DEF v, RemoveNode, Ok

-----------------------------------------------------------------------------
(* Arriving at a place. *)

\* A node that is put behind the first i children shows there.
LEMMA LinkShows ==
    ASSUME NEW v, Good(v), NEW n \in Node, NEW p \in Node, NEW i \in 0 .. Len(v.kids[p])
    PROVE  LET w == Link(v, p, i, n)
               s == v.kids[p]
               f == Share(v)
           IN /\ Shown(w, p) = Cat(Joint(f, SubSeq(s, 1, i)),
                                   Cat(f[n], Joint(f, SubSeq(s, i + 1, Len(s)))))
              /\ \A q \in Node : q # p => Shown(w, q) = Shown(v, q)
              /\ \A z \in Node : Segment(w, z) = Segment(v, z)
<1> DEFINE w == Link(v, p, i, n)
           s == v.kids[p]
           f == Share(v)
           a == SubSeq(s, 1, i)
           b == SubSeq(s, i + 1, Len(s))
<1>1. w.value = v.value
  BY DEF Link, Good, Tree
<1>2. Share(w) = f
  BY <1>1 DEF Share, Segment
<1>3. \A z \in Node : Segment(w, z) = Segment(v, z)
  BY <1>1 DEF Segment
<1>4. \A q \in Node : w.kids[q] = IF q = p THEN Splice(s, i, i, <<n>>) ELSE v.kids[q]
  BY LinkKids
<1>5. s \in Seqs /\ i \in 0 .. Len(s) /\ f \in Shares
  BY KidsAre, ShareIs
<1>6. w.kids[p] = Splice(s, i, i, <<n>>)
  BY <1>4
<1> HIDE DEF w, s, f
<1>7. a \in Seqs /\ b \in Seqs
  BY <1>5, Split
<1> HIDE DEF a, b
<1>8. w.kids[p] = Cat(a, Cat(One(n), b))
  <2>1. w.kids[p] = Cat(Cat(a, One(n)), b)
    BY <1>6 DEF Splice, Cat, One, a, b
  <2>2. One(n) \in Seqs
    BY CatLaws
  <2> QED
    BY <1>7, <2>1, <2>2, CatAssociates
<1>9. Joint(f, w.kids[p]) = Cat(Joint(f, a), Cat(f[n], Joint(f, b)))
  BY <1>5, <1>7, <1>8, JointParts
<1>10. \A q \in Node : q # p => w.kids[q] = v.kids[q]
  BY <1>4
<1> QED
  BY <1>2, <1>3, <1>9, <1>10 DEF Shown, w, s, f, a, b

\* A text that is taken into another shows there.
LEMMA AbsorbedShows ==
    ASSUME NEW t, Good(t), NEW r \in Texts, NEW n \in Texts, r # n, NEW val \in Seqs
    PROVE  LET w == Absorb(t, r, val, n)
               f == Mute(Share(t), n)
               h == [f EXCEPT ![r] = val]
           IN /\ f \in Shares /\ h \in Shares /\ h[r] = val /\ h[n] = Nil
              /\ \A z \in Node : z # r => h[z] = f[z]
              /\ \A q \in Node : Shown(w, q) = Joint(h, t.kids[q])
              /\ \A q \in Node : q # t.parent[r] => Shown(w, q) = Rest(t, n, q)
<1> DEFINE w == Absorb(t, r, val, n)
           f == Mute(Share(t), n)
           h == [f EXCEPT ![r] = val]
<1>1. r \in Node /\ n \in Node
  BY TextsAreNormal
<1>2. f \in Shares /\ f[n] = Nil /\ \A z \in Node : z # n => f[z] = Share(t)[z]
  BY <1>1, ShareIs, MuteIs
<1>3. /\ Share(w) \in Shares /\ Share(w)[r] = val /\ Share(w)[n] = Nil
      /\ \A z \in Node : z # r /\ z # n => Share(w)[z] = Share(t)[z]
  BY AbsorbShares
<1>4. \A k \in Shares, q \in Node : k[n] = Nil => Joint(k, w.kids[q]) = Joint(k, t.kids[q])
  BY AbsorbShares
<1> HIDE DEF w, f
<1>5. h \in Shares /\ h[r] = val /\ \A z \in Node : z # r => h[z] = f[z]
  BY <1>1, <1>2 DEF Shares, Seqs
<1> HIDE DEF h
<1>6. h[n] = Nil
  BY <1>1, <1>2, <1>5
<1>7. \A z \in Node : h[z] = Share(w)[z]
  BY <1>2, <1>3, <1>5, <1>6
<1>8. ASSUME NEW q \in Node PROVE Shown(w, q) = Joint(h, t.kids[q])
  <2>1. t.kids[q] \in Seqs /\ Range(t.kids[q]) \subseteq Node
    BY KidsAre, CatMembers
  <2>2. Joint(Share(w), t.kids[q]) = Joint(h, t.kids[q])
    BY <1>3, <1>5, <1>7, <2>1, JointSame DEF Seqs
  <2> QED
    BY <1>3, <1>4, <2>2 DEF Shown
<1>9. ASSUME NEW q \in Node, q # t.parent[r] PROVE Joint(h, t.kids[q]) = Rest(t, n, q)
  <2>1. t.kids[q] \in Seqs /\ Range(t.kids[q]) \subseteq Node /\ r \notin Range(t.kids[q])
    BY <1>1, <1>9, KidsAre, CatMembers
  <2>2. \A z \in Range(t.kids[q]) : h[z] = f[z]
    BY <1>5, <2>1
  <2>3. Joint(h, t.kids[q]) = Joint(f, t.kids[q])
    BY <1>2, <1>5, <2>1, <2>2, JointSame DEF Seqs
  <2> QED
    BY <2>3 DEF Rest, f
<1>10. /\ \A q \in Node : Shown(w, q) = Joint(h, t.kids[q])
       /\ \A q \in Node : q # t.parent[r] => Shown(w, q) = Rest(t, n, q)
  BY <1>8, <1>9
<1> QED
  BY <1>2, <1>5, <1>6, <1>10 DEF w, f, h

Apart(a, b) == Range(a) \cap Range(b) = {}

\* What others show has nothing of what r shows.
LEMMA OthersApart ==
    ASSUME NEW t, Good(t), HeldOnce(t), Written(t), NEW r \in Normal,
           NEW h \in Shares, \A z \in Node : z # r => h[z] \in {Nil, Share(t)[z]},
           NEW a \in Seqs, r \notin Range(a)
    PROVE  Apart(Joint(h, a), Segment(t, r))
<1> DEFINE U == Node \ Range(Segment(t, r))
<1>1. ASSUME NEW z \in Range(a) PROVE Range(h[z]) \subseteq U
  <2>1. z \in Node /\ z # r
    BY <1>1, CatMembers
  <2>2. h[z] \in Seqs /\ Range(h[z]) \subseteq Node
    BY <2>1, JointLaws, CatMembers
  <2>3. CASE h[z] = Nil
    BY <2>3, CatMembers
  <2>4. CASE h[z] = Share(t)[z]
    <3>1. CASE z \in Abnormal
      BY <2>4, <3>1, ShareIs, CatMembers
    <3>2. CASE z \in Normal
      BY <2>1, <2>2, <2>4, <3>2, ShareIs, SegmentsApart
    <3> QED
      BY <2>1, <3>1, <3>2 DEF Node
  <2> QED
    BY <2>1, <2>3, <2>4
<1> HIDE DEF U
<1>2. Range(Joint(h, a)) \subseteq U
  BY <1>1, JointMembers DEF Seqs
<1> QED
  BY <1>2 DEF Apart, U

\* s falls apart into a and b.
CutsTo(s, a, b) == SubSeq(s, 1, Len(a)) = a /\ SubSeq(s, Len(a) + 1, Len(s)) = b

\* A concatenation is cut into its parts again.
LEMMA CutBack ==
    ASSUME NEW a \in Seqs, NEW b \in Seqs, NEW s, s = Cat(a, b)
    PROVE  CutsTo(s, a, b)
<1>1. IsCat(s, a, b) /\ s \in Seqs
  BY CatAt, CatLaws
<1>2. PICK n : n = Len(a)
  OBVIOUS
<1>3. PICK x, y : x = SubSeq(s, 1, n) /\ y = SubSeq(s, n + 1, Len(s))
  OBVIOUS
<1>4. n \in 0 .. Len(s) /\ Len(s) \in n .. Len(s) /\ Len(s) = n + Len(b) /\ Len(b) \in Nat
  BY <1>1, <1>2 DEF IsCat, Seqs
<1>5. x \in Seqs /\ Len(x) = n /\ \A k \in 1 .. n : x[k] = s[k]
  BY <1>1, <1>3, <1>4 DEF Seqs
<1>6. y \in Seqs /\ Len(y) = Len(s) - n /\ \A k \in 1 .. Len(s) - n : y[k] = s[n + k]
  BY <1>1, <1>3, <1>4, Part
<1>7. \A k \in 1 .. n : x[k] = a[k]
  BY <1>1, <1>2, <1>5 DEF IsCat
<1>8. Len(y) = Len(b) /\ \A k \in 1 .. Len(b) : y[k] = b[k]
  <2>1. Len(s) - n = Len(b)
    BY <1>4
  <2> QED
    BY <1>1, <1>2, <1>6, <2>1 DEF IsCat
<1>9. x = a
  BY <1>2, <1>5, <1>7, SameSeq
<1>10. y = b
  BY <1>6, <1>8, SameSeq
<1> QED
  BY <1>2, <1>3, <1>9, <1>10 DEF CutsTo

\* The place behind, or before, what r shows.
LEMMA PutIs ==
    ASSUME NEW a \in Seqs, NEW R \in Seqs, NEW b \in Seqs, NEW q \in Seqs,
           R # Nil, IsInjective(R), Apart(a, R), Apart(b, R), NEW s, s = Cat(a, Cat(R, b))
    PROVE  /\ PutAfter(s, Last(R), q) = Cat(a, Cat(R, Cat(q, b)))
           /\ PutBefore(s, Head(R), q) = Cat(a, Cat(q, Cat(R, b)))
<1> DEFINE c == Cat(R, b)
           A == Len(a)
           N == Len(R)
           B == Len(b)
<1>1. c \in Seqs /\ s \in Seqs /\ IsCat(c, R, b) /\ IsCat(s, a, c)
  BY CatLaws, CatAt
<1>2. /\ A \in Nat /\ N \in Nat /\ B \in Nat /\ 1 <= N
      /\ DOMAIN a = 1 .. A /\ DOMAIN b = 1 .. B /\ DOMAIN R = 1 .. N
  <2>1. N \in Nat /\ DOMAIN R = 1 .. N
    BY DEF Seqs
  <2>2. N # 0
    BY <2>1, EmptySeq DEF Seqs, Nil
  <2> QED
    BY <2>1, <2>2 DEF Seqs
<1>3. /\ Len(s) = A + N + B /\ DOMAIN s = 1 .. A + N + B
      /\ \A k \in 1 .. A : s[k] = a[k]
      /\ \A k \in 1 .. N : s[A + k] = R[k]
      /\ \A k \in 1 .. B : s[A + N + k] = b[k]
  BY <1>1, <1>2 DEF IsCat, Seqs
<1>4. Last(R) = R[N] /\ Head(R) = R[1]
  BY <1>2 DEF Last, Seqs
<1> HIDE DEF A, N, B, c
<1>5. ASSUME NEW k \in 1 .. N, NEW i \in DOMAIN s, s[i] = R[k] PROVE i = A + k
  <2>1. R[k] \in Range(R)
    BY <1>2 DEF Range
  <2>2. CASE i <= A
    <3>1. i \in DOMAIN a /\ s[i] = a[i]
      BY <1>2, <1>3, <2>2
    <3>2. a[i] \in Range(a)
      BY <3>1 DEF Range
    <3> QED
      BY <1>5, <2>1, <3>1, <3>2 DEF Apart
  <2>3. CASE A + N < i
    <3> DEFINE j == i - A - N
    <3>1. j \in DOMAIN b /\ i = A + N + j
      BY <1>2, <1>3, <2>3
    <3> HIDE DEF j
    <3>2. s[i] = b[j] /\ b[j] \in Range(b)
      BY <1>2, <1>3, <3>1 DEF Range
    <3> QED
      BY <1>5, <2>1, <3>2 DEF Apart
  <2>4. CASE A < i /\ i <= A + N
    <3> DEFINE j == i - A
    <3>1. j \in DOMAIN R /\ i = A + j
      BY <1>2, <1>3, <2>4
    <3> HIDE DEF j
    <3>2. s[i] = R[j]
      BY <1>2, <1>3, <3>1
    <3>3. j = k
      BY <1>2, <1>5, <3>1, <3>2 DEF IsInjective
    <3> QED
      BY <3>1, <3>3
  <2> QED
    BY <1>2, <1>3, <2>2, <2>3, <2>4
<1>6. ASSUME NEW k \in 1 .. N PROVE (CHOOSE i \in DOMAIN s : s[i] = R[k]) = A + k
  <2>1. A + k \in DOMAIN s /\ s[A + k] = R[k]
    BY <1>2, <1>3
  <2> QED
    BY <1>5, <2>1
<1>7. 1 \in 1 .. N /\ N \in 1 .. N
  BY <1>2
<1>8. PutAfter(s, Last(R), q) = Cat(a, Cat(R, Cat(q, b)))
  <2>1. PutAfter(s, Last(R), q) = SubSeq(s, 1, A + N) \o q \o SubSeq(s, A + N + 1, Len(s))
    BY <1>4, <1>6, <1>7 DEF PutAfter
  <2>2. SubSeq(s, 1, A + N) = Cat(a, R) /\ SubSeq(s, A + N + 1, Len(s)) = b
    <3>1. PICK d : d = Cat(a, R)
      OBVIOUS
    <3>2. d \in Seqs /\ Len(d) = A + N /\ s = Cat(d, b)
      <4>1. IsCat(d, a, R) /\ d \in Seqs
        BY <3>1, CatLaws, CatAt
      <4>2. s = Cat(d, b)
        BY <3>1, CatAssociates
      <4> QED
        BY <4>1, <4>2 DEF IsCat, A, N
    <3>3. CutsTo(s, d, b)
      BY <3>2, CutBack
    <3> QED
      BY <3>1, <3>2, <3>3 DEF CutsTo
  <2>4. PutAfter(s, Last(R), q) = Cat(Cat(Cat(a, R), q), b)
    BY <2>1, <2>2 DEF Cat
  <2>5. Cat(q, b) \in Seqs /\ Cat(a, R) \in Seqs
    BY CatLaws
  <2>6. Cat(Cat(Cat(a, R), q), b) = Cat(Cat(a, R), Cat(q, b))
    BY <2>5, CatAssociates
  <2>7. Cat(Cat(a, R), Cat(q, b)) = Cat(a, Cat(R, Cat(q, b)))
    BY <2>5, CatAssociates
  <2> QED
    BY <2>4, <2>6, <2>7
<1>9. PutBefore(s, Head(R), q) = Cat(a, Cat(q, Cat(R, b)))
  <2>1. (CHOOSE i \in DOMAIN s : s[i] = Head(R)) = A + 1
    BY <1>4, <1>6, <1>7
  <2>2. PICK k : k = CHOOSE i \in DOMAIN s : s[i] = Head(R)
    OBVIOUS
  <2>3. /\ PutBefore(s, Head(R), q) = SubSeq(s, 1, k - 1) \o q \o SubSeq(s, k, Len(s))
        /\ k - 1 = A /\ k = A + 1
    <3>1. PutBefore(s, Head(R), q) = SubSeq(s, 1, k - 1) \o q \o SubSeq(s, k, Len(s))
      BY <2>2 DEF PutBefore
    <3>2. k = A + 1
      BY <2>1, <2>2
    <3>3. k - 1 = A
      BY <1>2, <3>2
    <3> QED
      BY <3>1, <3>2, <3>3
  <2>4. SubSeq(s, 1, A) = a /\ SubSeq(s, A + 1, Len(s)) = c
    <3>1. s = Cat(a, c)
      BY DEF c
    <3>2. CutsTo(s, a, c)
      BY <1>1, <3>1, CutBack
    <3> QED
      BY <3>2 DEF CutsTo, A
  <2>5. PutBefore(s, Head(R), q) = Cat(Cat(a, q), c)
    BY <2>3, <2>4 DEF Cat
  <2> QED
    BY <1>1, <2>5, CatAssociates DEF c
<1> QED
  BY <1>8, <1>9

\* In w, n shows right behind r, or right before r, and the rest is as it was.
LandsAfter(t, n, r, w) ==
    \E a, b \in Seqs :
        /\ Rest(t, n, t.parent[r]) = Cat(a, Cat(Segment(t, r), b))
        /\ Apart(a, Segment(t, r)) /\ Apart(b, Segment(t, r))
        /\ Shown(w, t.parent[r]) = Cat(a, Cat(Segment(t, r), Cat(Segment(t, n), b)))
        /\ \A q \in Node : q # t.parent[r] => Shown(w, q) = Rest(t, n, q)

LandsBefore(t, n, r, w) ==
    \E a, b \in Seqs :
        /\ Rest(t, n, t.parent[r]) = Cat(a, Cat(Segment(t, r), b))
        /\ Apart(a, Segment(t, r)) /\ Apart(b, Segment(t, r))
        /\ Shown(w, t.parent[r]) = Cat(a, Cat(Segment(t, n), Cat(Segment(t, r), b)))
        /\ \A q \in Node : q # t.parent[r] => Shown(w, q) = Rest(t, n, q)

\* A node linked behind or before r lands there.
LEMMA LandLinked ==
    ASSUME NEW u, Good(u), HeldOnce(u), Written(u), NEW n \in Normal, NEW r \in Normal, r # n,
           u.parent[r] # NoNode
    PROVE  LET v == Unlink(u, n)
               p == v.parent[r]
               i == Position(v, r)
           IN /\ LandsAfter(u, n, r, Link(v, p, i + 0, n))
              /\ LandsBefore(u, n, r, Link(v, p, i + -1, n))
              /\ p = u.parent[r]
<1> DEFINE v == Unlink(u, n)
           p == v.parent[r]
           i == Position(v, r)
           s == v.kids[p]
           f == Share(v)
           R == Segment(u, r)
           N == Segment(u, n)
           A == SubSeq(s, 1, i - 1)
           B == SubSeq(s, i + 1, Len(s))
           a == Joint(f, A)
           b == Joint(f, B)
<1>1. n \in Node /\ r \in Node
  BY TextsAreNormal
<1>2. /\ Good(v) /\ v.parent = [u.parent EXCEPT ![n] = NoNode] /\ v.value = u.value
      /\ u.parent \in [Node -> Node \cup {NoNode}]
  BY <1>1, UnlinkGood, FreeEmpties DEF Good, Tree
<1>3. p = u.parent[r] /\ p # NoNode /\ p \in Node
  BY <1>1, <1>2
<1>4. f = Share(u) /\ f \in Shares /\ f[r] = R /\ f[n] = N
  BY <1>2, ShareIs DEF Share, Segment
<1>5. s \in Seqs /\ IsInjective(s) /\ i \in 1 .. Len(s) /\ s[i] = r
  BY <1>1, <1>2, <1>3, PositionListed DEF Seqs
<1>6. ASSUME NEW q \in Node PROVE Shown(v, q) = Rest(u, n, q)
  <2>1. Share(u) \in Shares
    BY ShareIs
  <2>2. Joint(Share(u), Unlink(u, n).kids[q]) = Joint(Mute(Share(u), n), u.kids[q])
    BY <1>1, <2>1, CutShares
  <2> QED
    BY <1>4, <2>2 DEF Shown, Rest
<1> HIDE DEF v, p, i, f
<1>7. s \in Seqs /\ i \in 1 .. Len(s)
  BY <1>5
<1> HIDE DEF s
<1>8. Around(s, r, A, B)
  BY <1>5, AroundAt
<1>9. SubSeq(s, 1, i) = Cat(A, One(r)) /\ SubSeq(s, i, Len(s)) = Cat(One(r), B)
  BY <1>5, Ends
<1>10. /\ i \in 0 .. Len(s) /\ i - 1 \in 0 .. Len(s) /\ (i - 1) + 1 = i /\ i + 0 = i /\ i + -1 = i - 1
  BY <1>5 DEF Seqs
<1> HIDE DEF A, B
<1>11. A \in Seqs /\ B \in Seqs /\ r \notin Range(A) /\ r \notin Range(B) /\ One(r) \in Seqs
  BY <1>1, <1>8, CatLaws DEF Around
<1>12. Shown(v, p) = Cat(a, Cat(R, b))
  <2>1. Joint(f, s) = Cat(Joint(f, A), Cat(f[r], Joint(f, B)))
    <3>1. f \in Shares /\ r \in Node /\ A \in Seqs /\ B \in Seqs
      BY <1>1, <1>4, <1>11
    <3>2. s = Cat(A, Cat(One(r), B))
      BY <1>8 DEF Around
    <3> QED
      BY <3>1, <3>2, JointParts
  <2> QED
    BY <1>4, <2>1 DEF Shown, f, s
<1>13. \A z \in Node : z # r => f[z] \in {Nil, Share(u)[z]}
  BY <1>4
<1>14. Apart(a, R) /\ Apart(b, R)
  BY <1>4, <1>11, <1>13, OthersApart
<1>15. a \in Seqs /\ b \in Seqs /\ R \in Seqs /\ N \in Seqs
  BY <1>1, <1>4, <1>11, JointLaws, ShareIs
<1>16. Joint(f, Cat(A, One(r))) = Cat(a, R) /\ Joint(f, Cat(One(r), B)) = Cat(R, b)
  <2>1. Joint(f, One(r)) = R
    BY <1>1, <1>4, JointLaws
  <2> QED
    BY <1>4, <1>11, <2>1, JointLaws
<1>17. ASSUME NEW j \in {i, i - 1}
       PROVE  LET w == Link(v, p, j, n)
              IN /\ Shown(w, p) = Cat(Joint(f, SubSeq(s, 1, j)), Cat(f[n], Joint(f, SubSeq(s, j + 1, Len(s)))))
                 /\ \A q \in Node : q # p => Shown(w, q) = Shown(v, q)
  <2>1. j \in 0 .. Len(v.kids[p])
    BY <1>10 DEF s
  <2> QED
    BY <1>1, <1>2, <1>3, <2>1, LinkShows DEF f, s
<1>18. LandsAfter(u, n, r, Link(v, p, i, n))
  <2> DEFINE w == Link(v, p, i, n)
  <2>1. /\ Shown(w, p) = Cat(Joint(f, SubSeq(s, 1, i)), Cat(f[n], Joint(f, SubSeq(s, i + 1, Len(s)))))
        /\ \A q \in Node : q # p => Shown(w, q) = Shown(v, q)
    BY <1>17
  <2> HIDE DEF w
  <2>2. Shown(w, p) = Cat(Cat(a, R), Cat(N, b))
    BY <1>4, <1>9, <1>16, <2>1 DEF B
  <2>3. Cat(N, b) \in Seqs
    BY <1>15, CatLaws
  <2> HIDE DEF a, b, R, N
  <2>4. Shown(w, p) = Cat(a, Cat(R, Cat(N, b)))
    BY <1>15, <2>2, <2>3, CatAssociates
  <2>5. Rest(u, n, p) = Cat(a, Cat(R, b))
    BY <1>3, <1>6, <1>12
  <2> QED
    BY <1>3, <1>6, <1>14, <1>15, <2>1, <2>4, <2>5 DEF LandsAfter, w, R, N
<1>19. LandsBefore(u, n, r, Link(v, p, i - 1, n))
  <2> DEFINE w == Link(v, p, i - 1, n)
  <2>1. /\ Shown(w, p) = Cat(Joint(f, SubSeq(s, 1, i - 1)), Cat(f[n], Joint(f, SubSeq(s, (i - 1) + 1, Len(s)))))
        /\ \A q \in Node : q # p => Shown(w, q) = Shown(v, q)
    BY <1>17
  <2> HIDE DEF w
  <2>2. Shown(w, p) = Cat(a, Cat(N, Cat(R, b)))
    BY <1>4, <1>9, <1>10, <1>16, <2>1 DEF A
  <2> HIDE DEF a, b, R, N
  <2>5. Rest(u, n, p) = Cat(a, Cat(R, b))
    BY <1>3, <1>6, <1>12
  <2> QED
    BY <1>3, <1>6, <1>14, <1>15, <2>1, <2>2, <2>5 DEF LandsBefore, w, R, N
<1> QED
  BY <1>3, <1>10, <1>18, <1>19 DEF v, p, i

\* What a sequence shows around one of its members.
LEMMA JointOf ==
    ASSUME NEW h \in Shares, NEW x \in Node, NEW a \in Seqs, NEW b \in Seqs
    PROVE  Joint(h, Cat(a, Cat(One(x), b))) = Cat(Joint(h, a), Cat(h[x], Joint(h, b)))
  BY JointParts, CatLaws

\* A text that is taken into the text r lands beside it.
LEMMA LandInto ==
    ASSUME NEW t, Good(t), HeldOnce(t), Written(t), NEW n \in Texts, NEW r \in Texts, r # n,
           t.parent[r] # NoNode, NEW val \in Seqs
    PROVE  LET w == Absorb(t, r, val, n)
           IN /\ val = Cat(Segment(t, r), Segment(t, n)) => LandsAfter(t, n, r, w)
              /\ val = Cat(Segment(t, n), Segment(t, r)) => LandsBefore(t, n, r, w)
<1> DEFINE w == Absorb(t, r, val, n)
           p == t.parent[r]
           s == t.kids[p]
           f == Mute(Share(t), n)
           h == [f EXCEPT ![r] = val]
           R == Segment(t, r)
           N == Segment(t, n)
<1>1. n \in Node /\ r \in Node /\ r \in Normal /\ p \in Node
  BY TextsAreNormal, KidsAre
<1>2. /\ f \in Shares /\ h \in Shares /\ h[r] = val
      /\ \A z \in Node : z # r => h[z] = f[z]
  BY AbsorbedShows
<1>3. /\ \A q \in Node : Shown(w, q) = Joint(h, t.kids[q])
      /\ \A q \in Node : q # p => Shown(w, q) = Rest(t, n, q)
  BY AbsorbedShows
<1>4. f[n] = Nil /\ \A z \in Node : z # n => f[z] = Share(t)[z]
  BY <1>1, ShareIs, MuteIs
<1>5. f[r] = R /\ R \in Seqs /\ N \in Seqs
  BY <1>1, <1>4, ShareIs
<1>6. s \in Seqs /\ IsInjective(s) /\ r \in Range(s)
  BY <1>1, KidsAre
<1>7. Rest(t, n, p) = Joint(f, s)
  BY DEF Rest
<1>8. Shown(w, p) = Joint(h, s)
  BY <1>1, <1>3
<1> HIDE DEF h, f, s, w, p
<1>9. PICK i \in 1 .. Len(s) : s[i] = r
  BY <1>6 DEF Range, Seqs
<1>10. PICK A, B : Around(s, r, A, B)
  BY <1>6, <1>9, AroundAt
<1>11. A \in Seqs /\ B \in Seqs /\ s = Cat(A, Cat(One(r), B)) /\ r \notin Range(A) /\ r \notin Range(B)
  BY <1>10 DEF Around
<1>12. PICK a, b : a = Joint(f, A) /\ b = Joint(f, B)
  OBVIOUS
<1>13. a \in Seqs /\ b \in Seqs
  BY <1>2, <1>11, <1>12, JointLaws
<1>14. Joint(f, s) = Cat(a, Cat(R, b))
  BY <1>1, <1>2, <1>5, <1>11, <1>12, JointOf
<1>15. Joint(h, A) = a /\ Joint(h, B) = b
  <2>1. \A z \in Range(A) \cup Range(B) : h[z] = f[z]
    BY <1>2, <1>11, CatMembers
  <2> QED
    BY <1>2, <1>11, <1>12, <2>1, JointSame DEF Seqs
<1>16. Joint(h, s) = Cat(a, Cat(val, b))
  BY <1>1, <1>2, <1>11, <1>15, JointOf
<1>17. Apart(a, R) /\ Apart(b, R)
  <2>1. \A z \in Node : z # r => f[z] \in {Nil, Share(t)[z]}
    BY <1>4
  <2> QED
    BY <1>1, <1>2, <1>11, <1>12, <2>1, OthersApart
<1> HIDE DEF R, N
<1>18. ASSUME val = Cat(R, N) PROVE LandsAfter(t, n, r, w)
  <2>1. Cat(Cat(R, N), b) = Cat(R, Cat(N, b))
    BY <1>5, <1>13, CatAssociates
  <2> QED
    BY <1>3, <1>7, <1>8, <1>13, <1>14, <1>16, <1>17, <1>18, <2>1 DEF LandsAfter, R, N, p
<1>19. ASSUME val = Cat(N, R) PROVE LandsBefore(t, n, r, w)
  <2>1. Cat(Cat(N, R), b) = Cat(N, Cat(R, b))
    BY <1>5, <1>13, CatAssociates
  <2> QED
    BY <1>3, <1>7, <1>8, <1>13, <1>14, <1>16, <1>17, <1>19, <2>1 DEF LandsBefore, R, N, p
<1> QED
  BY <1>18, <1>19 DEF w, R, N

\* The same for a text that is taken into the text behind r, or before r.
LEMMA LandBeyond ==
    ASSUME NEW t, Good(t), HeldOnce(t), Written(t), NEW n \in Texts, NEW r \in Normal, r # n,
           NEW y \in Texts, y # n, NEW val \in Seqs
    PROVE  LET w == Absorb(t, y, val, n)
           IN /\ Beside(t, r, y) /\ val = Cat(Segment(t, n), Segment(t, y)) => LandsAfter(t, n, r, w)
              /\ Beside(t, y, r) /\ val = Cat(Segment(t, y), Segment(t, n)) => LandsBefore(t, n, r, w)
<1> DEFINE w == Absorb(t, y, val, n)
           p == t.parent[r]
           s == t.kids[p]
           f == Mute(Share(t), n)
           h == [f EXCEPT ![y] = val]
           R == Segment(t, r)
           N == Segment(t, n)
           Y == Segment(t, y)
<1>1. n \in Node /\ r \in Node /\ y \in Node /\ y \in Normal
  BY TextsAreNormal
<1>2. /\ f \in Shares /\ h \in Shares /\ h[y] = val
      /\ \A z \in Node : z # y => h[z] = f[z]
  BY AbsorbedShows
<1>3. /\ \A q \in Node : Shown(w, q) = Joint(h, t.kids[q])
      /\ \A q \in Node : q # t.parent[y] => Shown(w, q) = Rest(t, n, q)
  BY AbsorbedShows
<1>4. f[n] = Nil /\ \A z \in Node : z # n => f[z] = Share(t)[z]
  BY <1>1, ShareIs, MuteIs
<1>5. f[r] = R /\ R \in Seqs /\ N \in Seqs /\ f[y] = Y /\ Y \in Seqs
  BY <1>1, <1>4, ShareIs
<1>6. Rest(t, n, p) = Joint(f, s)
  BY DEF Rest
<1>7. \A z \in Node : z # r => f[z] \in {Nil, Share(t)[z]}
  BY <1>4
<1> HIDE DEF h, f, w
<1>8. ASSUME Beside(t, r, y) \/ Beside(t, y, r)
      PROVE  /\ p \in Node /\ t.parent[y] = p /\ s \in Seqs /\ IsInjective(s) /\ r # y
             /\ Shown(w, p) = Joint(h, s)
             /\ Beside(t, r, y) => NextTo(s, r, y)
             /\ Beside(t, y, r) => NextTo(s, y, r)
  <2>1. p \in Node /\ t.parent[y] = p /\ r # y
    BY <1>8, BesideListed
  <2>2. /\ Beside(t, r, y) => NextTo(s, r, y)
        /\ Beside(t, y, r) => NextTo(s, y, r)
    BY <2>1, BesideListed
  <2> QED
    BY <1>3, <2>1, <2>2, KidsAre
<1> HIDE DEF p, s, R, N, Y
<1>9. ASSUME Beside(t, r, y), val = Cat(N, Y) PROVE LandsAfter(t, n, r, w)
  <2>1. p \in Node /\ t.parent[y] = p /\ s \in Seqs /\ IsInjective(s) /\ Shown(w, p) = Joint(h, s) /\ NextTo(s, r, y)
    BY <1>8, <1>9
  <2>2. PICK A, B : Pair(s, r, y, A, B)
    BY <2>1, NextToPair
  <2>3. /\ A \in Seqs /\ B \in Seqs /\ s = Cat(A, Cat(One(r), Cat(One(y), B))) /\ r # y
        /\ r \notin Range(A) /\ y \notin Range(A) /\ r \notin Range(B) /\ y \notin Range(B)
    BY <2>2 DEF Pair
  <2>4. PICK C, b1 : C = Cat(One(y), B) /\ b1 = Joint(f, B)
    OBVIOUS
  <2>5. PICK a, b : a = Joint(f, A) /\ b = Joint(f, C)
    OBVIOUS
  <2>6. One(y) \in Seqs /\ C \in Seqs /\ s = Cat(A, Cat(One(r), C)) /\ r \notin Range(C)
    BY <1>1, <2>3, <2>4, CatLaws, CatMembers
  <2>7. a \in Seqs /\ b \in Seqs /\ b1 \in Seqs
    BY <1>2, <2>3, <2>4, <2>5, <2>6, JointLaws
  <2>8. b = Cat(Y, b1)
    <3>1. Joint(f, One(y)) = Y
      BY <1>1, <1>2, <1>5, JointLaws
    <3> QED
      BY <1>2, <2>3, <2>4, <2>5, <2>6, <3>1, JointLaws
  <2>9. Joint(f, s) = Cat(a, Cat(R, b))
    BY <1>1, <1>2, <1>5, <2>3, <2>5, <2>6, JointOf
  <2>10. Joint(h, A) = a /\ Joint(h, B) = b1
    <3>1. \A z \in Range(A) \cup Range(B) : h[z] = f[z]
      BY <1>2, <2>3, CatMembers
    <3> QED
      BY <1>2, <2>3, <2>4, <2>5, <3>1, JointSame DEF Seqs
  <2>11. Joint(h, C) = Cat(val, b1)
    <3>1. Joint(h, One(y)) = val
      BY <1>1, <1>2, JointLaws
    <3> QED
      BY <1>2, <2>3, <2>4, <2>6, <2>10, <3>1, JointLaws
  <2>12. Joint(h, s) = Cat(a, Cat(R, Cat(val, b1)))
    <3>1. h[r] = R
      BY <1>1, <1>2, <1>5, <2>3
    <3> QED
      BY <1>1, <1>2, <2>3, <2>6, <2>10, <2>11, <3>1, JointOf
  <2>13. Cat(val, b1) = Cat(N, b)
    BY <1>5, <1>9, <2>7, <2>8, CatAssociates
  <2>14. Apart(a, R) /\ Apart(b, R)
    BY <1>2, <1>7, <2>3, <2>5, <2>6, OthersApart DEF R
  <2>15. Shown(w, p) = Cat(a, Cat(R, Cat(N, b))) /\ Rest(t, n, p) = Cat(a, Cat(R, b))
    BY <1>6, <2>1, <2>9, <2>12, <2>13
  <2> QED
    BY <1>3, <2>1, <2>7, <2>14, <2>15 DEF LandsAfter, R, N, p
<1>10. ASSUME Beside(t, y, r), val = Cat(Y, N) PROVE LandsBefore(t, n, r, w)
  <2>1. p \in Node /\ t.parent[y] = p /\ s \in Seqs /\ IsInjective(s) /\ Shown(w, p) = Joint(h, s) /\ NextTo(s, y, r)
    BY <1>8, <1>10
  <2>2. PICK A, B : Pair(s, y, r, A, B)
    BY <2>1, NextToPair
  <2>3. /\ A \in Seqs /\ B \in Seqs /\ s = Cat(A, Cat(One(y), Cat(One(r), B))) /\ r # y
        /\ r \notin Range(A) /\ y \notin Range(A) /\ r \notin Range(B) /\ y \notin Range(B)
    BY <2>2 DEF Pair
  <2>4. PICK C, a1 : C = Cat(A, One(y)) /\ a1 = Joint(f, A)
    OBVIOUS
  <2>5. PICK a, b : a = Joint(f, C) /\ b = Joint(f, B)
    OBVIOUS
  <2>6. One(y) \in Seqs /\ C \in Seqs /\ r \notin Range(C)
    BY <1>1, <2>3, <2>4, CatLaws, CatMembers
  <2>7. s = Cat(C, Cat(One(r), B))
    <3>1. One(r) \in Seqs /\ Cat(One(r), B) \in Seqs
      BY <1>1, <2>3, CatLaws
    <3> QED
      BY <2>3, <2>4, <2>6, <3>1, CatAssociates
  <2>8. a \in Seqs /\ b \in Seqs /\ a1 \in Seqs
    BY <1>2, <2>3, <2>4, <2>5, <2>6, JointLaws
  <2>9. a = Cat(a1, Y)
    <3>1. Joint(f, One(y)) = Y
      BY <1>1, <1>2, <1>5, JointLaws
    <3> QED
      BY <1>2, <2>3, <2>4, <2>5, <2>6, <3>1, JointLaws
  <2>10. Joint(f, s) = Cat(a, Cat(R, b))
    BY <1>1, <1>2, <1>5, <2>3, <2>5, <2>6, <2>7, JointOf
  <2>11. Joint(h, A) = a1 /\ Joint(h, B) = b
    <3>1. \A z \in Range(A) \cup Range(B) : h[z] = f[z]
      BY <1>2, <2>3, CatMembers
    <3> QED
      BY <1>2, <2>3, <2>4, <2>5, <3>1, JointSame DEF Seqs
  <2>12. Joint(h, C) = Cat(a1, val)
    <3>1. Joint(h, One(y)) = val
      BY <1>1, <1>2, JointLaws
    <3> QED
      BY <1>2, <2>3, <2>4, <2>6, <2>11, <3>1, JointLaws
  <2>13. Joint(h, s) = Cat(Cat(a1, val), Cat(R, b))
    <3>1. h[r] = R
      BY <1>1, <1>2, <1>5, <2>3
    <3> QED
      BY <1>1, <1>2, <2>3, <2>6, <2>7, <2>11, <2>12, <3>1, JointOf
  <2>14. Cat(a1, val) = Cat(a, N)
    BY <1>5, <1>10, <2>8, <2>9, CatAssociates
  <2>15. Cat(Cat(a, N), Cat(R, b)) = Cat(a, Cat(N, Cat(R, b)))
    <3>1. Cat(R, b) \in Seqs
      BY <1>5, <2>8, CatLaws
    <3> QED
      BY <1>5, <2>8, <3>1, CatAssociates
  <2>16. Apart(a, R) /\ Apart(b, R)
    BY <1>2, <1>7, <2>3, <2>5, <2>6, OthersApart DEF R
  <2>17. Shown(w, p) = Cat(a, Cat(N, Cat(R, b))) /\ Rest(t, n, p) = Cat(a, Cat(R, b))
    BY <1>6, <2>1, <2>10, <2>13, <2>14, <2>15
  <2> QED
    BY <1>3, <2>1, <2>8, <2>16, <2>17 DEF LandsBefore, R, N, p
<1> QED
  BY <1>9, <1>10 DEF w, R, N, Y

-----------------------------------------------------------------------------
(* Taking a node out. *)

\* What a node shows of itself is not there.
LEMMA OwnRest ==
    ASSUME NEW t, Good(t), NEW n \in Normal
    PROVE  Rest(t, n, n) = Shown(t, n)
<1>1. n \in Node /\ Share(t) \in Shares /\ t.kids[n] \in Seqs
  BY TextsAreNormal, ShareIs, KidsAre
<1>2. n \notin Range(t.kids[n])
  <2> SUFFICES ASSUME n \in Range(t.kids[n]) PROVE FALSE
    OBVIOUS
  <2>1. t.parent[n] = n
    BY <1>1, KidsAre
  <2>2. n \in Subtree(t, n)
    BY <1>1 DEF Subtree, AncestorsOrSelf
  <2> QED
    BY <1>1, <2>1, <2>2, NoNodeIsNoNode, ParentOutside
<1> QED
  BY <1>1, <1>2, MuteIs DEF Rest, Shown

\* The content is what shows, without what the moved node showed.
LEMMA ContentWithout ==
    ASSUME NEW t, Good(t), Ordered(t), Once(t), NEW n \in Normal, NEW q \in Node
    PROVE  Without(Content(t, q), Segment(t, n)) = Rest(t, n, q)
BY ContentIs, WithoutIs DEF Once

\* Which handles taking out n removes.
LEMMA TakeOutPhases ==
    ASSUME NEW t, Good(t), NEW n \in Node
    PROVE  LET d == DetachNode(t, n).tree
               r == RemoveNode(t, n).tree
           IN /\ \A m \in Node : \/ d.phase[m] = t.phase[m]
                                 \/ m = NextSibling(t, n) /\ m \in Texts /\ d.phase[m] = "removed"
              /\ \A m \in Node : r.phase[m] = IF m \in Subtree(t, n) THEN "removed" ELSE d.phase[m]
<1> DEFINE prev == PreviousSibling(t, n)
           next == NextSibling(t, n)
           u == Unlink(t, n)
           v == RemoveSubtree(t, n)
           d == RemoveConsolidate(u, prev, next).tree
           r == RemoveConsolidate(v, prev, next).tree
<1>1. Good(u) /\ u.phase = t.phase /\ u.consolidate = t.consolidate
  BY UnlinkGood, SwitchKept
<1>2. /\ Good(v) /\ v.consolidate = t.consolidate
      /\ \A m \in Node : v.phase[m] = IF m \in Subtree(t, n) THEN "removed" ELSE t.phase[m]
  BY RemoveSubtreeGood, SwitchKept
<1>3. DetachNode(t, n).tree = d /\ RemoveNode(t, n).tree = r
  BY DEF DetachNode, RemoveNode, Ok
<1> HIDE DEF u, v, prev, next
<1>4. ASSUME NEW w, Good(w), w.consolidate = t.consolidate
      PROVE  \A m \in Node :
                RemoveConsolidate(w, prev, next).tree.phase[m] =
                    IF t.consolidate /\ prev \in Texts /\ next \in Texts /\ m = next
                    THEN "removed" ELSE w.phase[m]
  <2>1. CASE t.consolidate /\ prev \in Texts /\ next \in Texts
    <3>1. PICK s : s = w.value[prev] \o w.value[next]
      OBVIOUS
    <3>2. s \in Seq(Node)
      <4>1. w.value[prev] \in Seq(Node) /\ w.value[next] \in Seq(Node)
        BY <1>4, <2>1, TextsAreNormal DEF Good, Tree
      <4> QED
        BY <3>1, <4>1
    <3>3. RemoveConsolidate(w, prev, next).tree = Absorb(w, prev, s, next)
      BY <1>4, <2>1, <3>1 DEF RemoveConsolidate
    <3>4. /\ Absorb(w, prev, s, next).phase = [w.phase EXCEPT ![next] = "removed"]
          /\ Absorb(w, prev, s, next).value = [[w.value EXCEPT ![prev] = s] EXCEPT ![next] = <<>>]
      <4>1. Good(w)
        BY <1>4
      <4>2. prev \in Texts
        BY <2>1
      <4>3. next \in Texts
        BY <2>1
      <4> QED
        BY <3>2, <4>1, <4>2, <4>3, AbsorbValues
    <3>5. w.phase \in [Node -> Phases]
      BY <1>4 DEF Good, Tree
    <3> QED
      BY <2>1, <3>3, <3>4, <3>5
  <2>2. CASE ~(t.consolidate /\ prev \in Texts /\ next \in Texts)
    BY <1>4, <2>2 DEF RemoveConsolidate
  <2> QED
    BY <2>1, <2>2
<1>5. \A m \in Node : d.phase[m] = IF t.consolidate /\ prev \in Texts /\ next \in Texts /\ m = next
                                   THEN "removed" ELSE t.phase[m]
  BY <1>1, <1>4
<1>6. \A m \in Node : r.phase[m] = IF t.consolidate /\ prev \in Texts /\ next \in Texts /\ m = next
                                   THEN "removed" ELSE v.phase[m]
  BY <1>2, <1>4
<1> HIDE DEF d, r
<1> QED
  BY <1>2, <1>3, <1>5, <1>6 DEF next

\* A node that is in use has only nodes below it that are.
LEMMA LiveBelow ==
    ASSUME NEW t, Good(t), NEW n \in Node, Live(t, n), NEW m \in Subtree(t, n)
    PROVE  Live(t, m)
<1>1. CASE m = n
  BY <1>1
<1>2. CASE m # n
  <2>1. m \in Node /\ t.parent[m] \in Subtree(t, n)
    BY <1>2, SubtreeHasParents DEF Subtree
  <2>2. t.parent[m] \in Node
    BY <2>1 DEF Subtree
  <2>3. m \in Range(t.kids[t.parent[m]])
    BY <2>1, <2>2, KidsAre
  <2>4. PICK i \in DOMAIN t.kids[t.parent[m]] : t.kids[t.parent[m]][i] = m
    BY <2>3 DEF Range
  <2> QED
    BY <2>2, <2>4, ParentsHaveKids
<1> QED
  BY <1>1, <1>2

\* What detach and remove promise holds of every tree in order that holds its
\* pieces once.
LEMMA TakenOut ==
    ASSUME NEW t, Good(t), Ordered(t), Once(t), NEW n \in Normal, Live(t, n)
    PROVE  LET gone(o) == {m \in Node : Live(t, m) /\ ~Live(o.tree, m)}
               d == DetachNode(t, n)
               r == RemoveNode(t, n)
           IN /\ MovesInto(t, d, n, n, Content(t, n))
              /\ gone(d) \subseteq {NextSibling(t, n)} \cap Texts
              /\ gone(r) = Subtree(t, n) \cup gone(d)
              /\ \A q \in Container \ Subtree(t, n) :
                    Content(r.tree, q) = Without(Content(t, q), Segment(t, n))
<1> DEFINE gone(o) == {m \in Node : Live(t, m) /\ ~Live(o.tree, m)}
           d == DetachNode(t, n)
           r == RemoveNode(t, n)
<1>1. n \in Node /\ Container \subseteq Node
  BY TextsAreNormal
<1>2. Good(d.tree) /\ Good(r.tree)
  BY <1>1, DetachNodeSound, RemoveNodeSound DEF Sound
<1>3. Ordered(d.tree) /\ Ordered(r.tree)
  BY <1>1, TakeOutThinner, ThinnerOrdered
<1>4. \A q \in Node : Content(d.tree, q) = Rest(t, n, q)
  BY <1>2, <1>3, ContentIs, DetachShows
<1>5. \A q \in Node \ Subtree(t, n) : Content(r.tree, q) = Rest(t, n, q)
  BY <1>2, <1>3, ContentIs, RemoveShows
<1>6. \A q \in Node : Without(Content(t, q), Segment(t, n)) = Rest(t, n, q)
  BY ContentWithout
<1>7. Content(t, n) = Rest(t, n, n)
  BY <1>1, ContentIs, OwnRest
<1>8. /\ \A m \in Node : \/ d.tree.phase[m] = t.phase[m]
                         \/ m = NextSibling(t, n) /\ m \in Texts
      /\ \A m \in Node : r.tree.phase[m] = IF m \in Subtree(t, n) THEN "removed" ELSE d.tree.phase[m]
  BY <1>1, TakeOutPhases
<1>9. Subtree(t, n) \subseteq Node /\ \A m \in Subtree(t, n) : Live(t, m)
  BY <1>1, LiveBelow DEF Subtree
<1> HIDE DEF d, r
<1>10. MovesInto(t, d, n, n, Content(t, n))
  BY <1>1, <1>4, <1>6, <1>7 DEF MovesInto
<1>11. gone(d) \subseteq {NextSibling(t, n)} \cap Texts
  BY <1>8 DEF Live
<1>12. gone(r) = Subtree(t, n) \cup gone(d)
  BY <1>8, <1>9 DEF Live
<1>13. \A q \in Container \ Subtree(t, n) :
          Content(r.tree, q) = Without(Content(t, q), Segment(t, n))
  BY <1>1, <1>5, <1>6
<1> QED
  BY <1>10, <1>11, <1>12, <1>13 DEF d, r
=============================================================================
