-------------------------- MODULE XotContracts_proofs -------------------------
(***************************************************************************)
(* What the calls of careful callers do to the content of documents and    *)
(* elements: what their documentation says, whichever texts are merged on  *)
(* the way.                                                                *)
(***************************************************************************)
EXTENDS XotContents_proofs

-----------------------------------------------------------------------------
(* Moving a node. *)

\* The neighbours that n leaves keep what shows, and a text leaves nothing to
\* merge.
LEMMA Left ==
    ASSUME NEW t, Good(t), Ordered(t), Once(t), NEW n \in Normal, n \in Texts => Spaced(t)
    PROVE  LET u == LeaveNeighbours(t, n)
           IN /\ Good(u) /\ Ordered(u) /\ Once(u)
              /\ \A q \in Node : Rest(u, n, q) = Rest(t, n, q)
              /\ Segment(u, n) = Segment(t, n)
              /\ n \in Texts => u = t
<1> DEFINE u == LeaveNeighbours(t, n)
<1>1. n \in Node
  BY TextsAreNormal
<1>2. Good(u) /\ Conserves(t, u)
  BY <1>1, LeaveConserves
<1>3. Ordered(u)
  BY <1>1, AfterMerge
<1>4. Once(u)
  BY <1>2, ConservesOnce
<1>5. (\A q \in Node : Rest(u, n, q) = Rest(t, n, q)) /\ Segment(u, n) = Segment(t, n)
  BY LeaveShows
<1>6. n \in Texts => u = t
  BY <1>1, LeaveRetains
<1> QED
  BY <1>2, <1>3, <1>4, <1>5, <1>6

\* A reference that the neighbours of n do not merge away stays where it is.
LEMMA LeftBeside ==
    ASSUME NEW t, Good(t), Ordered(t), NEW n \in Normal, NEW r \in Normal,
           r \in {PreviousSibling(t, n), NextSibling(t, n)} =>
                ~({PreviousSibling(t, n), NextSibling(t, n)} \subseteq Texts),
           Live(LeaveNeighbours(t, n), r)
    PROVE  LET u == LeaveNeighbours(t, n)
           IN Segment(u, r) = Segment(t, r) /\ u.parent[r] = t.parent[r]
<1> DEFINE u == LeaveNeighbours(t, n)
<1>1. n \in Node /\ r \in Node
  BY TextsAreNormal
<1>2. u.parent[r] = t.parent[r]
  BY <1>1, AfterMerge
<1>3. \A z \in Node : z \notin {PreviousSibling(t, n), NextSibling(t, n)}
                      \/ ~({PreviousSibling(t, n), NextSibling(t, n)} \subseteq Texts)
                      => Segment(u, z) = Segment(t, z)
  BY LeaveShows
<1> HIDE DEF u
<1>4. Segment(u, r) = Segment(t, r)
  BY <1>1, <1>3
<1> QED
  BY <1>2, <1>4 DEF u

\* A new text that is merged with the text before or behind it, or linked,
\* lands where it was to go.
LEMMA InsertLands ==
    ASSUME NEW t, Good(t), Ordered(t), Once(t), NEW n \in Normal, NEW r \in Normal,
           r # n, t.parent[r] # NoNode, n \in Texts => Spaced(t)
    PROVE  LET u == LeaveNeighbours(t, n)
               x == InsertAfter(t, r, n)
               y == InsertBefore(t, r, n)
           IN /\ u.parent[r] = t.parent[r] /\ x.res = "ok" /\ (n \in Texts => NextSibling(t, r) # n)
                    => LandsAfter(u, n, r, x.tree)
              /\ u.parent[r] = t.parent[r] /\ y.res = "ok" /\ (n \in Texts => PreviousSibling(t, r) # n)
                    => LandsBefore(u, n, r, y.tree)
<1> DEFINE u == LeaveNeighbours(t, n)
           x == InsertAfter(t, r, n)
           y == InsertBefore(t, r, n)
           a == AddConsolidate(u, n, r, NextSibling(u, r))
           b == AddConsolidate(u, n, PreviousSibling(u, r), r)
           v == Unlink(u, n)
           i == Position(v, r)
<1>1. n \in Node /\ r \in Node
  BY TextsAreNormal
<1>2. Good(u) /\ Once(u) /\ (n \in Texts => u = t)
  BY Left
<1>2a. HeldOnce(u) /\ Written(u)
  BY <1>2 DEF Once
<1>3. /\ x.res = "ok" => \/ x.tree = a.tree /\ a.merged
                         \/ x = InsertBeside(u, r, n, 0) /\ ~a.merged
      /\ y.res = "ok" => \/ y.tree = b.tree /\ b.merged
                         \/ y = InsertBeside(u, r, n, -1) /\ ~b.merged
  <2>1. \/ x = Err(t)
        \/ x = Panic(u)
        \/ x = Ok(a.tree) /\ a.merged
        \/ x = InsertBeside(u, r, n, 0) /\ ~a.merged
    BY DEF InsertAfter, CheckedInsertAfter
  <2>2. \/ y = Err(t)
        \/ y = Panic(u)
        \/ y = Ok(b.tree) /\ b.merged
        \/ y = InsertBeside(u, r, n, -1) /\ ~b.merged
    BY DEF InsertBefore, CheckedInsertBefore
  <2> HIDE DEF u, x, y, a, b
  <2>3. Err(t).res = "err" /\ Panic(u).res = "panic" /\ Ok(a.tree).tree = a.tree /\ Ok(b.tree).tree = b.tree
    BY DEF Err, Panic, Ok
  <2> QED
    BY <2>1, <2>2, <2>3
<1>4. \A offset : InsertBeside(u, r, n, offset).res = "ok" =>
                    InsertBeside(u, r, n, offset).tree = Link(v, v.parent[r], i + offset, n)
  BY DEF InsertBeside, Ok, Err, Undefined
<1> HIDE DEF x, y
<1>5. n \in Texts => u.value[n] = Segment(u, n)
  BY <1>2, ShareIs
<1>6. ASSUME a.merged
      PROVE  /\ n \in Texts
             /\ \/ r \in Texts /\ a.tree = Absorb(u, r, u.value[r] \o u.value[n], n)
                \/ /\ NextSibling(u, r) \in Texts
                   /\ a.tree = Absorb(u, NextSibling(u, r), u.value[n] \o u.value[NextSibling(u, r)], n)
  BY <1>6 DEF AddConsolidate
<1>7. ASSUME b.merged
      PROVE  /\ n \in Texts
             /\ \/ r \in Texts /\ b.tree = Absorb(u, r, u.value[n] \o u.value[r], n)
                \/ /\ PreviousSibling(u, r) \in Texts
                   /\ b.tree = Absorb(u, PreviousSibling(u, r), u.value[PreviousSibling(u, r)] \o u.value[n], n)
  BY <1>7 DEF AddConsolidate
<1> HIDE DEF a, b
<1>8. \A z \in Texts : u.value[z] = Segment(u, z) /\ Segment(u, z) \in Seqs
  BY <1>2, ShareIs
<1>9. ASSUME NEW z \in Texts, NEW k \in Texts
      PROVE  u.value[z] \o u.value[k] = Cat(Segment(u, z), Segment(u, k))
             /\ Cat(Segment(u, z), Segment(u, k)) \in Seqs
  BY <1>8, <1>9, CatLaws DEF Cat
<1>10. /\ NextSibling(u, r) \in Texts => Beside(u, r, NextSibling(u, r))
       /\ PreviousSibling(u, r) \in Texts => Beside(u, PreviousSibling(u, r), r)
  BY <1>2, SiblingsBeside, TextsAreNormal
<1>11. ASSUME u.parent[r] = t.parent[r], x.res = "ok", n \in Texts => NextSibling(t, r) # n
       PROVE  LandsAfter(u, n, r, x.tree)
  <2>1. u.parent[r] # NoNode
    BY <1>11
  <2>2. CASE a.merged /\ r \in Texts /\ a.tree = Absorb(u, r, u.value[r] \o u.value[n], n)
    <3>1. n \in Texts /\ x.tree = a.tree
      BY <1>3, <1>6, <1>11, <2>2
    <3>2. PICK val : val = Cat(Segment(u, r), Segment(u, n))
      OBVIOUS
    <3>3. val \in Seqs /\ x.tree = Absorb(u, r, val, n)
      BY <1>9, <2>2, <3>1, <3>2
    <3>4. r \in Texts
      BY <2>2
    <3> QED
      BY <1>2, <1>2a, <2>1, <3>1, <3>2, <3>3, <3>4, LandInto
  <2>3. CASE /\ a.merged /\ NextSibling(u, r) \in Texts
             /\ a.tree = Absorb(u, NextSibling(u, r), u.value[n] \o u.value[NextSibling(u, r)], n)
    <3>1. PICK z : z = NextSibling(u, r)
      OBVIOUS
    <3>2. n \in Texts /\ x.tree = a.tree /\ z # n
      BY <1>2, <1>3, <1>6, <1>11, <2>3, <3>1
    <3>3. z \in Texts /\ Beside(u, r, z)
      BY <1>10, <2>3, <3>1
    <3>4. PICK val : val = Cat(Segment(u, n), Segment(u, z))
      OBVIOUS
    <3>5. val \in Seqs /\ x.tree = Absorb(u, z, val, n)
      BY <1>9, <2>3, <3>1, <3>2, <3>3, <3>4
    <3> QED
      BY <1>2, <1>2a, <3>2, <3>3, <3>4, <3>5, LandBeyond
  <2>4. CASE ~a.merged
    <3>1. x.tree = Link(v, v.parent[r], i + 0, n)
      BY <1>3, <1>4, <1>11, <2>4
    <3> QED
      BY <1>2, <1>2a, <2>1, <3>1, LandLinked
  <2> QED
    BY <1>6, <2>2, <2>3, <2>4
<1>12. ASSUME u.parent[r] = t.parent[r], y.res = "ok", n \in Texts => PreviousSibling(t, r) # n
       PROVE  LandsBefore(u, n, r, y.tree)
  <2>1. u.parent[r] # NoNode
    BY <1>12
  <2>2. CASE b.merged /\ r \in Texts /\ b.tree = Absorb(u, r, u.value[n] \o u.value[r], n)
    <3>1. n \in Texts /\ y.tree = b.tree
      BY <1>3, <1>7, <1>12, <2>2
    <3>2. PICK val : val = Cat(Segment(u, n), Segment(u, r))
      OBVIOUS
    <3>3. val \in Seqs /\ y.tree = Absorb(u, r, val, n)
      BY <1>9, <2>2, <3>1, <3>2
    <3>4. r \in Texts
      BY <2>2
    <3> QED
      BY <1>2, <1>2a, <2>1, <3>1, <3>2, <3>3, <3>4, LandInto
  <2>3. CASE /\ b.merged /\ PreviousSibling(u, r) \in Texts
             /\ b.tree = Absorb(u, PreviousSibling(u, r), u.value[PreviousSibling(u, r)] \o u.value[n], n)
    <3>1. PICK z : z = PreviousSibling(u, r)
      OBVIOUS
    <3>2. n \in Texts /\ y.tree = b.tree /\ z # n
      BY <1>2, <1>3, <1>7, <1>12, <2>3, <3>1
    <3>3. z \in Texts /\ Beside(u, z, r)
      BY <1>10, <2>3, <3>1
    <3>4. PICK val : val = Cat(Segment(u, z), Segment(u, n))
      OBVIOUS
    <3>5. val \in Seqs /\ y.tree = Absorb(u, z, val, n)
      BY <1>9, <2>3, <3>1, <3>2, <3>3, <3>4
    <3> QED
      BY <1>2, <1>2a, <3>2, <3>3, <3>4, <3>5, LandBeyond
  <2>4. CASE ~b.merged
    <3>1. y.tree = Link(v, v.parent[r], i + -1, n)
      BY <1>3, <1>4, <1>12, <2>4
    <3> QED
      BY <1>2, <1>2a, <2>1, <3>1, LandLinked
  <2> QED
    BY <1>7, <2>2, <2>3, <2>4
<1> QED
  BY <1>11, <1>12 DEF x, y

\* A node taken out of the list shows nothing.
LEMMA UnlinkShows ==
    ASSUME NEW u, Good(u), NEW n \in Node, NEW q \in Node
    PROVE  Shown(Unlink(u, n), q) = Rest(u, n, q)
<1>1. Share(Unlink(u, n)) = Share(u)
  <2>1. Unlink(u, n).value = u.value
    BY FreeEmpties
  <2> QED
    BY <2>1 DEF Share, Segment
<1>2. Share(u) \in Shares
  BY ShareIs
<1> QED
  BY <1>1, <1>2, CutShares DEF Shown, Rest

\* The last child ends the list.
LEMMA LastAround ==
    ASSUME NEW t, Good(t), NEW p \in Node, LastChild(t, p) # NoNode
    PROVE  /\ \E A : Around(t.kids[p], LastChild(t, p), A, Nil)
           /\ LastChild(t, p) \in Normal /\ t.parent[LastChild(t, p)] = p
<1> DEFINE s == t.kids[p]
           x == LastChild(t, p)
<1>1. s \in Seqs /\ IsInjective(s) /\ Len(s) \in Nat
  BY KidsAre DEF Seqs
<1>2. s # <<>> /\ x = Last(s) /\ x \in Normal
  BY DEF LastChild
<1>3. t.parent[x] = p
  BY EndsListed
<1> HIDE DEF x, s
<1>4. Len(s) \in 1 .. Len(s) /\ x = s[Len(s)]
  BY <1>1, <1>2 DEF Seqs, Last
<1>5. SubSeq(s, Len(s) + 1, Len(s)) = Nil
  <2>1. PICK k : k = Len(s)
    OBVIOUS
  <2>2. k \in Nat /\ s \in Seq(Node)
    BY <1>1, <2>1 DEF Seqs
  <2>3. Len(SubSeq(s, k + 1, k)) = 0 /\ SubSeq(s, k + 1, k) \in Seq(Node)
    BY <2>2
  <2> QED
    BY <2>1, <2>3, EmptySeq DEF Nil
<1>6. Around(s, s[Len(s)], SubSeq(s, 1, Len(s) - 1), SubSeq(s, Len(s) + 1, Len(s)))
  BY <1>1, <1>4, AroundAt
<1> QED
  BY <1>2, <1>3, <1>4, <1>5, <1>6 DEF x, s

\* What append leaves: the moved node shows at the end.
LEMMA AppendShows ==
    ASSUME NEW t, Good(t), Ordered(t), Once(t), NEW n \in Normal, NEW p \in Container,
           n \in Texts => Spaced(t) /\ LastChild(t, p) # n, AppendNode(t, p, n).res = "ok"
    PROVE  LET w == AppendNode(t, p, n).tree
           IN /\ Shown(w, p) = Cat(Rest(t, n, p), Segment(t, n))
              /\ \A q \in Node : q # p => Shown(w, q) = Rest(t, n, q)
<1> DEFINE u == LeaveNeighbours(t, n)
           o == AppendNode(t, p, n)
           a == AddConsolidate(u, n, LastChild(u, p), NoNode)
           v == Unlink(u, n)
           N == Segment(t, n)
<1>1. n \in Node /\ p \in Node /\ NoNode \notin Texts
  BY TextsAreNormal
<1>2. Good(u) /\ (n \in Texts => u = t) /\ Segment(u, n) = N
      /\ \A q \in Node : Rest(u, n, q) = Rest(t, n, q)
  BY Left
<1>3. \/ o = Err(t)
      \/ o = Ok(a.tree) /\ a.merged
      \/ o = CheckedAppend(u, p, n)
  BY DEF AppendNode
<1>4. CheckedAppend(u, p, n) = Err(u) \/ CheckedAppend(u, p, n) = Ok(Link(v, p, Len(v.kids[p]), n))
  BY DEF CheckedAppend
<1>5. a.merged => /\ n \in Texts /\ LastChild(u, p) \in Texts
                  /\ a.tree = Absorb(u, LastChild(u, p), u.value[LastChild(u, p)] \o u.value[n], n)
  BY <1>1 DEF AddConsolidate
<1>6. o.res = "ok"
  OBVIOUS
<1> HIDE DEF o, a, v, u, N
<1>7. \/ o.tree = a.tree /\ a.merged
      \/ o.tree = Link(v, p, Len(v.kids[p]), n)
  BY <1>3, <1>4, <1>6 DEF Ok, Err
<1>8. N \in Seqs
  BY <1>1, ShareIs DEF N
<1>9. CASE o.tree = a.tree /\ a.merged
  <2>1. n \in Texts /\ u = t
    BY <1>2, <1>5, <1>9
  <2>2. PICK x : x = LastChild(t, p)
    OBVIOUS
  <2>3. x \in Texts /\ x # n /\ o.tree = Absorb(t, x, t.value[x] \o t.value[n], n)
    BY <1>5, <1>9, <2>1, <2>2
  <2>4. x # NoNode
    BY <1>1, <2>3
  <2>5. (\E A : Around(t.kids[p], x, A, Nil)) /\ t.parent[x] = p
    BY <1>1, <2>2, <2>4, LastAround
  <2>6. PICK A : Around(t.kids[p], x, A, Nil)
    BY <2>5
  <2>7. x \in Node /\ Segment(t, x) = t.value[x] /\ Segment(t, x) \in Seqs /\ N = t.value[n]
    BY <2>1, <2>3, ShareIs DEF N
  <2>8. PICK X, val : X = Segment(t, x) /\ val = Cat(X, N)
    OBVIOUS
  <2>9. X \in Seqs /\ val \in Seqs /\ o.tree = Absorb(t, x, val, n)
    BY <1>8, <2>3, <2>7, <2>8, CatLaws DEF Cat
  <2> DEFINE f == Mute(Share(t), n)
             h == [f EXCEPT ![x] = val]
  <2>10. /\ f \in Shares /\ h \in Shares /\ h[x] = val
         /\ \A z \in Node : z # x => h[z] = f[z]
    BY <2>1, <2>3, <2>9, AbsorbedShows
  <2>11. /\ \A q \in Node : Shown(o.tree, q) = Joint(h, t.kids[q])
         /\ \A q \in Node : q # t.parent[x] => Shown(o.tree, q) = Rest(t, n, q)
    BY <2>1, <2>3, <2>9, AbsorbedShows
  <2>12. f[x] = X
    BY <1>1, <2>3, <2>7, <2>8, ShareIs, MuteIs
  <2>13. Rest(t, n, p) = Joint(f, t.kids[p])
    BY DEF Rest
  <2> HIDE DEF f, h
  <2>14. A \in Seqs /\ t.kids[p] = Cat(A, Cat(One(x), Nil)) /\ x \notin Range(A) /\ Nil \in Seqs
    BY <2>6 DEF Around
  <2>15. PICK c : c = Joint(f, A)
    OBVIOUS
  <2>16. c \in Seqs /\ Joint(f, Nil) = Nil /\ Joint(h, Nil) = Nil
    BY <2>10, <2>14, <2>15, JointLaws
  <2>17. Joint(h, A) = c
    <3>1. \A z \in Range(A) : h[z] = f[z]
      BY <2>10, <2>14, CatMembers
    <3> QED
      BY <2>10, <2>14, <2>15, <3>1, JointSame DEF Seqs
  <2>18. Joint(f, t.kids[p]) = Cat(c, X)
    <3>1. Joint(f, t.kids[p]) = Cat(c, Cat(X, Nil))
      BY <2>7, <2>10, <2>12, <2>14, <2>15, <2>16, JointOf
    <3> QED
      BY <2>9, <3>1, CatLaws
  <2>19. Joint(h, t.kids[p]) = Cat(c, val)
    <3>1. Joint(h, t.kids[p]) = Cat(c, Cat(val, Nil))
      BY <2>7, <2>10, <2>14, <2>16, <2>17, JointOf
    <3> QED
      BY <2>9, <3>1, CatLaws
  <2>20. Cat(c, val) = Cat(Cat(c, X), N)
    BY <1>8, <2>8, <2>9, <2>16, CatAssociates
  <2> QED
    BY <1>1, <2>5, <2>11, <2>13, <2>18, <2>19, <2>20 DEF o, N
<1>10. CASE o.tree = Link(v, p, Len(v.kids[p]), n)
  <2>1. Good(v) /\ v.value = u.value
    BY <1>1, <1>2, UnlinkGood, FreeEmpties DEF v
  <2>2. \A q \in Node : Shown(v, q) = Rest(t, n, q)
    BY <1>1, <1>2, UnlinkShows DEF v
  <2> DEFINE s == v.kids[p]
             f == Share(v)
             i == Len(s)
  <2>3. s \in Seqs /\ i \in Nat /\ i \in 0 .. Len(s) /\ f \in Shares
    BY <1>1, <2>1, KidsAre, ShareIs DEF Seqs
  <2>4. /\ Shown(o.tree, p) = Cat(Joint(f, SubSeq(s, 1, i)),
                                  Cat(f[n], Joint(f, SubSeq(s, i + 1, Len(s)))))
        /\ \A q \in Node : q # p => Shown(o.tree, q) = Shown(v, q)
    BY <1>1, <1>10, <2>1, <2>3, LinkShows
  <2>5. f[n] = N
    BY <1>1, <1>2, <2>1, ShareIs DEF Segment
  <2>6. Shown(v, p) = Joint(f, s)
    BY DEF Shown
  <2> HIDE DEF f, s
  <2>7. SubSeq(s, 1, i) = s /\ SubSeq(s, i + 1, Len(s)) = Nil
    <3>1. s \in Seq(Node)
      BY <2>3 DEF Seqs
    <3>2. Len(SubSeq(s, i + 1, i)) = 0 /\ SubSeq(s, i + 1, i) \in Seq(Node)
      BY <2>3, <3>1
    <3> QED
      BY <3>1, <3>2, WholeSeq, EmptySeq DEF Nil
  <2>8. Joint(f, SubSeq(s, i + 1, Len(s))) = Nil
    BY <2>3, <2>7, JointLaws
  <2>9. Cat(N, Nil) = N
    BY <1>8, CatLaws
  <2> QED
    BY <1>1, <2>2, <2>4, <2>5, <2>6, <2>7, <2>8, <2>9 DEF o, N
<1> QED
  BY <1>7, <1>9, <1>10

\* The first child stands behind the entries.
LEMMA FirstAround ==
    ASSUME NEW t, Good(t), NEW p \in Node, FirstChild(t, p) # NoNode
    PROVE  \E A, B : Around(t.kids[p], FirstChild(t, p), A, B) /\ Range(A) \subseteq Abnormal
<1> DEFINE s == t.kids[p]
           h == Leading(s, Abnormal)
           c == SubSeq(s, h + 1, Len(s))
<1>1. s \in Seqs /\ IsInjective(s) /\ s \in Seq(Node) /\ Len(s) \in Nat
  BY KidsAre DEF Seqs
<1>2. h \in 0 .. Len(s) /\ \A k \in 1 .. h : s[k] \in Abnormal
  BY <1>1, LeadingPrefix
<1>3. c # <<>> /\ FirstChild(t, p) = Head(c)
  BY DEF FirstChild, Children
<1> HIDE DEF s, h
<1>4. c \in Seq(Node) /\ Len(c) = Len(s) - h /\ (1 <= Len(c) => c[1] = s[h + 1])
  BY <1>1, <1>2, Behind
<1> HIDE DEF c
<1>5. Len(c) \in Nat /\ Len(c) # 0
  BY <1>3, <1>4, EmptySeq
<1>6. Head(c) = c[1]
  BY <1>4
<1>7. PICK i : i = h + 1
  OBVIOUS
<1>8. i \in 1 .. Len(s) /\ s[i] = FirstChild(t, p) /\ i - 1 = h /\ h \in 0 .. Len(s)
  BY <1>1, <1>2, <1>3, <1>4, <1>5, <1>6, <1>7
<1>9. Around(s, s[i], SubSeq(s, 1, i - 1), SubSeq(s, i + 1, Len(s)))
  BY <1>1, <1>8, AroundAt
<1>10. Range(SubSeq(s, 1, h)) = {s[k] : k \in 1 .. h}
  BY <1>1, <1>8, Split
<1>11. Range(SubSeq(s, 1, i - 1)) \subseteq Abnormal
  BY <1>2, <1>8, <1>10
<1> QED
  BY <1>8, <1>9, <1>11 DEF s

\* Prepending that does not merge links n behind the entries.
LEMMA PrependLinks ==
    ASSUME NEW u, Good(u), Ordered(u), NEW n \in Normal, NEW p \in Container,
           NEW o, o.res = "ok",
           \/ AbnormalChildren(u, p) # <<>> /\ o = CheckedInsertAfter(u, Last(AbnormalChildren(u, p)), n)
           \/ o = CheckedPrepend(u, p, n)
    PROVE  LET v == Unlink(u, n)
           IN \E i \in 0 .. Len(v.kids[p]) :
                 /\ o.tree = Link(v, p, i, n)
                 /\ \A k \in 1 .. i : v.kids[p][k] \in Abnormal
<1> DEFINE v == Unlink(u, n)
           s == v.kids[p]
           ab == AbnormalChildren(u, p)
           r == Last(ab)
<1>1. n \in Node /\ p \in Node /\ n \notin Abnormal
  BY TextsAreNormal
<1>2. Good(v) /\ Ordered(v)
  BY <1>1, UnlinkGood, UnlinkThinner, ThinnerOrdered
<1>3. s \in Seqs /\ Len(s) \in Nat
  BY <1>1, <1>2, KidsAre DEF Seqs
<1>4. CASE o = CheckedPrepend(u, p, n)
  <2>1. o = Err(u) \/ o = Ok(Link(v, p, 0, n))
    BY <1>4 DEF CheckedPrepend
  <2>2. o.tree = Link(v, p, 0, n)
    BY <2>1 DEF Err, Ok
  <2> HIDE DEF v, s
  <2>3. 0 \in 0 .. Len(s) /\ \A k \in 1 .. 0 : s[k] \in Abnormal
    BY <1>3
  <2> QED
    BY <2>2, <2>3 DEF s, v
<1>5. CASE ab # <<>> /\ o = CheckedInsertAfter(u, r, n)
  <2>1. r \in Node /\ u.parent[r] = p
    BY <1>1, <1>5, AbnormalChildrenListed
  <2>2. r \in Abnormal
    <3> DEFINE z == u.kids[p]
               h == Leading(z, Abnormal)
    <3>1. z \in Seq(Node)
      BY <1>1 DEF Good, Tree
    <3>2. h \in 0 .. Len(z) /\ \A k \in 1 .. h : z[k] \in Abnormal
      BY <3>1, LeadingPrefix
    <3>3. ab = SubSeq(z, 1, h)
      BY DEF AbnormalChildren
    <3> HIDE DEF ab, z, h
    <3>4. ab \in Seq(Node) /\ Len(ab) = h /\ \A k \in 1 .. h : ab[k] = z[k]
      BY <3>1, <3>2, <3>3
    <3>5. Len(ab) # 0 /\ Len(ab) \in Nat
      BY <1>5, <3>4, EmptySeq
    <3>6. Last(ab) = ab[Len(ab)] /\ Len(ab) \in 1 .. h
      BY <3>4, <3>5 DEF Last
    <3> QED
      BY <3>2, <3>4, <3>6
  <2>3. o.tree = Link(v, v.parent[r], Position(v, r) + 0, n)
    <3>1. \/ o = Err(u)
          \/ o = Undefined(u)
          \/ o = Ok(Link(v, v.parent[r], Position(v, r) + 0, n))
      BY <1>5 DEF CheckedInsertAfter, InsertBeside
    <3> HIDE DEF v
    <3>2. Err(u).res # "ok" /\ Undefined(u).res # "ok"
      BY DEF Err, Undefined
    <3>3. o = Ok(Link(v, v.parent[r], Position(v, r) + 0, n))
      BY <3>1, <3>2
    <3> QED
      BY <3>3 DEF Ok
  <2>4. v.parent[r] = p
    <3>1. v.parent = [u.parent EXCEPT ![n] = NoNode] /\ u.parent \in [Node -> Node \cup {NoNode}]
      BY <1>1, UnlinkGood DEF Good, Tree
    <3> HIDE DEF v
    <3> QED
      BY <1>1, <2>1, <2>2, <3>1
  <2>5. Position(v, r) \in 1 .. Len(s) /\ s[Position(v, r)] = r
    BY <1>1, <1>2, <2>1, <2>4, NoNodeIsNoNode, PositionListed
  <2> HIDE DEF v, s, r
  <2>6. PICK i : i = Position(v, r)
    OBVIOUS
  <2>7. i \in 1 .. Len(s) /\ s[i] = r /\ i + 0 = i /\ i \in 0 .. Len(s)
    BY <1>3, <2>5, <2>6
  <2>8. ASSUME NEW k \in 1 .. i PROVE s[k] \in Abnormal
    <3>1. CASE k = i
      BY <2>2, <2>7, <3>1
    <3>2. CASE k # i
      <4>1. k < i /\ k \in DOMAIN s /\ i \in DOMAIN s /\ s[k] \in Node
        BY <1>3, <2>7, <2>8, <3>2 DEF Seqs
      <4>2. Precedes(s, s[k], r)
        BY <2>7, <4>1 DEF Precedes
      <4>3. MayPrecede(s[k], r)
        BY <1>1, <1>2, <4>2 DEF Ordered, s
      <4>4. s[k] \notin Normal
        BY <1>1, <2>1, <2>2, <4>3, NormalBefore, TextsAreNormal
      <4> QED
        BY <4>1, <4>4 DEF Node
    <3> QED
      BY <3>1, <3>2
  <2> QED
    BY <2>3, <2>4, <2>6, <2>7, <2>8 DEF s, v
<1> QED
  BY <1>4, <1>5

\* What prepend leaves: the moved node shows at the start.
LEMMA PrependShows ==
    ASSUME NEW t, Good(t), Ordered(t), Once(t), NEW n \in Normal, NEW p \in Container,
           n \in Texts => Spaced(t) /\ FirstChild(t, p) # n, PrependNode(t, p, n).res = "ok"
    PROVE  LET w == PrependNode(t, p, n).tree
           IN /\ Shown(w, p) = Cat(Segment(t, n), Rest(t, n, p))
              /\ \A q \in Node : q # p => Shown(w, q) = Rest(t, n, q)
<1> DEFINE u == LeaveNeighbours(t, n)
           o == PrependNode(t, p, n)
           a == AddConsolidate(u, n, NoNode, FirstChild(u, p))
           ab == AbnormalChildren(u, p)
           v == Unlink(u, n)
           N == Segment(t, n)
<1>1. n \in Node /\ p \in Node /\ NoNode \notin Texts
  BY TextsAreNormal
<1>2. Good(u) /\ Ordered(u) /\ (n \in Texts => u = t) /\ Segment(u, n) = N
      /\ \A q \in Node : Rest(u, n, q) = Rest(t, n, q)
  BY Left
<1>3. \/ o = Err(t)
      \/ o = Ok(a.tree) /\ a.merged
      \/ ab # <<>> /\ o = CheckedInsertAfter(u, Last(ab), n)
      \/ o = CheckedPrepend(u, p, n)
  BY DEF PrependNode
<1>4. a.merged => /\ n \in Texts /\ FirstChild(u, p) \in Texts
                  /\ a.tree = Absorb(u, FirstChild(u, p), u.value[n] \o u.value[FirstChild(u, p)], n)
  BY <1>1 DEF AddConsolidate
<1>5. o.res = "ok"
  OBVIOUS
<1> HIDE DEF o, a, ab, u, N
<1>6. \/ o.tree = a.tree /\ a.merged
      \/ ab # <<>> /\ o = CheckedInsertAfter(u, Last(ab), n)
      \/ o = CheckedPrepend(u, p, n)
  BY <1>3, <1>5 DEF Ok, Err
<1>7. N \in Seqs
  BY <1>1, ShareIs DEF N
<1>8. CASE o.tree = a.tree /\ a.merged
  <2>1. n \in Texts /\ u = t
    BY <1>2, <1>4, <1>8
  <2>2. PICK x : x = FirstChild(t, p)
    OBVIOUS
  <2>3. x \in Texts /\ x # n /\ o.tree = Absorb(t, x, t.value[n] \o t.value[x], n)
    BY <1>4, <1>8, <2>1, <2>2
  <2>4. FirstChild(t, p) # NoNode
    BY <1>1, <2>2, <2>3
  <2>5. t.parent[x] = p
    BY <1>1, <2>2, <2>4, EndsListed
  <2>6. PICK A, B : Around(t.kids[p], x, A, B) /\ Range(A) \subseteq Abnormal
    BY <1>1, <2>2, <2>4, FirstAround
  <2>7. x \in Node /\ Segment(t, x) = t.value[x] /\ Segment(t, x) \in Seqs /\ N = t.value[n]
    BY <2>1, <2>3, ShareIs DEF N
  <2>8. PICK X, val : X = Segment(t, x) /\ val = Cat(N, X)
    OBVIOUS
  <2>9. X \in Seqs /\ val \in Seqs /\ o.tree = Absorb(t, x, val, n)
    BY <1>7, <2>3, <2>7, <2>8, CatLaws DEF Cat
  <2> DEFINE f == Mute(Share(t), n)
             h == [f EXCEPT ![x] = val]
  <2>10. /\ f \in Shares /\ h \in Shares /\ h[x] = val
         /\ \A z \in Node : z # x => h[z] = f[z]
    BY <2>1, <2>3, <2>9, AbsorbedShows
  <2>11. /\ \A q \in Node : Shown(o.tree, q) = Joint(h, t.kids[q])
         /\ \A q \in Node : q # t.parent[x] => Shown(o.tree, q) = Rest(t, n, q)
    BY <2>1, <2>3, <2>9, AbsorbedShows
  <2>12. f[x] = X
    BY <1>1, <2>3, <2>7, <2>8, ShareIs, MuteIs
  <2>13. Rest(t, n, p) = Joint(f, t.kids[p])
    BY DEF Rest
  <2>14. \A z \in Abnormal : f[z] = Nil
    <3>1. \A z \in Abnormal : z \in Node /\ z # n /\ Share(t)[z] = Nil
      BY TextsAreNormal, ShareIs
    <3>2. \A z \in Node : z # n => f[z] = Share(t)[z]
      BY <1>1, ShareIs, MuteIs
    <3> HIDE DEF f
    <3> QED
      BY <3>1, <3>2
  <2> HIDE DEF f, h
  <2>15. /\ A \in Seqs /\ B \in Seqs /\ t.kids[p] = Cat(A, Cat(One(x), B))
         /\ x \notin Range(A) /\ x \notin Range(B)
    BY <2>6 DEF Around
  <2>16. PICK c : c = Joint(f, B)
    OBVIOUS
  <2>17. c \in Seqs
    BY <2>10, <2>15, <2>16, JointLaws
  <2>18. Joint(f, A) = Nil
    BY <2>6, <2>10, <2>14, <2>15, JointNil
  <2>19. Joint(h, A) = Nil /\ Joint(h, B) = c
    <3>1. \A z \in Range(A) \cup Range(B) : h[z] = f[z]
      BY <2>10, <2>15, CatMembers
    <3> QED
      BY <2>10, <2>15, <2>16, <2>18, <3>1, JointSame DEF Seqs
  <2>20. Joint(f, t.kids[p]) = Cat(X, c)
    <3>1. Joint(f, t.kids[p]) = Cat(Nil, Cat(X, c))
      BY <2>7, <2>10, <2>12, <2>15, <2>16, <2>18, JointOf
    <3>2. Cat(X, c) \in Seqs
      BY <2>9, <2>17, CatLaws
    <3> QED
      BY <3>1, <3>2, CatLaws
  <2>21. Joint(h, t.kids[p]) = Cat(val, c)
    <3>1. Joint(h, t.kids[p]) = Cat(Nil, Cat(val, c))
      BY <2>7, <2>10, <2>15, <2>19, JointOf
    <3>2. Cat(val, c) \in Seqs
      BY <2>9, <2>17, CatLaws
    <3> QED
      BY <3>1, <3>2, CatLaws
  <2>22. Cat(val, c) = Cat(N, Cat(X, c))
    BY <1>7, <2>8, <2>9, <2>17, CatAssociates
  <2> QED
    BY <1>1, <2>5, <2>11, <2>13, <2>20, <2>21, <2>22 DEF o, N
<1>9. CASE \/ ab # <<>> /\ o = CheckedInsertAfter(u, Last(ab), n)
           \/ o = CheckedPrepend(u, p, n)
  <2>1. \E i \in 0 .. Len(v.kids[p]) :
                 /\ o.tree = Link(v, p, i, n)
                 /\ \A k \in 1 .. i : v.kids[p][k] \in Abnormal
    BY <1>2, <1>5, <1>9, PrependLinks DEF ab, o
  <2>2. PICK i \in 0 .. Len(v.kids[p]) :
                 /\ o.tree = Link(v, p, i, n)
                 /\ \A k \in 1 .. i : v.kids[p][k] \in Abnormal
    BY <2>1
  <2>3. Good(v) /\ v.value = u.value
    BY <1>1, <1>2, UnlinkGood, FreeEmpties
  <2>4. \A q \in Node : Shown(v, q) = Rest(t, n, q)
    BY <1>1, <1>2, UnlinkShows
  <2> DEFINE s == v.kids[p]
             f == Share(v)
             x == SubSeq(s, 1, i)
             y == SubSeq(s, i + 1, Len(s))
  <2> HIDE DEF v
  <2>5. s \in Seqs /\ f \in Shares /\ i \in 0 .. Len(s)
    BY <1>1, <2>3, KidsAre, ShareIs
  <2>6. /\ Shown(o.tree, p) = Cat(Joint(f, x), Cat(f[n], Joint(f, y)))
        /\ \A q \in Node : q # p => Shown(o.tree, q) = Shown(v, q)
    BY <1>1, <2>2, <2>3, <2>5, LinkShows
  <2>7. f[n] = N
    BY <1>1, <1>2, <2>3, ShareIs DEF Segment
  <2>8. \A z \in Abnormal : f[z] = Nil
    BY <2>3, ShareIs
  <2>9. /\ x \in Seqs /\ y \in Seqs /\ s = Cat(x, y)
        /\ Range(x) = {s[k] : k \in 1 .. i}
    BY <2>5, Split
  <2>10. \A k \in 1 .. i : s[k] \in Abnormal
    BY <2>2
  <2>11. Shown(v, p) = Joint(f, s)
    BY DEF Shown
  <2> HIDE DEF f, s, x, y
  <2>12. Joint(f, x) = Nil
    <3>1. \A z \in Range(x) : f[z] = Nil
      BY <2>8, <2>9, <2>10
    <3> QED
      BY <2>5, <2>9, <3>1, JointNil
  <2>13. PICK c : c = Joint(f, y)
    OBVIOUS
  <2>14. c \in Seqs /\ Cat(N, c) \in Seqs
    BY <1>7, <2>5, <2>9, <2>13, JointLaws, CatLaws
  <2>15. Joint(f, s) = c
    BY <2>5, <2>9, <2>12, <2>13, <2>14, JointLaws, CatLaws
  <2>16. Shown(o.tree, p) = Cat(N, c)
    BY <2>6, <2>7, <2>12, <2>13, <2>14, CatLaws
  <2> QED
    BY <1>1, <2>4, <2>6, <2>11, <2>15, <2>16 DEF o, N
<1> QED
  BY <1>6, <1>8, <1>9

\* A node in use shows something, and nothing twice.
LEMMA SegmentShape ==
    ASSUME NEW t, Good(t), Once(t), NEW r \in Normal, Live(t, r)
    PROVE  Segment(t, r) \in Seqs /\ Segment(t, r) # Nil /\ IsInjective(Segment(t, r))
<1>1. Segment(t, r) \in Seqs
  BY TextsAreNormal, ShareIs
<1>2. CASE r \in Texts
  <2>1. Segment(t, r) = t.value[r]
    BY <1>2, ShareIs
  <2>2. t.value[r] # <<>>
    BY <1>2 DEF Once, Written
  <2>3. IsInjective(t.value[r])
    BY <1>2 DEF Once, HeldOnce, IsInjective
  <2> QED
    BY <1>1, <2>1, <2>2, <2>3 DEF Nil
<1>3. CASE r \notin Texts
  <2>1. Segment(t, r) = <<r>>
    BY <1>3 DEF Segment
  <2>2. <<r>> # <<>> /\ IsInjective(<<r>>)
    BY DEF IsInjective
  <2> QED
    BY <1>1, <2>1, <2>2 DEF Nil
<1> QED
  BY <1>2, <1>3

\* Where a node landed, in terms of content.
LEMMA Landed ==
    ASSUME NEW t, Good(t), Ordered(t), Once(t), NEW n \in Normal, NEW r \in Normal, Live(t, r),
           t.parent[r] \in Node,
           NEW u, \A q \in Node : Rest(u, n, q) = Rest(t, n, q),
           Segment(u, n) = Segment(t, n), Segment(u, r) = Segment(t, r), u.parent[r] = t.parent[r],
           NEW w, Good(w), Ordered(w)
    PROVE  LET p    == t.parent[r]
               N    == Segment(t, n)
               rest == Without(Content(t, p), N)
           IN /\ LandsAfter(u, n, r, w) => Content(w, p) = PutAfter(rest, Last(Segment(t, r)), N)
              /\ LandsBefore(u, n, r, w) => Content(w, p) = PutBefore(rest, Head(Segment(t, r)), N)
              /\ LandsAfter(u, n, r, w) \/ LandsBefore(u, n, r, w) =>
                    \A q \in Node : q # p => Content(w, q) = Without(Content(t, q), N)
<1> DEFINE p    == t.parent[r]
           N    == Segment(t, n)
           R    == Segment(t, r)
           rest == Without(Content(t, p), N)
<1>1. \A q \in Node : Content(w, q) = Shown(w, q)
  BY ContentIs
<1>2. \A q \in Node : Without(Content(t, q), N) = Rest(t, n, q)
  BY ContentWithout
<1>3. R \in Seqs /\ R # Nil /\ IsInjective(R)
  BY SegmentShape
<1>4. N \in Seqs
  BY TextsAreNormal, ShareIs
<1>5. p \in Node /\ u.parent[r] = p /\ Segment(u, n) = N /\ Segment(u, r) = R /\ rest = Rest(t, n, p)
  BY <1>2
<1> HIDE DEF p, N, R, rest
<1>6. ASSUME LandsAfter(u, n, r, w)
      PROVE  /\ Content(w, p) = PutAfter(rest, Last(R), N)
             /\ \A q \in Node : q # p => Content(w, q) = Rest(t, n, q)
  <2>1. \E a, b \in Seqs :
          /\ Rest(u, n, p) = Cat(a, Cat(R, b))
          /\ Apart(a, R) /\ Apart(b, R)
          /\ Shown(w, p) = Cat(a, Cat(R, Cat(N, b)))
          /\ \A q \in Node : q # p => Shown(w, q) = Rest(u, n, q)
    BY <1>5, <1>6 DEF LandsAfter
  <2>2. PICK a \in Seqs, b \in Seqs :
          /\ Rest(u, n, p) = Cat(a, Cat(R, b))
          /\ Apart(a, R) /\ Apart(b, R)
          /\ Shown(w, p) = Cat(a, Cat(R, Cat(N, b)))
          /\ \A q \in Node : q # p => Shown(w, q) = Rest(u, n, q)
    BY <2>1
  <2>3. rest = Cat(a, Cat(R, b))
    BY <1>5, <2>2
  <2>4. Apart(a, R) /\ Apart(b, R)
    BY <2>2
  <2>5. PutAfter(rest, Last(R), N) = Cat(a, Cat(R, Cat(N, b)))
    BY <1>3, <1>4, <2>3, <2>4, PutIs
  <2> QED
    BY <1>1, <1>5, <2>2, <2>5
<1>7. ASSUME LandsBefore(u, n, r, w)
      PROVE  /\ Content(w, p) = PutBefore(rest, Head(R), N)
             /\ \A q \in Node : q # p => Content(w, q) = Rest(t, n, q)
  <2>1. \E a, b \in Seqs :
          /\ Rest(u, n, p) = Cat(a, Cat(R, b))
          /\ Apart(a, R) /\ Apart(b, R)
          /\ Shown(w, p) = Cat(a, Cat(N, Cat(R, b)))
          /\ \A q \in Node : q # p => Shown(w, q) = Rest(u, n, q)
    BY <1>5, <1>7 DEF LandsBefore
  <2>2. PICK a \in Seqs, b \in Seqs :
          /\ Rest(u, n, p) = Cat(a, Cat(R, b))
          /\ Apart(a, R) /\ Apart(b, R)
          /\ Shown(w, p) = Cat(a, Cat(N, Cat(R, b)))
          /\ \A q \in Node : q # p => Shown(w, q) = Rest(u, n, q)
    BY <2>1
  <2>3. rest = Cat(a, Cat(R, b))
    BY <1>5, <2>2
  <2>4. Apart(a, R) /\ Apart(b, R)
    BY <2>2
  <2>5. PutBefore(rest, Head(R), N) = Cat(a, Cat(N, Cat(R, b)))
    BY <1>3, <1>4, <2>3, <2>4, PutIs
  <2> QED
    BY <1>1, <1>5, <2>2, <2>5
<1> QED
  BY <1>2, <1>6, <1>7 DEF p, N, R, rest

\* append and prepend, in terms of content.
LEMMA EndsMoved ==
    ASSUME NEW t, Good(t), Ordered(t), Once(t), Spaced(t), NEW p \in Container, Live(t, p),
           NEW n \in Normal, Live(t, n)
    PROVE  LET N == Segment(t, n)
           IN /\ CarefulUnder(t, LastChild(t, p), n) =>
                    MovesInto(t, AppendNode(t, p, n), n, p, Without(Content(t, p), N) \o N)
              /\ CarefulUnder(t, FirstChild(t, p), n) =>
                    MovesInto(t, PrependNode(t, p, n), n, p, N \o Without(Content(t, p), N))
<1> DEFINE N == Segment(t, n)
           x == AppendNode(t, p, n)
           y == PrependNode(t, p, n)
<1>1. n \in Node /\ p \in Node /\ Container \subseteq Node
  BY TextsAreNormal
<1>2. \A q \in Node : Without(Content(t, q), N) = Rest(t, n, q)
  BY ContentWithout
<1>3. Good(x.tree) /\ Good(y.tree)
  BY <1>1, AppendNodeMoves, PrependNodeMoves DEF Moved
<1>4. Ordered(x.tree) /\ Ordered(y.tree)
  BY <1>1, AppendNodeOrdered, PrependNodeOrdered
<1>5. \A q \in Node : Content(x.tree, q) = Shown(x.tree, q) /\ Content(y.tree, q) = Shown(y.tree, q)
  BY <1>3, <1>4, ContentIs
<1>6. ASSUME CarefulUnder(t, LastChild(t, p), n), x.res = "ok"
      PROVE  /\ Shown(x.tree, p) = Cat(Rest(t, n, p), N)
             /\ \A q \in Node : q # p => Shown(x.tree, q) = Rest(t, n, q)
  <2>1. n \in Texts => Spaced(t) /\ LastChild(t, p) # n
    BY <1>6 DEF CarefulUnder
  <2> QED
    BY <1>6, <2>1, AppendShows
<1>7. ASSUME CarefulUnder(t, FirstChild(t, p), n), y.res = "ok"
      PROVE  /\ Shown(y.tree, p) = Cat(N, Rest(t, n, p))
             /\ \A q \in Node : q # p => Shown(y.tree, q) = Rest(t, n, q)
  <2>1. n \in Texts => Spaced(t) /\ FirstChild(t, p) # n
    BY <1>7 DEF CarefulUnder
  <2> QED
    BY <1>7, <2>1, PrependShows
<1> HIDE DEF x, y, N
<1>8. CarefulUnder(t, LastChild(t, p), n) =>
          MovesInto(t, x, n, p, Without(Content(t, p), N) \o N)
  BY <1>1, <1>2, <1>5, <1>6 DEF MovesInto, Cat, N
<1>9. CarefulUnder(t, FirstChild(t, p), n) =>
          MovesInto(t, y, n, p, N \o Without(Content(t, p), N))
  BY <1>1, <1>2, <1>5, <1>7 DEF MovesInto, Cat, N
<1> QED
  BY <1>8, <1>9 DEF x, y, N

\* insert_after and insert_before, in terms of content.
LEMMA SidesMoved ==
    ASSUME NEW t, Good(t), Ordered(t), Once(t), Spaced(t), NEW r \in Normal, Live(t, r),
           NEW n \in Normal, Live(t, n), t.parent[r] # NoNode, CarefulBeside(t, r, n)
    PROVE  LET p    == t.parent[r]
               N    == Segment(t, n)
               rest == Without(Content(t, p), N)
           IN /\ MovesInto(t, InsertAfter(t, r, n), n, p, PutAfter(rest, Last(Segment(t, r)), N))
              /\ MovesInto(t, InsertBefore(t, r, n), n, p, PutBefore(rest, Head(Segment(t, r)), N))
<1> DEFINE p    == t.parent[r]
           N    == Segment(t, n)
           rest == Without(Content(t, p), N)
           u    == LeaveNeighbours(t, n)
           x    == InsertAfter(t, r, n)
           y    == InsertBefore(t, r, n)
<1>1. n \in Node /\ r \in Node /\ Container \subseteq Node /\ t.parent[r] \in Node
  BY TextsAreNormal, KidsAre
<1>2. r # n /\ (r \in {PreviousSibling(t, n), NextSibling(t, n)} =>
                  n \notin Texts /\ ~({PreviousSibling(t, n), NextSibling(t, n)} \subseteq Texts))
  BY DEF CarefulBeside
<1>3. Good(x.tree) /\ Good(y.tree)
  BY <1>1, InsertAfterMoves, InsertBeforeMoves DEF Moved
<1>4. Ordered(x.tree) /\ Ordered(y.tree)
  BY <1>1, InsertOrdered
<1>5. Segment(u, n) = N /\ \A q \in Node : Rest(u, n, q) = Rest(t, n, q)
  BY Left
<1>6. Live(u, r)
  BY <1>1, <1>2, SurvivesMove
<1>7. Segment(u, r) = Segment(t, r) /\ u.parent[r] = t.parent[r]
  BY <1>2, <1>6, LeftBeside
<1>8. n \in Texts => NextSibling(t, r) # n /\ PreviousSibling(t, r) # n
  <2> SUFFICES ASSUME n \in Texts PROVE NextSibling(t, r) # n /\ PreviousSibling(t, r) # n
    OBVIOUS
  <2>1. n # NoNode
    BY TextsAreNormal
  <2>2. NextSibling(t, r) = n => PreviousSibling(t, n) = r
    BY <2>1, SiblingsBeside, BesideSiblings
  <2>3. PreviousSibling(t, r) = n => NextSibling(t, n) = r
    BY <2>1, SiblingsBeside, BesideSiblings
  <2> QED
    BY <1>2, <2>2, <2>3
<1>9. /\ x.res = "ok" => LandsAfter(u, n, r, x.tree)
      /\ y.res = "ok" => LandsBefore(u, n, r, y.tree)
  BY <1>2, <1>7, <1>8, InsertLands
<1> HIDE DEF u, x, y
<1>10. x.res = "ok" =>
          /\ Content(x.tree, p) = PutAfter(rest, Last(Segment(t, r)), N)
          /\ \A q \in Node : q # p => Content(x.tree, q) = Without(Content(t, q), N)
  BY <1>1, <1>3, <1>4, <1>5, <1>7, <1>9, Landed
<1>11. y.res = "ok" =>
          /\ Content(y.tree, p) = PutBefore(rest, Head(Segment(t, r)), N)
          /\ \A q \in Node : q # p => Content(y.tree, q) = Without(Content(t, q), N)
  BY <1>1, <1>3, <1>4, <1>5, <1>7, <1>9, Landed
<1> HIDE DEF p, rest
<1>12. MovesInto(t, x, n, p, PutAfter(rest, Last(Segment(t, r)), N))
  BY <1>1, <1>10 DEF MovesInto
<1>13. MovesInto(t, y, n, p, PutBefore(rest, Head(Segment(t, r)), N))
  BY <1>1, <1>11 DEF MovesInto
<1> QED
  BY <1>12, <1>13 DEF p, rest, x, y

-----------------------------------------------------------------------------
(* Taking a segment out of a content. *)

\* Taking a segment out works member by member.
LEMMA WithoutParts ==
    ASSUME NEW s \in Seqs
    PROVE  /\ \A x \in Seqs : Without(x, s) \in Seqs
           /\ \A x, y \in Seqs : Without(Cat(x, y), s) = Cat(Without(x, s), Without(y, s))
           /\ \A x \in Seqs : Apart(x, s) => Without(x, s) = x
           /\ \A x \in Seqs : Range(x) \subseteq Range(s) => Without(x, s) = Nil
<1> DEFINE f == [y \in Node |-> IF y \in Range(s) THEN Nil ELSE One(y)]
<1>1. f \in Shares
  BY CatLaws DEF Shares, Seqs
<1>2. \A y \in Node : /\ y \in Range(s) => f[y] = Nil
                      /\ y \notin Range(s) => f[y] = One(y)
  OBVIOUS
<1> HIDE DEF f
<1>3. ASSUME NEW x \in Seqs PROVE Without(x, s) = Joint(f, x)
  <2>1. ASSUME NEW i \in DOMAIN x
        PROVE  f[x[i]] = IF x[i] \in Range(s) THEN <<>> ELSE <<x[i]>>
    <3>1. x[i] \in Node
      BY CatMembers DEF Range
    <3> QED
      BY <1>2, <3>1 DEF Nil, One
  <2>2. [i \in DOMAIN x |-> f[x[i]]] =
            [i \in DOMAIN x |-> IF x[i] \in Range(s) THEN <<>> ELSE <<x[i]>>]
    BY <2>1
  <2>3. ToSet(s) = Range(s)
    BY DEF ToSet, Range
  <2> QED
    BY <2>2, <2>3 DEF Without, Joint
<1>4. \A x \in Seqs : Without(x, s) \in Seqs
  BY <1>1, <1>3, JointLaws
<1>5. \A x, y \in Seqs : Without(Cat(x, y), s) = Cat(Without(x, s), Without(y, s))
  BY <1>1, <1>3, JointLaws, CatLaws
<1>6. ASSUME NEW x \in Seqs, Apart(x, s) PROVE Without(x, s) = x
  <2>1. \A y \in Range(x) : f[y] = One(y)
    BY <1>2, <1>6, CatMembers DEF Apart
  <2> QED
    BY <1>1, <1>3, <2>1, JointSelf
<1>7. ASSUME NEW x \in Seqs, Range(x) \subseteq Range(s) PROVE Without(x, s) = Nil
  <2>1. \A y \in Range(x) : f[y] = Nil
    BY <1>2, <1>7, CatMembers
  <2> QED
    BY <1>1, <1>3, <2>1, JointNil
<1> QED
  BY <1>4, <1>5, <1>6, <1>7

\* Cutting the middle out of a sequence that holds it once.
LEMMA CutMiddle ==
    ASSUME NEW a \in Seqs, NEW R \in Seqs, NEW b \in Seqs, Apart(a, R), Apart(b, R)
    PROVE  Without(Cat(a, Cat(R, b)), R) = Cat(a, b)
<1>1. Without(a, R) = a /\ Without(b, R) = b /\ Without(R, R) = Nil
  BY WithoutParts
<1>2. Cat(R, b) \in Seqs
  BY CatLaws
<1>3. Without(Cat(a, Cat(R, b)), R) = Cat(Without(a, R), Without(Cat(R, b), R))
  BY <1>2, WithoutParts
<1>4. Without(Cat(R, b), R) = Cat(Without(R, R), Without(b, R))
  BY WithoutParts
<1> QED
  BY <1>1, <1>3, <1>4, CatLaws

\* Putting q before R and taking R out puts q where R was.
LEMMA Swapped ==
    ASSUME NEW a \in Seqs, NEW R \in Seqs, NEW b \in Seqs, NEW q \in Seqs,
           R # Nil, IsInjective(R), Apart(a, R), Apart(b, R), Apart(q, R),
           NEW s, s = Cat(a, Cat(R, b))
    PROVE  Without(PutBefore(s, Head(R), q), R) = Cat(a, Cat(q, b))
<1>1. PutBefore(s, Head(R), q) = Cat(a, Cat(q, Cat(R, b)))
  BY PutIs
<1>2. PICK c : c = Cat(a, q)
  OBVIOUS
<1>3. c \in Seqs /\ Range(c) = Range(a) \cup Range(q)
  BY <1>2, CatLaws, CatMembers
<1>4. Apart(c, R)
  BY <1>3 DEF Apart
<1>5. Cat(R, b) \in Seqs
  BY CatLaws
<1>6. PutBefore(s, Head(R), q) = Cat(c, Cat(R, b))
  BY <1>1, <1>2, <1>5, CatAssociates
<1>7. Without(PutBefore(s, Head(R), q), R) = Cat(c, b)
  BY <1>3, <1>4, <1>6, CutMiddle
<1> QED
  BY <1>2, <1>7, CatAssociates

-----------------------------------------------------------------------------
(* Replacing a node. *)

\* What is left when the subtree of n is gone, seen without m too.
LEMMA RemovedRest ==
    ASSUME NEW t, Good(t), NEW n \in Normal, NEW m \in Normal, m \notin Subtree(t, n)
    PROVE  LET u == RemoveSubtree(t, n)
               h == Mute(Share(t), m)
           IN /\ h \in Shares
              /\ \A z \in Node \ Subtree(t, n) : Segment(u, z) = Segment(t, z)
              /\ \A q \in Node \ Subtree(t, n) : Rest(u, m, q) = Joint(Mute(h, n), t.kids[q])
              /\ \A q \in Node \ Subtree(t, n) : q # t.parent[n] => Rest(u, m, q) = Rest(t, m, q)
<1> DEFINE u == RemoveSubtree(t, n)
           G == Subtree(t, n)
           h == Mute(Share(t), m)
           k == Mute(Share(u), m)
<1>1. n \in Node /\ m \in Node
  BY TextsAreNormal
<1>2. Good(u)
  BY <1>1, RemoveSubtreeGood
<1>3. \A q \in Node \ G : u.kids[q] = Unlink(t, n).kids[q]
  BY <1>1, RemoveSubtreeThinner
<1>4. \A z \in Node \ G : u.value[z] = t.value[z]
  <2>1. Unlink(t, n) \in Tree /\ Unlink(t, n).value = t.value
    BY <1>1, UnlinkGood, FreeEmpties DEF Good
  <2> QED
    BY <2>1 DEF RemoveSubtree, Tree
<1>5. \A z \in Node \ G : Segment(u, z) = Segment(t, z) /\ Share(u)[z] = Share(t)[z]
  BY <1>4 DEF Share, Segment
<1>6. Share(t) \in Shares /\ Share(u) \in Shares
  BY <1>2, ShareIs
<1>7. h \in Shares /\ h[m] = Nil /\ \A z \in Node : z # m => h[z] = Share(t)[z]
  BY <1>1, <1>6, MuteIs
<1>8. k \in Shares /\ k[m] = Nil /\ \A z \in Node : z # m => k[z] = Share(u)[z]
  BY <1>1, <1>6, MuteIs
<1>9. \A z \in Node \ {n} : t.parent[z] \in Node \ G => z \notin G
  BY <1>1, SubtreeHasParents
<1>10. \A q \in Node : Rest(u, m, q) = Joint(k, u.kids[q]) /\ Rest(t, m, q) = Joint(h, t.kids[q])
  BY DEF Rest
<1> HIDE DEF u, h, k
<1>11. ASSUME NEW q \in Node \ G
       PROVE  Joint(k, u.kids[q]) = Joint(Mute(h, n), t.kids[q])
  <2>1. u.kids[q] = Unlink(t, n).kids[q]
    BY <1>3
  <2>2. Range(Unlink(t, n).kids[q]) = Range(t.kids[q]) \ {n}
    BY <1>1, UnlinkGood
  <2>3. Unlink(t, n).kids[q] \in Seqs /\ Range(Unlink(t, n).kids[q]) \subseteq Node
    <3>1. Good(Unlink(t, n))
      BY <1>1, UnlinkGood
    <3> QED
      BY <3>1, KidsAre, CatMembers
  <2>4. ASSUME NEW z \in Range(Unlink(t, n).kids[q])
        PROVE  z \in Node \ G
    <3>1. z \in Node /\ z # n /\ z \in Range(t.kids[q])
      BY <2>2, <2>3
    <3>2. t.parent[z] = q
      BY <3>1, KidsAre
    <3> QED
      BY <1>9, <3>1, <3>2
  <2>5. \A z \in Range(Unlink(t, n).kids[q]) : k[z] = h[z]
    BY <1>5, <1>7, <1>8, <2>4
  <2>6. Joint(k, Unlink(t, n).kids[q]) = Joint(h, Unlink(t, n).kids[q])
    BY <1>7, <1>8, <2>3, <2>5, JointSame DEF Seqs
  <2>7. Joint(h, Unlink(t, n).kids[q]) = Joint(Mute(h, n), t.kids[q])
    BY <1>1, <1>7, CutShares
  <2> QED
    BY <2>1, <2>6, <2>7
<1>12. ASSUME NEW q \in Node \ G, q # t.parent[n]
       PROVE  Joint(Mute(h, n), t.kids[q]) = Joint(h, t.kids[q])
  <2>1. t.kids[q] \in Seqs /\ n \notin Range(t.kids[q])
    BY <1>1, <1>12, KidsAre
  <2> QED
    BY <1>1, <1>7, <2>1, MuteIs
<1>13. \A z \in Node \ G : Segment(u, z) = Segment(t, z)
  BY <1>5
<1>14. \A q \in Node \ G : Rest(u, m, q) = Joint(Mute(h, n), t.kids[q])
  BY <1>10, <1>11
<1>15. \A q \in Node \ G : q # t.parent[n] => Rest(u, m, q) = Rest(t, m, q)
  BY <1>10, <1>11, <1>12
<1> QED
  BY <1>7, <1>13, <1>14, <1>15 DEF u, h

\* What the contract of replace asks for, in terms of what shows before and
\* behind n.
LEMMA ReplacedShape ==
    ASSUME NEW t, Good(t), Ordered(t), Once(t), NEW n \in Normal, Live(t, n), t.parent[n] \in Node,
           NEW m \in Normal, m # n,
           NEW A, NEW B, Around(t.kids[t.parent[n]], n, A, B)
    PROVE  LET p   == t.parent[n]
               h   == Mute(Share(t), m)
               in  == Segment(t, m)
               out == Segment(t, n)
           IN /\ Joint(h, A) \in Seqs /\ Joint(h, B) \in Seqs /\ in \in Seqs
              /\ Joint(Mute(h, n), t.kids[p]) = Cat(Joint(h, A), Joint(h, B))
              /\ Without(PutBefore(Without(Content(t, p), in), Head(out), in), out)
                    = Cat(Joint(h, A), Cat(in, Joint(h, B)))
<1> DEFINE p   == t.parent[n]
           h   == Mute(Share(t), m)
           in  == Segment(t, m)
           out == Segment(t, n)
<1>1. n \in Node /\ m \in Node /\ p \in Node
  BY TextsAreNormal
<1>2. Share(t) \in Shares
  BY ShareIs
<1>3. h \in Shares /\ h[m] = Nil /\ \A z \in Node : z # m => h[z] = Share(t)[z]
  BY <1>1, <1>2, MuteIs
<1>4. h[n] = out /\ \A z \in Node : z # n => h[z] \in {Nil, Share(t)[z]}
  BY <1>1, <1>3, ShareIs
<1>5. A \in Seqs /\ B \in Seqs /\ n \notin Range(A) /\ n \notin Range(B)
  BY DEF Around
<1>6. in \in Seqs /\ out \in Seqs /\ out # Nil /\ IsInjective(out)
  BY <1>1, ShareIs, SegmentShape
<1>7. Apart(in, out)
  BY SegmentsApart DEF Once, Apart
<1>8. Without(Content(t, p), in) = Joint(h, t.kids[p])
  BY <1>1, ContentWithout DEF Rest
<1>9. Apart(Joint(h, A), out) /\ Apart(Joint(h, B), out)
  BY <1>3, <1>4, <1>5, OthersApart DEF Once
<1> HIDE DEF h, in, out, p
<1>10. PICK a, b : a = Joint(h, A) /\ b = Joint(h, B)
  OBVIOUS
<1>11. a \in Seqs /\ b \in Seqs
  BY <1>3, <1>5, <1>10, JointLaws
<1>12. Around(t.kids[p], n, A, B)
  BY DEF p
<1>13. Joint(h, t.kids[p]) = Cat(a, Cat(out, b)) /\ Joint(Mute(h, n), t.kids[p]) = Cat(a, b)
  BY <1>1, <1>3, <1>4, <1>10, <1>12, JointAround
<1>14. Apart(a, out) /\ Apart(b, out)
  BY <1>9, <1>10
<1>15. Without(PutBefore(Without(Content(t, p), in), Head(out), in), out) = Cat(a, Cat(in, b))
  BY <1>6, <1>7, <1>8, <1>11, <1>13, <1>14, Swapped
<1> QED
  BY <1>6, <1>10, <1>11, <1>13, <1>15 DEF h, in, out, p

\* The tree a careful replace goes on with, once what n held is gone.
LEMMA ReplaceStarts ==
    ASSUME NEW t, Good(t), Ordered(t), Once(t), Spaced(t),
           NEW n \in Normal, Live(t, n), NEW m \in Normal, Live(t, m), CarefulReplace(t, n, m)
    PROVE  LET u == RemoveSubtree(t, n)
               p == t.parent[n]
           IN /\ Good(u) /\ Ordered(u) /\ Once(u) /\ (m \in Texts => Spaced(u))
              /\ Live(u, m) /\ Live(u, p) /\ p \in Container \ Subtree(t, n)
              /\ m # n /\ m \notin Subtree(t, n) /\ Segment(u, m) = Segment(t, m)
              /\ \A q \in Subtree(t, n) : u.phase[q] = "removed"
<1> DEFINE u == RemoveSubtree(t, n)
           p == t.parent[n]
           prev == PreviousSibling(t, n)
           next == NextSibling(t, n)
<1>1. n \in Node /\ m \in Node
  BY TextsAreNormal
<1>2. m \notin Subtree(t, n) /\ p # NoNode /\ ~(m \in Texts /\ {prev, next} \subseteq Texts)
  BY DEF CarefulReplace
<1>3. n \in Subtree(t, n)
  BY <1>1 DEF Subtree, AncestorsOrSelf
<1>4. p \in Container /\ p \notin Subtree(t, n)
  BY <1>1, <1>2, ParentOutside DEF Good, Forest, ParentsAreContainers
<1>5. /\ Good(u)
      /\ \A x \in Node : u.phase[x] = IF x \in Subtree(t, n) THEN "removed" ELSE t.phase[x]
  BY <1>1, RemoveSubtreeGood
<1>6. Ordered(u)
  BY <1>1, RemoveSubtreeThinner, ThinnerOrdered
<1>7. Once(u)
  BY <1>1, RemovalsConserve, ConservesOnce
<1>8. m \in Texts => Spaced(u)
  BY <1>1, <1>2, TakeOutGaps, SpacedGaps
<1>9. Live(t, p)
  <2>1. n \in Range(t.kids[p])
    BY <1>1, <1>2, KidsAre
  <2>2. PICK i \in DOMAIN t.kids[p] : t.kids[p][i] = n
    BY <2>1 DEF Range
  <2> QED
    BY <1>4, <2>2, ParentsHaveKids, TextsAreNormal
<1>10. Segment(u, m) = Segment(t, m)
  BY <1>1, <1>2, RemovedRest
<1>11. p \in Node /\ Subtree(t, n) \subseteq Node
  BY <1>4, TextsAreNormal DEF Subtree
<1> HIDE DEF u, p
<1>12. Live(u, m) /\ Live(u, p) /\ \A q \in Subtree(t, n) : u.phase[q] = "removed"
  BY <1>1, <1>2, <1>4, <1>5, <1>9, <1>11 DEF Live
<1>13. m # n
  BY <1>2, <1>3
<1> QED
  BY <1>2, <1>4, <1>5, <1>6, <1>7, <1>8, <1>10, <1>12, <1>13 DEF u, p

\* Replacing behind a sibling.
LEMMA ReplacedBehind ==
    ASSUME NEW t, Good(t), Ordered(t), Once(t), Spaced(t),
           NEW n \in Normal, Live(t, n), NEW m \in Normal, Live(t, m), CarefulReplace(t, n, m),
           PreviousSibling(t, n) # NoNode
    PROVE  LET u    == RemoveSubtree(t, n)
               prev == PreviousSibling(t, n)
               v    == LeaveNeighbours(u, m)
           IN /\ prev \in Normal /\ Live(u, prev) /\ Live(t, prev) /\ m # prev
              /\ u.parent[prev] = t.parent[n] /\ t.parent[prev] = t.parent[n]
              /\ m \in Texts => NextSibling(u, prev) # m
              /\ prev \in {PreviousSibling(u, m), NextSibling(u, m)} =>
                    ~({PreviousSibling(u, m), NextSibling(u, m)} \subseteq Texts)
              /\ Live(v, prev)
<1> DEFINE u    == RemoveSubtree(t, n)
           prev == PreviousSibling(t, n)
           next == NextSibling(t, n)
           v    == LeaveNeighbours(u, m)
           p    == t.parent[n]
<1>1. n \in Node /\ m \in Node /\ NoNode \notin Texts
  BY TextsAreNormal
<1>2. /\ prev \in Normal /\ Live(u, prev) /\ u.parent[prev] \in Container /\ m # prev
      /\ NextSibling(u, m) # prev \/ ~({PreviousSibling(u, m), NextSibling(u, m)} \subseteq Texts)
  BY <1>1, ReplaceBeside
<1>3. Good(u) /\ m # n
  BY ReplaceStarts
<1>4. prev \in Node /\ prev # NoNode /\ m # NoNode
  BY <1>1, <1>2, NoNodeIsNoNode, TextsAreNormal
<1>5. Live(v, prev)
  BY <1>1, <1>2, <1>3, <1>4, SurvivesMove
<1>6. Beside(t, prev, n)
  BY <1>4, SiblingsBeside
<1>7. Live(t, prev) /\ t.parent[prev] = p
  BY <1>6, BesideListed
<1>8. u.parent[prev] = p
  <2>1. Unlink(t, n).parent = [t.parent EXCEPT ![n] = NoNode]
    BY <1>1, UnlinkGood
  <2>2. prev # n
    BY <1>6, BesideListed
  <2>3. Unlink(t, n).parent[prev] = t.parent[prev]
    BY <1>4, <2>1, <2>2 DEF Good, Tree
  <2>4. u.parent = [x \in Node |-> IF x \in Subtree(t, n) THEN NoNode ELSE Unlink(t, n).parent[x]]
    BY <1>1, UnlinkGood DEF RemoveSubtree, Good, Tree
  <2>5. u.parent[prev] # NoNode
    BY <1>2, NoNodeIsNoNode, TextsAreNormal
  <2> QED
    BY <1>4, <1>7, <2>3, <2>4, <2>5
<1>9. /\ m = next => m \notin Texts /\ ~({prev, NextSibling(t, m)} \subseteq Texts)
  BY DEF CarefulReplace
<1> HIDE DEF u, v, p, prev, next
<1>10. ASSUME Beside(u, prev, m) PROVE Beside(t, n, m) /\ m = next
  <2>1. Beside(t, prev, m) \/ (Beside(t, prev, n) /\ Beside(t, n, m))
    BY <1>1, <1>10, RemoveSubtreeBeside DEF u
  <2>2. ~Beside(t, prev, m)
    BY <1>3, <1>6, BesideUnique
  <2>3. Beside(t, n, m)
    BY <2>1, <2>2
  <2> QED
    BY <2>3, BesideSiblings DEF next
<1>11. m \in Texts => NextSibling(u, prev) # m
  <2>1. NextSibling(u, prev) = m => Beside(u, prev, m)
    BY <1>2, <1>3, <1>4, SiblingsBeside
  <2> QED
    BY <1>9, <1>10, <2>1
<1>12. ASSUME prev = PreviousSibling(u, m), prev \in Texts, NextSibling(u, m) \in Texts
       PROVE  FALSE
  <2> DEFINE y == NextSibling(u, m)
  <2>1. Beside(u, prev, m)
    BY <1>3, <1>4, <1>12, SiblingsBeside
  <2>2. y # NoNode /\ y \in Normal
    BY <1>1, <1>12, TextsAreNormal
  <2>3. Beside(u, m, y)
    BY <1>3, <2>2, SiblingsBeside
  <2> HIDE DEF y
  <2>4. Beside(t, m, y) \/ (Beside(t, m, n) /\ Beside(t, n, y))
    BY <1>1, <2>3, RemoveSubtreeBeside DEF u
  <2>5. Beside(t, n, m) /\ m = next
    BY <1>10, <2>1
  <2>6. ~Beside(t, m, n)
    BY <2>5, BesideUnique
  <2>7. Beside(t, m, y)
    BY <2>4, <2>6
  <2>8. y = NextSibling(t, m)
    BY <2>2, <2>7, BesideSiblings
  <2> QED
    BY <1>9, <1>12, <2>5, <2>8 DEF y
<1>13. prev \in {PreviousSibling(u, m), NextSibling(u, m)} =>
          ~({PreviousSibling(u, m), NextSibling(u, m)} \subseteq Texts)
  BY <1>2, <1>12
<1> QED
  BY <1>2, <1>5, <1>7, <1>8, <1>11, <1>13 DEF u, v, p, prev

\* A first child is behind the entries, and its neighbour becomes the first.
LEMMA NoneBefore ==
    ASSUME NEW t, Good(t), Ordered(t), NEW n \in Normal, t.parent[n] # NoNode,
           PreviousSibling(t, n) = NoNode
    PROVE  LET p == t.parent[n]
           IN \E A, B : /\ Around(t.kids[p], n, A, B) /\ Range(A) \subseteq Abnormal
                        /\ Unlink(t, n).kids[p] = Cat(A, B)
                        /\ 1 \in DOMAIN B => Beside(t, n, B[1])
<1> DEFINE p == t.parent[n]
           s == t.kids[p]
           i == Position(t, n)
           A == SubSeq(s, 1, i - 1)
           B == SubSeq(s, i + 1, Len(s))
<1>1. n \in Node /\ p \in Node
  BY TextsAreNormal, KidsAre
<1>2. i \in 1 .. Len(s) /\ s[i] = n /\ s \in Seqs /\ IsInjective(s)
  BY <1>1, PositionListed DEF Seqs
<1>3. Unlink(t, n).kids[p] = Splice(s, i - 1, i, <<>>)
  BY <1>1, UnlinkKids
<1>4. i - 1 \in DOMAIN s => ~SameCategory(s[i - 1], n)
  <2>1. i + -1 = i - 1
    BY <1>2 DEF Seqs
  <2>2. ASSUME i - 1 \in DOMAIN s, SameCategory(s[i - 1], n) PROVE s[i - 1] = NoNode
    BY <2>1, <2>2 DEF PreviousSibling, Neighbour
  <2>3. i - 1 \in DOMAIN s => s[i - 1] \in Node
    BY <1>2 DEF Seqs
  <2> QED
    BY <2>2, <2>3, NoNodeIsNoNode
<1>5. \A x, y : Precedes(s, x, y) => MayPrecede(x, y)
  BY <1>1 DEF Ordered
<1>6. \E q \in Node : s = t.kids[q]
  BY <1>1
<1> HIDE DEF p, s, i
<1>7. Len(s) \in Nat /\ DOMAIN s = 1 .. Len(s) /\ i \in Nat /\ \A k \in 1 .. Len(s) : s[k] \in Node
  BY <1>2 DEF Seqs
<1>8. \A k \in 1 .. i - 1 : s[k] \in Abnormal
  <2> SUFFICES ASSUME NEW k \in 1 .. i - 1, s[k] \notin Abnormal PROVE FALSE
    OBVIOUS
  <2>1. i - 1 \in 1 .. Len(s) /\ k \in 1 .. Len(s) /\ (k < i - 1 \/ k = i - 1)
    BY <1>2, <1>7
  <2>2. s[i - 1] \in Node /\ s[k] \in Node
    BY <1>7, <2>1
  <2>3. s[k] \in Normal
    BY <2>2 DEF Node
  <2>4. k < i - 1 => s[i - 1] \in Normal
    <3>1. k < i - 1 => Precedes(s, s[k], s[i - 1])
      BY <1>7, <2>1 DEF Precedes
    <3> QED
      BY <1>5, <2>2, <2>3, <3>1, NormalBefore
  <2>5. s[i - 1] \in Normal
    BY <2>1, <2>3, <2>4
  <2>6. SameCategory(s[i - 1], n)
    BY <2>5, TextsAreNormal DEF SameCategory, Abnormal
  <2> QED
    BY <1>4, <1>7, <2>1, <2>6
<1> HIDE DEF A, B
<1>9. PICK a, b : a = A /\ b = B
  OBVIOUS
<1>10. Around(s, s[i], a, b) /\ Splice(s, i - 1, i, <<>>) = Cat(a, b)
  BY <1>2, <1>9, AroundAt DEF A, B
<1>11. Range(a) = {s[k] : k \in 1 .. i - 1}
  <2>1. i - 1 \in 0 .. Len(s)
    BY <1>2, <1>7
  <2> QED
    BY <1>2, <1>9, <2>1, Split DEF A
<1>12. Range(a) \subseteq Abnormal
  BY <1>8, <1>11
<1>13. 1 \in DOMAIN b => Beside(t, n, b[1])
  <2>1. i \in 0 .. Len(s) /\ Len(s) \in i .. Len(s)
    BY <1>2, <1>7
  <2>2. DOMAIN b = 1 .. Len(s) - i /\ \A k \in 1 .. Len(s) - i : b[k] = s[i + k]
    BY <1>2, <1>9, <2>1, Part DEF B
  <2>3. ASSUME 1 \in DOMAIN b PROVE i + 1 \in DOMAIN s /\ b[1] = s[i + 1] /\ i \in DOMAIN s
    BY <1>2, <1>7, <2>2, <2>3
  <2>4. 1 \in DOMAIN b => NextTo(s, n, b[1])
    BY <1>2, <2>3 DEF NextTo
  <2> QED
    BY <1>6, <2>4 DEF Beside
<1> QED
  BY <1>2, <1>3, <1>10, <1>12, <1>13 DEF p, s

\* What leads the sequence behind abnormal nodes is its first normal node.
LEMMA LeadsBehind ==
    ASSUME NEW A \in Seqs, NEW B \in Seqs, NEW C \in Seqs, NEW D \in Seqs, NEW m \in Normal,
           Cat(A, B) = Cat(C, Cat(One(m), D)), Range(A) \subseteq Abnormal, Range(C) \subseteq Abnormal,
           1 \in DOMAIN B => B[1] \in Normal
    PROVE  1 \in DOMAIN B /\ B[1] = m
<1>1. m \in Node /\ m \notin Abnormal
  BY TextsAreNormal
<1>2. PICK e : e = Cat(One(m), D)
  OBVIOUS
<1>3. PICK r : r = Cat(A, B)
  OBVIOUS
<1>4. One(m) \in Seqs /\ e \in Seqs /\ r = Cat(C, e)
  BY <1>1, <1>2, <1>3, CatLaws
<1>5. IsCat(r, A, B) /\ IsCat(r, C, e)
  BY <1>3, <1>4, CatAt
<1>6. IsCat(e, One(m), D)
  BY <1>2, <1>4, CatAt
<1>7. Len(One(m)) = 1 /\ One(m)[1] = m
  BY DEF One
<1>8. e[1] = m /\ 1 <= Len(e) /\ Len(e) \in Nat
  BY <1>6, <1>7, <1>5 DEF IsCat
<1>9. Len(A) \in Nat /\ Len(B) \in Nat /\ Len(C) \in Nat /\ Len(A) + Len(B) = Len(C) + Len(e)
  BY <1>5 DEF IsCat
<1>10. (\A k \in 1 .. Len(A) : r[k] \in Abnormal) /\ \A k \in 1 .. Len(C) : r[k] \in Abnormal
  BY <1>5 DEF IsCat, Range
<1>11. r[Len(C) + 1] = m /\ (1 <= Len(B) => r[Len(A) + 1] = B[1]) /\ DOMAIN B = 1 .. Len(B)
  BY <1>5, <1>8 DEF IsCat
<1>12. ~(Len(C) < Len(A))
  <2> SUFFICES ASSUME Len(C) < Len(A) PROVE FALSE
    OBVIOUS
  <2>1. Len(C) + 1 \in 1 .. Len(A)
    BY <1>9
  <2> QED
    BY <1>1, <1>10, <1>11, <2>1
<1>13. 1 <= Len(B)
  BY <1>8, <1>9, <1>12
<1>14. r[Len(A) + 1] \in Normal
  BY <1>9, <1>11, <1>13
<1>15. ~(Len(A) < Len(C))
  <2> SUFFICES ASSUME Len(A) < Len(C) PROVE FALSE
    OBVIOUS
  <2>1. Len(A) + 1 \in 1 .. Len(C)
    BY <1>9
  <2> QED
    BY <1>10, <1>14, <2>1, TextsAreNormal
<1>16. Len(A) = Len(C)
  BY <1>9, <1>12, <1>15
<1> QED
  BY <1>9, <1>11, <1>13, <1>16

\* The new first child is the next sibling of the old one.
LEMMA FirstOnceGone ==
    ASSUME NEW t, Good(t), Ordered(t), NEW n \in Normal, t.parent[n] # NoNode,
           PreviousSibling(t, n) = NoNode,
           NEW m \in Normal, FirstChild(RemoveSubtree(t, n), t.parent[n]) = m
    PROVE  m = NextSibling(t, n)
<1> DEFINE u == RemoveSubtree(t, n)
           p == t.parent[n]
<1>1. n \in Node /\ m \in Node /\ p \in Node /\ m # NoNode
  BY TextsAreNormal, KidsAre, NoNodeIsNoNode
<1>2. Good(u)
  BY <1>1, RemoveSubtreeGood
<1>3. u.kids[p] = Unlink(t, n).kids[p]
  BY <1>1, RemoveSubtreeThinner, ParentOutside
<1> HIDE DEF u
<1>4. PICK A, B : /\ Around(t.kids[p], n, A, B) /\ Range(A) \subseteq Abnormal
                  /\ Unlink(t, n).kids[p] = Cat(A, B)
                  /\ 1 \in DOMAIN B => Beside(t, n, B[1])
  BY NoneBefore
<1>5. PICK C, D : Around(u.kids[p], m, C, D) /\ Range(C) \subseteq Abnormal
  BY <1>1, <1>2, FirstAround DEF u
<1> HIDE DEF p
<1>6. A \in Seqs /\ B \in Seqs /\ C \in Seqs /\ D \in Seqs /\ Cat(A, B) = Cat(C, Cat(One(m), D))
  BY <1>3, <1>4, <1>5 DEF Around
<1>7. 1 \in DOMAIN B => B[1] \in Normal
  BY <1>4, BesideNormal
<1>8. 1 \in DOMAIN B /\ B[1] = m
  BY <1>4, <1>5, <1>6, <1>7, LeadsBehind
<1>9. Beside(t, n, m)
  BY <1>4, <1>8
<1> QED
  BY <1>9, BesideSiblings

\* In w, which comes of u, m shows where n was, and the rest as in u.
TakesPlace(t, n, m, u, w) ==
    \E A, B : LET p == t.parent[n]
                  h == Mute(Share(t), m)
              IN /\ Around(t.kids[p], n, A, B)
                 /\ Content(w, p) = Cat(Joint(h, A), Cat(Segment(t, m), Joint(h, B)))
                 /\ \A q \in Node : q # p => Content(w, q) = Rest(u, m, q)

\* The parts of t around n, with m behind what the sibling before n shows.
LEMMA PutBehind ==
    ASSUME NEW t, Good(t), Once(t), NEW n \in Normal, NEW x \in Normal, Live(t, x), Beside(t, x, n),
           NEW m \in Normal, m # x, NEW p, p = t.parent[n]
    PROVE  \E A, B : LET h == Mute(Share(t), m)
                         N == Segment(t, m)
                     IN /\ Around(t.kids[p], n, A, B)
                        /\ PutAfter(Joint(Mute(h, n), t.kids[p]), Last(Segment(t, x)), N)
                              = Cat(Joint(h, A), Cat(N, Joint(h, B)))
<1> DEFINE h == Mute(Share(t), m)
           N == Segment(t, m)
           P == Segment(t, x)
           s == t.kids[p]
<1>1. n \in Node /\ m \in Node /\ x \in Node /\ p \in Node
  BY BesideListed, TextsAreNormal
<1>2. Share(t) \in Shares
  BY ShareIs
<1>3. h \in Shares /\ h[m] = Nil /\ \A z \in Node : z # m => h[z] = Share(t)[z]
  BY <1>1, <1>2, MuteIs
<1>4. N \in Seqs /\ P \in Seqs /\ Share(t)[x] = P
  BY <1>1, ShareIs
<1>5. P # Nil /\ IsInjective(P)
  BY SegmentShape
<1>6. s \in Seqs /\ IsInjective(s)
  BY <1>1, KidsAre
<1>7. NextTo(s, x, n)
  BY BesideListed
<1>8. \A z \in Node : z # x => h[z] \in {Nil, Share(t)[z]}
  BY <1>3
<1>9. h[x] = P
  BY <1>1, <1>3, <1>4
<1> HIDE DEF s
<1>10. PICK a, b : Pair(s, x, n, a, b)
  BY <1>6, <1>7, NextToPair
<1>11. /\ a \in Seqs /\ b \in Seqs /\ s = Cat(a, Cat(One(x), Cat(One(n), b))) /\ x # n
       /\ x \notin Range(a) /\ x \notin Range(b) /\ n \notin Range(a) /\ n \notin Range(b)
  BY <1>10 DEF Pair
<1>12. Apart(Joint(h, a), P) /\ Apart(Joint(h, b), P)
  BY <1>3, <1>8, <1>11, OthersApart DEF Once
<1> HIDE DEF h, N, P
<1>13. PICK A : A = Cat(a, One(x))
  OBVIOUS
<1>14. One(x) \in Seqs /\ One(n) \in Seqs /\ A \in Seqs /\ Range(A) = Range(a) \cup {x}
  <2>1. One(x) \in Seqs /\ One(n) \in Seqs
    BY <1>1, CatLaws
  <2>2. A \in Seqs
    BY <1>11, <1>13, <2>1, CatLaws
  <2>3. Range(A) = Range(a) \cup Range(One(x)) /\ Range(One(x)) = {x}
    BY <1>1, <1>11, <1>13, <2>1, CatMembers
  <2> QED
    BY <2>1, <2>2, <2>3
<1>15. Around(s, n, A, b)
  <2>1. PICK c : c = Cat(One(n), b)
    OBVIOUS
  <2>2. c \in Seqs
    BY <1>11, <1>14, <2>1, CatLaws
  <2>3. s = Cat(A, c)
    BY <1>11, <1>13, <1>14, <2>1, <2>2, CatAssociates
  <2>4. n \notin Range(A)
    BY <1>11, <1>14
  <2> QED
    BY <1>11, <1>14, <2>1, <2>3, <2>4 DEF Around
<1>16. PICK ja, jb : ja = Joint(h, a) /\ jb = Joint(h, b)
  OBVIOUS
<1>17. ja \in Seqs /\ jb \in Seqs
  BY <1>3, <1>11, <1>16, JointLaws
<1>18. Joint(h, A) = Cat(ja, P)
  <2>1. Joint(h, One(x)) = P
    BY <1>1, <1>3, <1>9, JointLaws
  <2>2. Joint(h, A) = Cat(Joint(h, a), Joint(h, One(x)))
    BY <1>3, <1>11, <1>13, <1>14, JointLaws
  <2> QED
    BY <1>16, <2>1, <2>2
<1>19. Joint(Mute(h, n), s) = Cat(Cat(ja, P), jb)
  BY <1>1, <1>3, <1>15, <1>16, <1>18, JointAround
<1>20. Joint(Mute(h, n), s) = Cat(ja, Cat(P, jb))
  BY <1>4, <1>17, <1>19, CatAssociates
<1>21. Apart(ja, P) /\ Apart(jb, P)
  BY <1>12, <1>16
<1>22. PutAfter(Joint(Mute(h, n), s), Last(P), N) = Cat(ja, Cat(P, Cat(N, jb)))
  BY <1>4, <1>5, <1>17, <1>20, <1>21, PutIs
<1>23. PICK d : d = Cat(N, jb)
  OBVIOUS
<1>24. d \in Seqs
  BY <1>4, <1>17, <1>23, CatLaws
<1>25. Cat(ja, Cat(P, d)) = Cat(Cat(ja, P), d)
  BY <1>4, <1>17, <1>24, CatAssociates
<1>26. PutAfter(Joint(Mute(h, n), s), Last(P), N) = Cat(Joint(h, A), Cat(N, Joint(h, b)))
  BY <1>16, <1>18, <1>22, <1>23, <1>25
<1> QED
  BY <1>15, <1>26 DEF h, N, P, s

\* A node that is inserted behind the sibling before n, in a tree u that shows
\* what t shows but for n, takes the place of n.
LEMMA PlacedBehind ==
    ASSUME NEW t, Good(t), Once(t), NEW n \in Normal, NEW x \in Normal, Live(t, x), Beside(t, x, n),
           NEW m \in Normal, m # x,
           NEW u, Good(u), Ordered(u), Once(u), Live(u, m), Live(u, x), u.parent[x] = t.parent[n],
           m \in Texts => Spaced(u) /\ NextSibling(u, x) # m,
           x \in {PreviousSibling(u, m), NextSibling(u, m)} =>
                ~({PreviousSibling(u, m), NextSibling(u, m)} \subseteq Texts),
           Live(LeaveNeighbours(u, m), x),
           Segment(u, m) = Segment(t, m), Segment(u, x) = Segment(t, x),
           Rest(u, m, t.parent[n]) = Joint(Mute(Mute(Share(t), m), n), t.kids[t.parent[n]]),
           InsertAfter(u, x, m).res = "ok"
    PROVE  TakesPlace(t, n, m, u, InsertAfter(u, x, m).tree)
<1> DEFINE p == t.parent[n]
           v == LeaveNeighbours(u, m)
           o == InsertAfter(u, x, m)
           w == o.tree
           N == Segment(t, m)
<1>1. n \in Node /\ m \in Node /\ x \in Node /\ p \in Node /\ p # NoNode
  BY BesideListed, TextsAreNormal, NoNodeIsNoNode
<1>2. u.parent[x] = p /\ Segment(u, m) = N /\ o.res = "ok"
  OBVIOUS
<1>3. Good(w) /\ Ordered(w)
  BY <1>1, InsertAfterMoves, InsertOrdered DEF Moved
<1>4. Segment(v, m) = Segment(u, m) /\ \A q \in Node : Rest(v, m, q) = Rest(u, m, q)
  BY Left
<1>5. Segment(v, x) = Segment(u, x) /\ v.parent[x] = u.parent[x]
  BY LeftBeside
<1>6. LandsAfter(v, m, x, w)
  BY <1>1, <1>2, <1>5, InsertLands
<1>7. \A q \in Node : Without(Content(u, q), Segment(u, m)) = Rest(u, m, q)
  BY ContentWithout
<1>8. Rest(u, m, p) = Joint(Mute(Mute(Share(t), m), n), t.kids[p])
  OBVIOUS
<1> HIDE DEF p, v, o, w, N
<1>9. /\ Content(w, p) = PutAfter(Rest(u, m, p), Last(Segment(u, x)), Segment(u, m))
      /\ \A q \in Node : q # p => Content(w, q) = Rest(u, m, q)
  BY <1>1, <1>2, <1>3, <1>4, <1>5, <1>6, <1>7, Landed
<1>10. PICK A, B : LET h == Mute(Share(t), m)
                   IN /\ Around(t.kids[p], n, A, B)
                      /\ PutAfter(Joint(Mute(h, n), t.kids[p]), Last(Segment(t, x)), N)
                            = Cat(Joint(h, A), Cat(N, Joint(h, B)))
  BY PutBehind DEF p, N
<1>11. Content(w, p) = Cat(Joint(Mute(Share(t), m), A), Cat(N, Joint(Mute(Share(t), m), B)))
  BY <1>2, <1>8, <1>9, <1>10
<1>12. TakesPlace(t, n, m, u, w)
  BY <1>9, <1>10, <1>11 DEF TakesPlace, p, N
<1> QED
  BY <1>12 DEF w, o

\* So does a node that is prepended when n was the first child.
LEMMA PlacedFirst ==
    ASSUME NEW t, Good(t), Ordered(t), NEW n \in Normal, t.parent[n] # NoNode,
           PreviousSibling(t, n) = NoNode, NEW m \in Normal,
           NEW u, Good(u), Ordered(u), Once(u), Live(u, m), Live(u, t.parent[n]),
           m \in Texts => Spaced(u) /\ FirstChild(u, t.parent[n]) # m,
           Segment(u, m) = Segment(t, m),
           Rest(u, m, t.parent[n]) = Joint(Mute(Mute(Share(t), m), n), t.kids[t.parent[n]]),
           PrependNode(u, t.parent[n], m).res = "ok"
    PROVE  TakesPlace(t, n, m, u, PrependNode(u, t.parent[n], m).tree)
<1> DEFINE p == t.parent[n]
           o == PrependNode(u, p, m)
           w == o.tree
           h == Mute(Share(t), m)
           N == Segment(t, m)
<1>1. n \in Node /\ m \in Node /\ p \in Node /\ p \in Container
  BY TextsAreNormal, KidsAre DEF Good, Forest, ParentsAreContainers
<1>2. Segment(u, m) = N /\ o.res = "ok" /\ Rest(u, m, p) = Joint(Mute(h, n), t.kids[p])
  OBVIOUS
<1>3. m \in Texts => Spaced(u) /\ FirstChild(u, p) # m
  OBVIOUS
<1>4. PICK A, B : Around(t.kids[p], n, A, B) /\ Range(A) \subseteq Abnormal
  BY NoneBefore
<1>5. Live(u, p)
  OBVIOUS
<1> HIDE DEF p
<1>6. Shown(w, p) = Cat(Segment(u, m), Rest(u, m, p))
  BY <1>1, <1>2, <1>3, PrependShows
<1>7. \A q \in Node : q # p => Shown(w, q) = Rest(u, m, q)
  BY <1>1, <1>2, <1>3, PrependShows
<1>8. Good(w) /\ Ordered(w)
  BY <1>1, <1>5, PrependNodeMoves, PrependNodeOrdered DEF Moved
<1> HIDE DEF o, w
<1>9. \A q \in Node : Content(w, q) = Shown(w, q)
  BY <1>8, ContentIs
<1>10. Share(t) \in Shares /\ N \in Seqs
  BY <1>1, ShareIs
<1>11. h \in Shares /\ h[m] = Nil /\ \A z \in Node : z # m => h[z] = Share(t)[z]
  BY <1>1, <1>10, MuteIs
<1>12. A \in Seqs /\ B \in Seqs
  BY <1>4 DEF Around
<1>13. \A z \in Range(A) : h[z] = Nil
  <2>1. \A z \in Abnormal : z \in Node /\ Share(t)[z] = Nil
    BY ShareIs
  <2> QED
    BY <1>4, <1>11, <2>1
<1> HIDE DEF h, N
<1>14. Joint(h, A) = Nil
  BY <1>11, <1>12, <1>13, JointNil
<1>15. PICK b : b = Joint(h, B)
  OBVIOUS
<1>16. b \in Seqs
  BY <1>11, <1>12, <1>15, JointLaws
<1>17. Joint(Mute(h, n), t.kids[p]) = Cat(Nil, b)
  BY <1>1, <1>4, <1>11, <1>14, <1>15, JointAround
<1>18. Cat(N, b) \in Seqs
  BY <1>10, <1>16, CatLaws
<1>19. Cat(Nil, b) = b /\ Cat(Nil, Cat(N, b)) = Cat(N, b)
  BY <1>16, <1>18, CatLaws
<1>20. Content(w, p) = Cat(Joint(h, A), Cat(N, Joint(h, B)))
  BY <1>1, <1>2, <1>6, <1>9, <1>14, <1>15, <1>17, <1>19
<1>21. TakesPlace(t, n, m, u, w)
  BY <1>4, <1>7, <1>9, <1>20 DEF TakesPlace, p, h, N
<1> QED
  BY <1>21 DEF w, o, p

\* Replacing behind a sibling puts m in the place of n.
LEMMA ReplacedAfter ==
    ASSUME NEW t, Good(t), Ordered(t), Once(t), Spaced(t),
           NEW n \in Normal, Live(t, n), NEW m \in Normal, Live(t, m), CarefulReplace(t, n, m),
           PreviousSibling(t, n) # NoNode,
           InsertAfter(RemoveSubtree(t, n), PreviousSibling(t, n), m).res = "ok"
    PROVE  LET u == RemoveSubtree(t, n)
           IN TakesPlace(t, n, m, u, InsertAfter(u, PreviousSibling(t, n), m).tree)
<1> DEFINE u    == RemoveSubtree(t, n)
           prev == PreviousSibling(t, n)
           p    == t.parent[n]
<1>1. /\ Good(u) /\ Ordered(u) /\ Once(u) /\ (m \in Texts => Spaced(u))
      /\ Live(u, m) /\ p \in Container \ Subtree(t, n) /\ m \notin Subtree(t, n)
      /\ Segment(u, m) = Segment(t, m)
      /\ \A q \in Subtree(t, n) : u.phase[q] = "removed"
  BY ReplaceStarts
<1>2. prev \in Normal /\ Live(u, prev) /\ Live(t, prev) /\ m # prev /\ Live(LeaveNeighbours(u, m), prev)
  BY ReplacedBehind
<1>3. u.parent[prev] = t.parent[n]
  BY ReplacedBehind
<1>4. m \in Texts => NextSibling(u, prev) # m
  BY ReplacedBehind
<1>5. prev \in {PreviousSibling(u, m), NextSibling(u, m)} =>
          ~({PreviousSibling(u, m), NextSibling(u, m)} \subseteq Texts)
  BY ReplacedBehind
<1>6. prev \in Node /\ p \in Node
  BY <1>1, <1>2, TextsAreNormal
<1>7. Beside(t, prev, n)
  BY SiblingsBeside
<1>8. prev \notin Subtree(t, n)
  BY <1>1, <1>2, <1>6 DEF Live
<1>9. Segment(u, prev) = Segment(t, prev)
  BY <1>1, <1>6, <1>8, RemovedRest
<1>10. Rest(u, m, p) = Joint(Mute(Mute(Share(t), m), n), t.kids[p])
  BY <1>1, <1>6, RemovedRest
<1> HIDE DEF u, prev
<1>11. InsertAfter(u, prev, m).res = "ok"
  BY DEF u, prev
<1>12. TakesPlace(t, n, m, u, InsertAfter(u, prev, m).tree)
  BY <1>1, <1>2, <1>3, <1>4, <1>5, <1>7, <1>9, <1>10, <1>11, PlacedBehind
<1> QED
  BY <1>12 DEF u, prev

\* Replacing a first child puts m in its place.
LEMMA ReplacedFirst ==
    ASSUME NEW t, Good(t), Ordered(t), Once(t), Spaced(t),
           NEW n \in Normal, Live(t, n), NEW m \in Normal, Live(t, m), CarefulReplace(t, n, m),
           PreviousSibling(t, n) = NoNode,
           PrependNode(RemoveSubtree(t, n), t.parent[n], m).res = "ok"
    PROVE  LET u == RemoveSubtree(t, n)
           IN TakesPlace(t, n, m, u, PrependNode(u, t.parent[n], m).tree)
<1> DEFINE u == RemoveSubtree(t, n)
           p == t.parent[n]
<1>1. /\ Good(u) /\ Ordered(u) /\ Once(u) /\ (m \in Texts => Spaced(u))
      /\ Live(u, m) /\ Live(u, p) /\ p \in Container \ Subtree(t, n) /\ m \notin Subtree(t, n)
      /\ Segment(u, m) = Segment(t, m)
  BY ReplaceStarts
<1>2. p \in Node /\ p # NoNode
  BY <1>1, TextsAreNormal, NoNodeIsNoNode
<1>3. m = NextSibling(t, n) => m \notin Texts
  BY DEF CarefulReplace
<1>4. FirstChild(u, p) = m => m = NextSibling(t, n)
  BY <1>2, FirstOnceGone
<1>5. m \in Texts => Spaced(u) /\ FirstChild(u, p) # m
  BY <1>1, <1>3, <1>4
<1>6. Rest(u, m, p) = Joint(Mute(Mute(Share(t), m), n), t.kids[p])
  BY <1>1, <1>2, RemovedRest
<1> HIDE DEF u
<1>7. PrependNode(u, p, m).res = "ok"
  BY DEF u
<1>8. TakesPlace(t, n, m, u, PrependNode(u, p, m).tree)
  BY <1>1, <1>2, <1>5, <1>6, <1>7, PlacedFirst
<1> QED
  BY <1>8 DEF u

\* What a careful replace does to the contents.
LEMMA Replaced ==
    ASSUME NEW t, Good(t), Ordered(t), Once(t), Spaced(t),
           NEW n \in Normal, Live(t, n), NEW m \in Normal, Live(t, m), CarefulReplace(t, n, m),
           Replace(t, n, m).res = "ok"
    PROVE  LET p   == t.parent[n]
               w   == Replace(t, n, m).tree
               in  == Segment(t, m)
               out == Segment(t, n)
           IN /\ Content(w, p) = Without(PutBefore(Without(Content(t, p), in), Head(out), in), out)
              /\ \A q \in Container \ (Subtree(t, n) \cup {p}) :
                    Content(w, q) = Without(Content(t, q), in)
              /\ \A q \in Subtree(t, n) : w.phase[q] = "removed"
<1> DEFINE p    == t.parent[n]
           prev == PreviousSibling(t, n)
           u    == RemoveSubtree(t, n)
           o    == Replace(t, n, m)
           w    == o.tree
           in   == Segment(t, m)
           out  == Segment(t, n)
           h    == Mute(Share(t), m)
<1>1. n \in Node /\ m \in Node
  BY TextsAreNormal
<1>2. /\ Good(u) /\ Live(u, m) /\ Live(u, p) /\ p \in Container /\ m # n
      /\ m \notin Subtree(t, n) /\ p \notin Subtree(t, n)
      /\ \A q \in Subtree(t, n) : u.phase[q] = "removed"
  BY ReplaceStarts
<1>3. n \notin Documents
  <2>1. n \in Documents => o = Err(t)
    BY <1>1, ReplaceCases
  <2>2. o.res = "ok"
    OBVIOUS
  <2> QED
    BY <2>1, <2>2 DEF Err
<1>4. o = IF prev # NoNode THEN InsertAfter(u, prev, m) ELSE PrependNode(u, p, m)
  BY <1>1, <1>3, ReplaceCases
<1>5. o.res = "ok"
  OBVIOUS
<1>6. p \in Node /\ Container \subseteq Node /\ p # NoNode
  BY <1>2, TextsAreNormal, NoNodeIsNoNode
<1> HIDE DEF o
<1>7. TakesPlace(t, n, m, u, w)
  <2>1. prev # NoNode => TakesPlace(t, n, m, u, InsertAfter(u, prev, m).tree)
    BY <1>4, <1>5, ReplacedAfter
  <2>2. prev = NoNode => TakesPlace(t, n, m, u, PrependNode(u, p, m).tree)
    BY <1>4, <1>5, ReplacedFirst
  <2> QED
    BY <1>4, <2>1, <2>2
<1>8. Moved(u, w)
  <2>1. prev # NoNode => prev \in Node
    BY SiblingsBeside, TextsAreNormal
  <2>2. prev # NoNode => Moved(u, InsertAfter(u, prev, m).tree)
    BY <1>1, <1>2, <2>1, InsertAfterMoves
  <2>3. Moved(u, PrependNode(u, p, m).tree)
    BY <1>1, <1>2, <1>6, PrependNodeMoves
  <2> QED
    BY <1>4, <2>2, <2>3
<1>9. \A q \in Node \ Subtree(t, n) : q # p => Rest(u, m, q) = Rest(t, m, q)
  BY <1>2, RemovedRest
<1>10. \A q \in Node : Without(Content(t, q), in) = Rest(t, m, q)
  BY ContentWithout
<1> HIDE DEF u, w, p, in, out
<1>11. PICK A, B : /\ Around(t.kids[p], n, A, B)
                   /\ Content(w, p) = Cat(Joint(h, A), Cat(in, Joint(h, B)))
                   /\ \A q \in Node : q # p => Content(w, q) = Rest(u, m, q)
  BY <1>7 DEF TakesPlace, p, in
<1>12. Without(PutBefore(Without(Content(t, p), in), Head(out), in), out)
          = Cat(Joint(h, A), Cat(in, Joint(h, B)))
  BY <1>2, <1>6, <1>11, ReplacedShape DEF p, in, out
<1>13. Content(w, p) = Without(PutBefore(Without(Content(t, p), in), Head(out), in), out)
  BY <1>11, <1>12
<1>14. \A q \in Container \ (Subtree(t, n) \cup {p}) : Content(w, q) = Without(Content(t, q), in)
  BY <1>6, <1>9, <1>10, <1>11
<1>15. \A q \in Subtree(t, n) : w.phase[q] = "removed"
  BY <1>2, <1>8 DEF Moved, Subtree
<1> QED
  BY <1>13, <1>14, <1>15 DEF w, p, in, out, o

-----------------------------------------------------------------------------
(* Wrapping a node. *)

\* The new element before it is put in place: it holds n, and the other nodes
\* show what they showed but for n.
LEMMA WrapStarts ==
    ASSUME NEW t, Good(t), Ordered(t), Once(t), NEW n \in Normal \ Documents, Live(t, n),
           NEW w \in Elements, t.phase[w] = "fresh"
    PROVE  LET z == Link(Unlink(NewNode(t, w), n), w, 0, n)
           IN /\ Once(z) /\ Live(z, w)
              /\ \A x \in Node : Segment(z, x) = Segment(t, x)
              /\ Share(z) = Share(t)
              /\ Shown(z, w) = Segment(t, n)
              /\ \A q \in Node : q # w => Shown(z, q) = Rest(t, n, q)
              /\ \A q \in Node : w \notin Range(t.kids[q]) /\ Rest(z, w, q) = Shown(z, q)
<1> DEFINE y  == NewNode(t, w)
           z0 == Unlink(y, n)
           z  == Link(z0, w, 0, n)
<1>1. n \in Node /\ w \in Node /\ w \notin Texts /\ n \in Normal
  BY TextsAreNormal DEF Container
<1>2. /\ Good(y) /\ y.parent = t.parent /\ y.kids = t.kids
      /\ y.phase = [t.phase EXCEPT ![w] = "live"]
  BY <1>1, NewNodeGood
<1>3. Once(y)
  BY <1>1, NewKeepsOnce
<1>4. \A x \in Texts : y.value[x] = t.value[x]
  BY <1>1, TextsAreNormal DEF NewNode, Good, Tree
<1>5. t.parent[w] = NoNode /\ t.kids[w] = <<>> /\ t.parent[n] # w
  <2>1. ~Live(t, w)
    BY DEF Live
  <2> QED
    BY <1>1, <2>1, Childless DEF Good, Forest, ParentsAreContainers
<1>6. t.phase \in [Node -> Phases]
  BY DEF Good, Tree
<1>7. Good(z) /\ z.parent[w] = NoNode
  BY WrapHolds
<1> HIDE DEF y
<1>8. Good(z0) /\ SameTexts(y, z0)
  BY <1>1, <1>2, UnlinkGood, LinksKeepTexts
<1>9. \A q \in Node : Shown(z0, q) = Rest(y, n, q)
  BY <1>1, <1>2, UnlinkShows
<1>10. z0.kids[w] = <<>>
  BY <1>1, <1>2, <1>5, UnlinkKids
<1> HIDE DEF z0
<1>11. SameTexts(z0, z)
  BY <1>1, <1>8, LinksKeepTexts
<1>12. Once(z)
  BY <1>3, <1>8, <1>11, SameConserves, ConservesOnce
<1>13. Live(z, w)
  BY <1>1, <1>2, <1>6, <1>8, <1>11 DEF SameTexts, Live
<1>14. \A x \in Texts : z0.value[x] = t.value[x] /\ z.value[x] = t.value[x]
  BY <1>4, <1>8, <1>11 DEF SameTexts
<1>15. \A x \in Node : /\ Segment(y, x) = Segment(t, x) /\ Segment(z0, x) = Segment(t, x)
                       /\ Segment(z, x) = Segment(t, x)
  BY <1>4, <1>14 DEF Segment
<1>16. Share(y) = Share(t) /\ Share(z0) = Share(t) /\ Share(z) = Share(t)
  BY <1>15 DEF Share
<1>17. \A q \in Node : Rest(y, n, q) = Rest(t, n, q)
  BY <1>2, <1>16 DEF Rest
<1>18. 0 \in 0 .. Len(z0.kids[w])
  BY <1>10
<1>19. \A q \in Node : q # w => Shown(z, q) = Shown(z0, q)
  BY <1>1, <1>8, <1>18, LinkShows
<1>20. Shown(z, w) = Segment(t, n)
  <2> DEFINE s == z0.kids[w]
             f == Share(z0)
  <2>1. Shown(z, w) = Cat(Joint(f, SubSeq(s, 1, 0)), Cat(f[n], Joint(f, SubSeq(s, 0 + 1, Len(s)))))
    BY <1>1, <1>8, <1>18, LinkShows
  <2>2. SubSeq(s, 1, 0) = Nil /\ SubSeq(s, 0 + 1, Len(s)) = Nil
    BY <1>10 DEF Nil
  <2>3. f \in Shares
    BY <1>8, ShareIs
  <2>4. Joint(f, Nil) = Nil
    BY <2>3, JointLaws
  <2>5. f[n] = Segment(t, n) /\ Segment(t, n) \in Seqs
    BY <1>1, <1>16, ShareIs
  <2> HIDE DEF f, s
  <2>6. Cat(Nil, Cat(Segment(t, n), Nil)) = Segment(t, n)
    BY <2>5, CatLaws
  <2> QED
    BY <2>1, <2>2, <2>4, <2>5, <2>6
<1>21. ASSUME NEW q \in Node
       PROVE  w \notin Range(t.kids[q]) /\ Rest(z, w, q) = Shown(z, q)
  <2>1. w \notin Range(t.kids[q])
    BY <1>1, <1>5, KidsAre, NoNodeIsNoNode
  <2>2. w \notin Range(z.kids[q]) /\ z.kids[q] \in Seqs
    BY <1>1, <1>7, KidsAre, NoNodeIsNoNode
  <2>3. Share(z) \in Shares
    BY <1>7, ShareIs
  <2> HIDE DEF z
  <2>4. Joint(Mute(Share(z), w), z.kids[q]) = Joint(Share(z), z.kids[q])
    BY <1>1, <2>2, <2>3, MuteIs
  <2> QED
    BY <2>1, <2>4 DEF Rest, Shown
<1> QED
  BY <1>9, <1>12, <1>13, <1>15, <1>16, <1>17, <1>19, <1>20, <1>21 DEF z, z0, y

\* The new element takes the place of the node it wraps.
LEMMA WrapPlaces ==
    ASSUME NEW t, Good(t), Ordered(t), Once(t), NEW n \in Normal \ Documents, Live(t, n),
           t.parent[n] # NoNode, NEW w \in Elements, t.phase[w] = "fresh",
           ElementWrap(t, n, w).res = "ok"
    PROVE  LET z == Link(Unlink(NewNode(t, w), n), w, 0, n)
           IN TakesPlace(t, n, w, z, ElementWrap(t, n, w).tree)
<1> DEFINE p    == t.parent[n]
           prev == PreviousSibling(t, n)
           z    == Link(Unlink(NewNode(t, w), n), w, 0, n)
           o    == ElementWrap(t, n, w)
<1>1. n \in Node /\ w \in Node /\ w \notin Texts /\ w \in Normal /\ n \in Normal
  <2>1. w \in Normal
    BY DEF Normal
  <2> QED
    BY <2>1, TextsAreNormal DEF Container
<1>2. p \in Node /\ p # NoNode /\ Live(t, p) /\ p # n
  <2>1. p \in Node /\ p # NoNode /\ Live(t, p)
    BY <1>1, KidsAre DEF Good, Forest, ParentsAreContainers
  <2>2. p \notin Subtree(t, n)
    BY <1>1, ParentOutside
  <2> QED
    BY <1>1, <2>1, <2>2 DEF Subtree, AncestorsOrSelf
<1>3. AppendNode(Unlink(NewNode(t, w), n), w, n) = Ok(z)
  BY WrapHolds
<1>4. Good(z) /\ Ordered(z) /\ z.parent[w] = NoNode
  BY WrapHolds
<1>5. \A x \in Node : Live(t, x) => Live(z, x)
  BY WrapHolds
<1>6. \A x \in Node \ {n} : z.parent[x] = t.parent[x]
  BY WrapHolds
<1>7. Once(z) /\ Live(z, w)
  BY WrapStarts
<1>8. \A x \in Node : Segment(z, x) = Segment(t, x)
  BY WrapStarts
<1>9. Rest(z, w, p) = Joint(Mute(Mute(Share(t), w), n), t.kids[p])
  <2>1. Rest(z, w, p) = Shown(z, p) /\ w \notin Range(t.kids[p])
    BY <1>2, WrapStarts
  <2>2. p # w
    BY <1>2 DEF Live
  <2>3. Shown(z, p) = Rest(t, n, p)
    BY <1>2, <2>2, WrapStarts
  <2>4. Share(t) \in Shares /\ t.kids[p] \in Seqs
    BY <1>2, ShareIs, KidsAre
  <2>5. Mute(Share(t), n) \in Shares /\ Mute(Share(t), w) \in Shares
    BY <1>1, <2>4, MuteIs
  <2>6. \A x \in Range(t.kids[p]) : x \in Node /\ x # w
    BY <2>1, <2>4, CatMembers
  <2>7. \A x \in Range(t.kids[p]) : Mute(Mute(Share(t), w), n)[x] = Mute(Share(t), n)[x]
    <3> SUFFICES ASSUME NEW x \in Range(t.kids[p])
                 PROVE  Mute(Mute(Share(t), w), n)[x] = Mute(Share(t), n)[x]
      OBVIOUS
    <3>1. x \in Node /\ x # w
      BY <2>6
    <3>2. CASE x = n
      BY <1>1, <2>4, <2>5, <3>2, MuteIs
    <3>3. CASE x # n
      <4>1. Mute(Mute(Share(t), w), n)[x] = Mute(Share(t), w)[x]
        BY <1>1, <2>5, <3>1, <3>3, MuteIs
      <4>2. Mute(Share(t), w)[x] = Share(t)[x] /\ Mute(Share(t), n)[x] = Share(t)[x]
        BY <1>1, <2>4, <3>1, <3>3, MuteIs
      <4> QED
        BY <4>1, <4>2
    <3> QED
      BY <3>2, <3>3
  <2>8. Mute(Mute(Share(t), w), n) \in Shares
    BY <1>1, <2>5, MuteIs
  <2>9. Joint(Mute(Mute(Share(t), w), n), t.kids[p]) = Joint(Mute(Share(t), n), t.kids[p])
    <3> HIDE DEF Mute
    <3> QED
      BY <2>4, <2>5, <2>7, <2>8, JointSame DEF Seqs
  <2> QED
    BY <2>1, <2>3, <2>9 DEF Rest
<1>10. PreviousSibling(z, w) = NoNode /\ NextSibling(z, w) = NoNode /\ LeaveNeighbours(z, w) = z
  BY <1>1, <1>4, LooseLeaves
<1>11. n \notin Documents /\ ~(p \in Documents /\ n \notin Elements)
  <2>1. o.res = "ok"
    OBVIOUS
  <2>2. n \in Documents \/ (p \in Documents /\ n \notin Elements) => o = Err(t)
    BY DEF ElementWrap
  <2> QED
    BY <2>1, <2>2 DEF Err
<1>12. o = IF prev # NoNode THEN InsertAfter(z, prev, w) ELSE PrependNode(z, p, w)
  BY <1>2, <1>3, <1>11 DEF ElementWrap, Ok
<1>13. o.res = "ok" /\ Segment(z, w) = Segment(t, w)
  BY <1>1, <1>8
<1> HIDE DEF z, o, prev
<1>14. CASE prev # NoNode
  <2>1. prev \in Normal /\ Beside(t, prev, n)
    BY <1>1, <1>14, SiblingsBeside DEF prev
  <2>2. prev \in Node /\ prev # n /\ Live(t, prev) /\ t.parent[prev] = p /\ prev # NoNode
    BY <2>1, <1>14, BesideListed
  <2>3. Live(z, prev) /\ z.parent[prev] = p /\ w # prev
    BY <1>5, <1>6, <2>2 DEF Live
  <2>4. Live(LeaveNeighbours(z, w), prev)
    BY <1>10, <2>3
  <2>5. ~(prev \in {PreviousSibling(z, w), NextSibling(z, w)})
    BY <1>10, <2>2
  <2>6. Segment(z, prev) = Segment(t, prev)
    BY <1>8, <2>2
  <2>7. InsertAfter(z, prev, w).res = "ok" /\ o = InsertAfter(z, prev, w)
    BY <1>12, <1>13, <1>14
  <2>8. TakesPlace(t, n, w, z, InsertAfter(z, prev, w).tree)
    BY <1>1, <1>4, <1>7, <1>9, <1>13, <2>1, <2>2, <2>3, <2>4, <2>5, <2>6, <2>7, PlacedBehind
  <2> QED
    BY <2>7, <2>8 DEF z, o
<1>15. CASE prev = NoNode
  <2>1. PrependNode(z, p, w).res = "ok" /\ o = PrependNode(z, p, w)
    BY <1>12, <1>13, <1>15
  <2>2. Live(z, p) /\ PreviousSibling(t, n) = NoNode
    BY <1>2, <1>5, <1>15 DEF prev
  <2>3. TakesPlace(t, n, w, z, PrependNode(z, p, w).tree)
    BY <1>1, <1>2, <1>4, <1>7, <1>9, <1>13, <2>1, <2>2, PlacedFirst
  <2> QED
    BY <2>1, <2>3 DEF z, o
<1> QED
  BY <1>14, <1>15

\* What wrapping a node does to the contents.
LEMMA Wrapped ==
    ASSUME NEW t, Good(t), Ordered(t), Once(t), NEW n \in Normal, Live(t, n),
           t.parent[n] # NoNode, NEW w \in Elements, t.phase[w] = "fresh",
           ElementWrap(t, n, w).res = "ok"
    PROVE  LET p   == t.parent[n]
               u   == ElementWrap(t, n, w).tree
               seg == Segment(t, n)
           IN /\ Content(u, w) = seg
              /\ Content(u, p) = Without(PutBefore(Content(t, p), Head(seg), One(w)), seg)
              /\ \A q \in Container \ {p, w} : Content(u, q) = Content(t, q)
<1> DEFINE p   == t.parent[n]
           z   == Link(Unlink(NewNode(t, w), n), w, 0, n)
           o   == ElementWrap(t, n, w)
           u   == o.tree
           h   == Mute(Share(t), w)
           seg == Segment(t, n)
<1>1. n \notin Documents
  <2>1. o.res = "ok"
    OBVIOUS
  <2>2. n \in Documents => o = Err(t)
    BY DEF ElementWrap
  <2> QED
    BY <2>1, <2>2 DEF Err
<1>2. w \in Normal /\ w \in Node /\ w \notin Texts /\ w # n /\ n \in Node
  <2>1. w \in Normal
    BY DEF Normal
  <2> QED
    BY <2>1, TextsAreNormal DEF Container, Live
<1>3. p \in Node /\ p # w /\ Container \subseteq Node
  BY <1>2, KidsAre, TextsAreNormal DEF Good, Forest, ParentsAreContainers, Live
<1>4. TakesPlace(t, n, w, z, u)
  BY <1>1, WrapPlaces
<1>5. Shown(z, w) = seg
  BY <1>1, WrapStarts
<1>6. \A q \in Node : q # w => Shown(z, q) = Rest(t, n, q)
  BY <1>1, WrapStarts
<1>7. \A q \in Node : w \notin Range(t.kids[q]) /\ Rest(z, w, q) = Shown(z, q)
  BY <1>1, WrapStarts
<1>8. Segment(t, w) = One(w)
  BY <1>2, ShareIs
<1>9. \A q \in Node : Content(t, q) = Shown(t, q)
  BY ContentIs
<1>10. Share(t) \in Shares /\ \A q \in Node : t.kids[q] \in Seqs
  BY ShareIs, KidsAre
<1>11. Without(Content(t, p), One(w)) = Content(t, p)
  <2>1. Without(Content(t, p), Segment(t, w)) = Rest(t, w, p)
    BY <1>2, <1>3, ContentWithout
  <2>2. Rest(t, w, p) = Shown(t, p)
    BY <1>2, <1>3, <1>7, <1>10, MuteIs DEF Rest, Shown
  <2> QED
    BY <1>3, <1>8, <1>9, <2>1, <2>2
<1>12. PICK A, B : /\ Around(t.kids[p], n, A, B)
                   /\ Content(u, p) = Cat(Joint(h, A), Cat(Segment(t, w), Joint(h, B)))
                   /\ \A q \in Node : q # p => Content(u, q) = Rest(z, w, q)
  BY <1>4 DEF TakesPlace
<1>13. Without(PutBefore(Without(Content(t, p), Segment(t, w)), Head(seg), Segment(t, w)), seg)
          = Cat(Joint(h, A), Cat(Segment(t, w), Joint(h, B)))
  BY <1>2, <1>3, <1>12, ReplacedShape
<1> HIDE DEF z, o, u, h, seg
<1>14. Content(u, p) = Without(PutBefore(Content(t, p), Head(seg), One(w)), seg)
  BY <1>8, <1>11, <1>12, <1>13
<1>15. Content(u, w) = seg
  BY <1>2, <1>3, <1>5, <1>7, <1>12
<1>16. ASSUME NEW q \in Container \ {p, w} PROVE Content(u, q) = Content(t, q)
  <2>1. q \in Node /\ q # p /\ q # w
    BY <1>3
  <2>2. Content(u, q) = Rest(t, n, q)
    BY <1>6, <1>7, <1>12, <2>1
  <2>3. n \notin Range(t.kids[q])
    BY <1>2, <2>1, KidsAre
  <2>4. Rest(t, n, q) = Shown(t, q)
    BY <1>2, <1>10, <2>1, <2>3, MuteIs DEF Rest, Shown
  <2> QED
    BY <1>9, <2>1, <2>2, <2>4
<1> QED
  BY <1>14, <1>15, <1>16 DEF u, o, seg

-----------------------------------------------------------------------------
(* Unwrapping an element. *)

\* Merging neighbours changes nothing that is shown.
LEMMA MergeShows ==
    ASSUME NEW d, Good(d), NEW x, NEW y, x \in Texts /\ y \in Texts => Beside(d, x, y), NEW q \in Node
    PROVE  Shown(RemoveConsolidate(d, x, y).tree, q) = Shown(d, q)
<1>1. CASE ~(d.consolidate /\ x \in Texts /\ y \in Texts)
  <2>1. RemoveConsolidate(d, x, y).tree = d
    BY <1>1 DEF RemoveConsolidate
  <2> QED
    BY <2>1
<1>2. CASE d.consolidate /\ x \in Texts /\ y \in Texts
  <2>1. PICK v : v = Cat(d.value[x], d.value[y])
    OBVIOUS
  <2>2. RemoveConsolidate(d, x, y).tree = Absorb(d, x, v, y)
    BY <1>2, <2>1 DEF RemoveConsolidate, Cat
  <2>3. x # y /\ Beside(d, x, y)
    BY <1>2, BesideListed
  <2> QED
    BY <1>2, <2>1, <2>2, <2>3, JoinShows
<1> QED
  BY <1>1, <1>2

\* A text that was merged into the one before it may be between that one and
\* the next.
LEMMA MergeAcross ==
    ASSUME NEW d, Good(d), NEW x \in Texts, NEW n \in Texts, Beside(d, x, n),
           NEW y, y \in Texts => Beside(d, n, y),
           NEW v \in Seqs, NEW q \in Node
    PROVE  LET a == Absorb(d, x, v, n)
           IN Shown(RemoveConsolidate(a, x, y).tree, q) = Shown(a, q)
<1> DEFINE a == Absorb(d, x, v, n)
           b == RemoveConsolidate(a, x, y).tree
<1>1. CASE ~(a.consolidate /\ y \in Texts)
  <2>1. b = a
    BY <1>1 DEF RemoveConsolidate
  <2> QED
    BY <2>1
<1>2. CASE a.consolidate /\ y \in Texts
  <2>1. PICK s : s = Cat(a.value[x], a.value[y])
    OBVIOUS
  <2>2. b = Absorb(a, x, s, y)
    BY <1>2, <2>1 DEF RemoveConsolidate, Cat
  <2>3. Beside(d, n, y)
    BY <1>2
  <2>4. x # n /\ n # y /\ x # y
    BY <2>3, BesideListed, BesideUnique
  <2>5. x \in Node /\ n \in Node /\ y \in Node
    BY <1>2, TextsAreNormal
  <2>6. Good(a) /\ Share(a) \in Shares /\ Share(a)[n] = Nil
    BY <2>4, AbsorbShares
  <2>7. \A h \in Shares : h[n] = Nil => Joint(h, a.kids[q]) = Joint(h, d.kids[q])
    BY <2>4, AbsorbShares
  <2> HIDE DEF a, b
  <2>8. Share(a)[x] = a.value[x] /\ Share(a)[y] = a.value[y] /\ s \in Seqs
    BY <1>2, <2>1, <2>5, <2>6, ShareIs, CatLaws
  <2>9. y \in Texts
    BY <1>2
  <2>10. x # y
    BY <2>4
  <2>11. s \in Seqs
    BY <2>8
  <2>12. Good(a)
    BY <2>6
  <2>13. Share(b) \in Shares /\ Share(b)[x] = s /\ Share(b)[y] = Nil
    BY <2>2, <2>9, <2>10, <2>11, <2>12, AbsorbShares
  <2>14. \A z \in Node : z # x /\ z # y => Share(b)[z] = Share(a)[z]
    BY <2>2, <2>9, <2>10, <2>11, <2>12, AbsorbShares
  <2>15. \A h \in Shares : h[y] = Nil => Joint(h, b.kids[q]) = Joint(h, a.kids[q])
    BY <2>2, <2>9, <2>10, <2>11, <2>12, AbsorbShares
  <2>16. Joins(Share(a), Share(b), x, y)
    BY <2>1, <2>6, <2>8, <2>13, <2>14 DEF Joins
  <2>17. Share(b)[n] = Nil
    BY <2>4, <2>5, <2>6, <2>14
  <2>18. Joint(Share(b), d.kids[q]) = Joint(Share(a), d.kids[q])
    BY <2>3, <2>5, <2>6, <2>16, <2>17, JoinedHere
  <2>19. Joint(Share(b), b.kids[q]) = Joint(Share(a), a.kids[q])
    BY <2>6, <2>7, <2>13, <2>15, <2>17, <2>18
  <2> QED
    BY <2>19 DEF Shown, a, b
<1> QED
  BY <1>1, <1>2

\* The two merges of element_unwrap change nothing that is shown.
LEMMA TwoMergesShow ==
    ASSUME NEW d, Good(d), NEW first \in Normal, NEW last \in Normal, NEW q \in Node
    PROVE  LET prev == PreviousSibling(d, first)
               next == NextSibling(d, last)
               a    == RemoveConsolidate(d, prev, first)
               b    == IF a.merged /\ first = last
                       THEN RemoveConsolidate(a.tree, prev, next)
                       ELSE RemoveConsolidate(a.tree, last, NextSibling(a.tree, last))
           IN Shown(b.tree, q) = Shown(d, q)
<1> DEFINE prev == PreviousSibling(d, first)
           next == NextSibling(d, last)
           a    == RemoveConsolidate(d, prev, first)
           far  == NextSibling(a.tree, last)
           b    == IF a.merged /\ first = last THEN RemoveConsolidate(a.tree, prev, next)
                   ELSE RemoveConsolidate(a.tree, last, far)
<1>1. Good(a.tree)
  BY RemoveConsolidateFrees DEF SameBut
<1>2. prev # NoNode => Beside(d, prev, first)
  BY SiblingsBeside
<1>3. next # NoNode => Beside(d, last, next)
  BY SiblingsBeside
<1>4. Shown(a.tree, q) = Shown(d, q)
  <2>1. prev \in Texts /\ first \in Texts => Beside(d, prev, first)
    BY <1>2, TextsAreNormal
  <2> HIDE DEF prev
  <2> QED
    BY <2>1, MergeShows
<1>5. CASE a.merged /\ first = last
  <2>1. PICK v : v = Cat(d.value[prev], d.value[first])
    OBVIOUS
  <2>2. prev \in Texts /\ first \in Texts /\ a.tree = Absorb(d, prev, v, first)
    BY <1>5, <2>1 DEF RemoveConsolidate, Cat
  <2>3. v \in Seqs
    BY <2>1, <2>2, ShareIs, CatLaws
  <2>4. Beside(d, prev, first) /\ (next \in Texts => Beside(d, first, next))
    BY <1>2, <1>3, <1>5, <2>2, TextsAreNormal
  <2>5. b = RemoveConsolidate(a.tree, prev, next)
    BY <1>5
  <2> HIDE DEF prev, next, a, b
  <2>6. Shown(RemoveConsolidate(a.tree, prev, next).tree, q) = Shown(a.tree, q)
    BY <2>2, <2>3, <2>4, MergeAcross
  <2> QED
    BY <1>4, <2>5, <2>6 DEF b, a, prev, next
<1>6. CASE ~(a.merged /\ first = last)
  <2>1. b = RemoveConsolidate(a.tree, last, far)
    BY <1>6
  <2>2. far # NoNode => Beside(a.tree, last, far)
    BY <1>1, SiblingsBeside
  <2>3. last \in Texts /\ far \in Texts => Beside(a.tree, last, far)
    BY <2>2, TextsAreNormal
  <2> HIDE DEF a, far, b
  <2>4. Shown(RemoveConsolidate(a.tree, last, far).tree, q) = Shown(a.tree, q)
    BY <1>1, <2>3, MergeShows
  <2> QED
    BY <1>4, <2>1, <2>4 DEF b, a, far
<1> QED
  BY <1>5, <1>6

\* The content of the parent with that of n in the place of n.
LEMMA UnwrapShape ==
    ASSUME NEW t, Good(t), Ordered(t), Once(t), NEW n \in Normal \ Texts, Live(t, n),
           t.parent[n] \in Node, NEW A, NEW B, Around(t.kids[t.parent[n]], n, A, B)
    PROVE  LET p == t.parent[n]
               f == Share(t)
           IN /\ Joint(f, A) \in Seqs /\ Joint(f, B) \in Seqs /\ Shown(t, n) \in Seqs
              /\ Rest(t, n, p) = Cat(Joint(f, A), Joint(f, B))
              /\ Without(PutAfter(Content(t, p), n, Content(t, n)), One(n))
                    = Cat(Joint(f, A), Cat(Shown(t, n), Joint(f, B)))
<1> DEFINE p == t.parent[n]
           f == Share(t)
           R == One(n)
           ja == Joint(f, A)
           jb == Joint(f, B)
           k  == Shown(t, n)
<1>1. n \in Node /\ p \in Node
  BY TextsAreNormal
<1>2. /\ A \in Seqs /\ B \in Seqs /\ n \notin Range(A) /\ n \notin Range(B)
      /\ Around(t.kids[p], n, A, B)
  BY DEF Around
<1>3. f \in Shares /\ f[n] = R /\ Segment(t, n) = R
  BY ShareIs
<1>4. t.kids[n] \in Seqs /\ n \notin Range(t.kids[n])
  <2>1. n \in Range(t.kids[n]) => t.parent[n] = n
    BY <1>1, KidsAre
  <2>2. t.parent[n] # NoNode => t.parent[n] \notin Subtree(t, n)
    BY <1>1, ParentOutside
  <2>3. n \in Subtree(t, n)
    BY <1>1 DEF Subtree, AncestorsOrSelf
  <2> QED
    BY <1>1, <2>1, <2>2, <2>3, KidsAre, NoNodeIsNoNode
<1>5. Content(t, p) = Shown(t, p) /\ Content(t, n) = k
  BY <1>1, ContentIs
<1>6. \A z \in Node : z # n => f[z] \in {Nil, Share(t)[z]}
  OBVIOUS
<1>7. k = Joint(f, t.kids[n])
  BY DEF Shown
<1>8. Shown(t, p) = Joint(f, t.kids[p])
  BY DEF Shown
<1>9. Rest(t, n, p) = Joint(Mute(f, n), t.kids[p])
  BY DEF Rest
<1>10. R \in Seqs /\ R # Nil /\ IsInjective(R) /\ Last(R) = n
  <2>1. R \in Seqs
    BY <1>1, CatLaws
  <2> QED
    BY <2>1 DEF One, Nil, IsInjective, Last
<1>11. Apart(ja, R) /\ Apart(jb, R) /\ Apart(k, R)
  <2>1. HeldOnce(t) /\ Written(t)
    BY DEF Once
  <2> HIDE DEF f, k, R
  <2>2. Apart(Joint(f, A), Segment(t, n)) /\ Apart(Joint(f, B), Segment(t, n))
    BY <1>2, <1>3, <1>6, <2>1, OthersApart
  <2>3. Apart(Joint(f, t.kids[n]), Segment(t, n))
    BY <1>3, <1>4, <1>6, <2>1, OthersApart
  <2> QED
    BY <1>3, <1>7, <2>2, <2>3
<1>12. ja \in Seqs /\ jb \in Seqs /\ k \in Seqs
  <2> HIDE DEF f, k
  <2> QED
    BY <1>2, <1>3, <1>4, <1>7, JointLaws
<1> HIDE DEF f, R, k
<1>13. Shown(t, p) = Cat(ja, Cat(R, jb)) /\ Rest(t, n, p) = Cat(ja, jb)
  BY <1>1, <1>2, <1>3, <1>8, <1>9, JointAround
<1> HIDE DEF ja, jb
<1>14. PutAfter(Content(t, p), Last(R), k) = Cat(ja, Cat(R, Cat(k, jb)))
  BY <1>5, <1>10, <1>11, <1>12, <1>13, PutIs
<1>15. PICK b : b = Cat(k, jb)
  OBVIOUS
<1>16. b \in Seqs /\ Apart(b, R)
  <2>1. b \in Seqs
    BY <1>12, <1>15, CatLaws
  <2>2. Range(b) = Range(k) \cup Range(jb)
    BY <1>12, <1>15, CatMembers
  <2> QED
    BY <1>11, <2>1, <2>2 DEF Apart
<1>17. Without(Cat(ja, Cat(R, b)), R) = Cat(ja, b)
  BY <1>10, <1>11, <1>12, <1>16, CutMiddle
<1>18. Without(PutAfter(Content(t, p), n, Content(t, n)), R) = Cat(ja, Cat(k, jb))
  BY <1>5, <1>10, <1>14, <1>15, <1>17
<1> QED
  BY <1>12, <1>13, <1>18 DEF ja, jb, k, R, f

\* An element without normal children is taken out with its entries.
LEMMA BareUnwrapped ==
    ASSUME NEW t, Good(t), NEW n \in Elements, t.parent[n] \in Node, FirstChild(t, n) = NoNode
    PROVE  LET u == RemoveNode(t, n).tree
           IN /\ Shown(t, n) = Nil
              /\ Shown(u, t.parent[n]) = Rest(t, n, t.parent[n])
              /\ \A q \in Container \ {n} : q # t.parent[n] => Shown(u, q) = Shown(t, q)
<1> DEFINE u == RemoveNode(t, n).tree
           p == t.parent[n]
<1>1. n \in Normal /\ n \in Node /\ p # NoNode
  <2>1. n \in Normal
    BY DEF Normal
  <2> QED
    BY <2>1, TextsAreNormal, NoNodeIsNoNode
<1>2. Range(t.kids[n]) \subseteq Abnormal /\ t.kids[n] \in Seqs
  BY <1>1, BareSubtree, KidsAre
<1>3. Share(t) \in Shares
  BY ShareIs
<1>4. Shown(t, n) = Nil
  <2>1. \A x \in Range(t.kids[n]) : Share(t)[x] = Nil
    BY <1>2, ShareIs
  <2> QED
    BY <1>2, <1>3, <2>1, JointNil DEF Shown
<1>5. \A q \in Node \ Subtree(t, n) : Shown(u, q) = Rest(t, n, q)
  BY <1>1, RemoveShows
<1>6. p \in Node \ Subtree(t, n)
  BY <1>1, ParentOutside
<1> HIDE DEF u
<1>7. ASSUME NEW q \in Container \ {n}, q # p PROVE Shown(u, q) = Shown(t, q)
  <2>1. q \in Node
    BY TextsAreNormal
  <2>2. q \notin Subtree(t, n)
    BY BareSubtree
  <2>3. n \notin Range(t.kids[q]) /\ t.kids[q] \in Seqs
    BY <1>1, <1>7, <2>1, KidsAre
  <2>4. Rest(t, n, q) = Shown(t, q)
    BY <1>1, <1>3, <2>3, MuteIs DEF Rest, Shown
  <2> QED
    BY <1>5, <2>1, <2>2, <2>4
<1> QED
  BY <1>4, <1>5, <1>6, <1>7 DEF u

\* The element before it dissolves: its entries are freed.
LEMMA EntriesFreedShow ==
    ASSUME NEW t, Good(t), Ordered(t), NEW n \in Elements
    PROVE  LET f == FreeRun(t, n, 0, Leading(t.kids[n], Abnormal))
           IN /\ Share(f) = Share(t)
              /\ \A q \in Node : q # n => f.kids[q] = t.kids[q]
              /\ Joint(Share(t), f.kids[n]) = Shown(t, n)
              /\ f.parent[n] = t.parent[n]
<1> DEFINE s == t.kids[n]
           h == Leading(s, Abnormal)
           f == FreeRun(t, n, 0, h)
<1>1. n \in Normal /\ n \in Node /\ n \notin Abnormal
  <2>1. n \in Normal
    BY DEF Normal
  <2> QED
    BY <2>1, TextsAreNormal
<1>2. s \in Seqs /\ s \in Seq(Node)
  BY <1>1, KidsAre DEF Seqs
<1>3. h \in 0 .. Len(s) /\ \A i \in 1 .. h : s[i] \in Abnormal
  BY <1>2, LeadingPrefix
<1>4. Len(s) \in Nat /\ h \in Nat
  BY <1>2, <1>3
<1>5. \A q \in Node : f.kids[q] = IF q = n THEN Splice(s, 0, h, <<>>) ELSE t.kids[q]
  <2>1. 0 \in 0 .. Len(t.kids[n]) /\ h \in 0 .. Len(t.kids[n])
    BY <1>3, <1>4
  <2> HIDE DEF h
  <2> QED
    BY <1>1, <2>1, FreeRunThinner
<1>6. \A x \in Node : x \notin Abnormal => f.value[x] = t.value[x] /\ f.parent[x] = t.parent[x]
  <2> DEFINE G == {s[k] : k \in 0 + 1 .. h}
  <2>1. G \subseteq Abnormal
    BY <1>3
  <2>2. /\ f.value = [m \in Node |-> IF m \in G THEN <<>> ELSE t.value[m]]
        /\ f.parent = [m \in Node |-> IF m \in G THEN NoNode ELSE t.parent[m]]
    BY DEF FreeRun, Good, Tree
  <2> HIDE DEF f, G
  <2> QED
    BY <2>1, <2>2
<1>7. Share(f) = Share(t)
  <2>1. \A x \in Node : (IF x \in Abnormal THEN Nil ELSE Segment(f, x))
                          = IF x \in Abnormal THEN Nil ELSE Segment(t, x)
    BY <1>6 DEF Segment
  <2> HIDE DEF f
  <2> QED
    BY <2>1 DEF Share
<1> HIDE DEF f, s, h
<1>8. PICK a, c : a = SubSeq(s, 1, h) /\ c = SubSeq(s, h + 1, Len(s))
  OBVIOUS
<1>9. /\ a \in Seqs /\ c \in Seqs /\ s = Cat(a, c) /\ Range(a) = {s[k] : k \in 1 .. h}
  BY <1>2, <1>3, <1>8, Split
<1>10. Splice(s, 0, h, <<>>) = c
  <2>1. SubSeq(s, 1, 0) = Nil
    BY <1>2 DEF Nil
  <2>2. Splice(s, 0, h, <<>>) = Cat(Cat(Nil, Nil), c)
    BY <1>8, <2>1 DEF Splice, Cat, Nil
  <2>3. Cat(Cat(Nil, Nil), c) = c
    BY <1>9, CatLaws
  <2> QED
    BY <2>2, <2>3
<1>11. Share(t) \in Shares
  BY ShareIs
<1>12. Joint(Share(t), s) = Joint(Share(t), c)
  <2>1. \A x \in Range(a) : Share(t)[x] = Nil
    BY <1>3, <1>9, ShareIs
  <2>2. Joint(Share(t), a) = Nil
    BY <1>9, <1>11, <2>1, JointNil
  <2>3. Joint(Share(t), s) = Cat(Joint(Share(t), a), Joint(Share(t), c)) /\ Joint(Share(t), c) \in Seqs
    BY <1>9, <1>11, JointLaws
  <2> QED
    BY <2>2, <2>3, CatLaws
<1>13. Joint(Share(t), f.kids[n]) = Shown(t, n)
  BY <1>1, <1>5, <1>10, <1>12 DEF Shown, s
<1>14. \A q \in Node : q # n => f.kids[q] = t.kids[q]
  BY <1>5
<1>15. f.parent[n] = t.parent[n]
  BY <1>1, <1>6
<1> QED
  BY <1>7, <1>13, <1>14, <1>15 DEF f, s, h

\* Its children take its place.
LEMMA DissolveShows ==
    ASSUME NEW f, Good(f), NEW n \in Elements, f.parent[n] \in Node, Dissolve(f, n).res = "ok"
    PROVE  LET d == Dissolve(f, n).tree
               p == f.parent[n]
               e == Share(f)
           IN /\ \E A, B :
                   /\ Around(f.kids[p], n, A, B)
                   /\ Shown(d, p) = Cat(Joint(e, A), Cat(Joint(e, f.kids[n]), Joint(e, B)))
              /\ \A q \in Node : q # n /\ q # p => Shown(d, q) = Shown(f, q)
<1> DEFINE d == Dissolve(f, n).tree
           p == f.parent[n]
           i == Position(f, n)
           s == f.kids[p]
           k == f.kids[n]
           e == Share(f)
<1>1. n \in Node /\ n \notin Texts /\ p \in Node /\ p # NoNode
  BY TextsAreNormal, NoNodeIsNoNode DEF Container
<1>2. p # n
  <2>1. p \notin Subtree(f, n)
    BY <1>1, ParentOutside
  <2> QED
    BY <1>1, <2>1 DEF Subtree, AncestorsOrSelf
<1>3. \A q \in Node : d.kids[q] = IF q = n THEN <<>>
                                  ELSE IF q = p THEN Splice(f.kids[q], i - 1, i, k)
                                  ELSE f.kids[q]
  <2> DEFINE K == [m \in Node |->
                     IF m = n THEN <<>>
                     ELSE IF m = p THEN Splice(f.kids[m], i - 1, i, k)
                     ELSE f.kids[m]]
  <2>1. d.kids = K
    BY DEF Dissolve, Ok, Undefined
  <2> HIDE DEF d
  <2> QED
    BY <2>1
<1>4. Share(d) = e
  <2>1. \A x \in Texts : d.value[x] = f.value[x]
    <3>1. d.value = [f.value EXCEPT ![n] = <<>>]
      BY DEF Dissolve, Ok, Undefined
    <3>2. f.value \in [Node -> Seq(Node)]
      BY DEF Good, Tree
    <3> HIDE DEF d
    <3> QED
      BY <1>1, <3>1, <3>2, TextsAreNormal
  <2> HIDE DEF d
  <2> QED
    BY <2>1 DEF Share, Segment
<1>5. e \in Shares
  BY ShareIs
<1>6. i \in 1 .. Len(s) /\ s[i] = n /\ s \in Seqs /\ IsInjective(s) /\ k \in Seqs
  <2>1. i \in 1 .. Len(s) /\ s[i] = n
    BY <1>1, PositionListed
  <2> QED
    BY <1>1, <2>1, KidsAre
<1> HIDE DEF d, i, e
<1>7. Shown(d, p) = Joint(e, Splice(s, i - 1, i, k))
  BY <1>1, <1>2, <1>3, <1>4 DEF Shown
<1>8. ASSUME NEW q \in Node, q # n, q # p PROVE Shown(d, q) = Shown(f, q)
  BY <1>3, <1>4, <1>8 DEF Shown, e
<1> HIDE DEF s, k, p
<1>9. PICK a, b : a = SubSeq(s, 1, i - 1) /\ b = SubSeq(s, i + 1, Len(s))
  OBVIOUS
<1>10. Around(s, n, a, b)
  BY <1>6, <1>9, AroundAt
<1>11. a \in Seqs /\ b \in Seqs
  BY <1>10 DEF Around
<1>12. Splice(s, i - 1, i, k) = Cat(Cat(a, k), b)
  BY <1>9 DEF Splice, Cat
<1>13. Joint(e, Splice(s, i - 1, i, k)) = Cat(Cat(Joint(e, a), Joint(e, k)), Joint(e, b))
  <2>1. Cat(a, k) \in Seqs
    BY <1>6, <1>11, CatLaws
  <2> QED
    BY <1>5, <1>6, <1>11, <1>12, <2>1, JointLaws
<1>14. Joint(e, a) \in Seqs /\ Joint(e, k) \in Seqs /\ Joint(e, b) \in Seqs
  BY <1>5, <1>6, <1>11, JointLaws
<1>15. Shown(d, p) = Cat(Joint(e, a), Cat(Joint(e, k), Joint(e, b)))
  BY <1>7, <1>13, <1>14, CatAssociates
<1> QED
  BY <1>8, <1>10, <1>15 DEF d, e, s, k, p

\* What unwrapping an element does to the contents.
LEMMA ElementUnwrapped ==
    ASSUME NEW t, Good(t), Ordered(t), Once(t), NEW n \in Normal, Live(t, n),
           t.parent[n] # NoNode, ElementUnwrap(t, n).res = "ok"
    PROVE  LET p == t.parent[n]
               u == ElementUnwrap(t, n).tree
           IN /\ Content(u, p) = Without(PutAfter(Content(t, p), n, Content(t, n)), One(n))
              /\ \A q \in Container \ {n, p} : Content(u, q) = Content(t, q)
<1> DEFINE p     == t.parent[n]
           o     == ElementUnwrap(t, n)
           u     == o.tree
           first == FirstChild(t, n)
           last  == LastChild(t, n)
           r     == RemoveElement(t, n)
           d     == r.tree
           prev  == PreviousSibling(d, first)
           next  == NextSibling(d, last)
           a     == RemoveConsolidate(d, prev, first)
           b     == IF a.merged /\ first = last
                    THEN RemoveConsolidate(a.tree, prev, next)
                    ELSE RemoveConsolidate(a.tree, last, NextSibling(a.tree, last))
           f     == FreeRun(t, n, 0, Leading(t.kids[n], Abnormal))
           want  == Without(PutAfter(Content(t, p), n, Content(t, n)), One(n))
           other == \A q \in Container \ {n, p} : Content(u, q) = Content(t, q)
<1>1. n \in Elements
  <2>1. n \notin Elements => o = Err(t)
    BY DEF ElementUnwrap
  <2>2. o.res = "ok"
    OBVIOUS
  <2> QED
    BY <2>1, <2>2 DEF Err
<1>2. n \in Node /\ n \in Normal \ Texts /\ p \in Node /\ p # NoNode
  <2>1. n \notin Texts
    BY <1>1, TextsAreNormal DEF Container
  <2>2. n \in Node
    BY TextsAreNormal
  <2> QED
    BY <2>1, <2>2, KidsAre
<1>3. Good(u) /\ Ordered(u)
  BY <1>2, ElementUnwrapSound, ElementUnwrapOrdered DEF Sound
<1>4. /\ \A q \in Node : Content(u, q) = Shown(u, q)
      /\ \A q \in Node : Content(t, q) = Shown(t, q)
  <2> HIDE DEF u
  <2> QED
    BY <1>3, ContentIs
<1>5. Container \subseteq Node
  BY TextsAreNormal
<1>6. Share(t) \in Shares /\ t.kids[p] \in Seqs /\ IsInjective(t.kids[p])
  BY <1>2, ShareIs, KidsAre
<1>7. ASSUME NEW A, NEW B, Around(t.kids[p], n, A, B)
      PROVE  want = Cat(Joint(Share(t), A), Cat(Shown(t, n), Joint(Share(t), B)))
  BY <1>2, <1>7, UnwrapShape
<1>8. ASSUME first = NoNode
      PROVE  Content(u, p) = want /\ other
  <2>1. u = RemoveNode(t, n).tree
    BY <1>1, <1>8 DEF ElementUnwrap
  <2>2. Shown(t, n) = Nil
    BY <1>1, <1>2, <1>8, BareUnwrapped
  <2>3. Shown(u, p) = Rest(t, n, p)
    BY <1>1, <1>2, <1>8, <2>1, BareUnwrapped
  <2>4. \A q \in Container \ {n} : q # p => Shown(u, q) = Shown(t, q)
    BY <1>1, <1>2, <1>8, <2>1, BareUnwrapped
  <2>5. PICK A, B : Around(t.kids[p], n, A, B)
    BY <1>2, UnlinkAround
  <2>6. /\ Rest(t, n, p) = Cat(Joint(Share(t), A), Joint(Share(t), B))
        /\ Joint(Share(t), B) \in Seqs
    BY <1>2, <2>5, UnwrapShape
  <2> HIDE DEF u, want
  <2>7. want = Cat(Joint(Share(t), A), Cat(Nil, Joint(Share(t), B)))
    BY <1>7, <2>2, <2>5
  <2>8. Cat(Nil, Joint(Share(t), B)) = Joint(Share(t), B)
    BY <2>6, CatLaws
  <2>9. Content(u, p) = want
    BY <1>2, <1>4, <2>3, <2>6, <2>7, <2>8
  <2>10. \A q \in Container \ {n, p} : Content(u, q) = Content(t, q)
    BY <1>4, <1>5, <2>4
  <2> QED
    BY <2>9, <2>10 DEF u, want
<1>9. ASSUME first # NoNode
      PROVE  Content(u, p) = want /\ other
  <2>1. first \in Normal /\ last \in Normal /\ last # NoNode
    BY <1>2, <1>9, ChildIsNormal
  <2>2. r.res = "ok" /\ u = b.tree
    <3>1. o = IF r.res # "ok" THEN r ELSE Ok(b.tree)
      BY <1>1, <1>9, <2>1 DEF ElementUnwrap
    <3>2. o.res = "ok"
      OBVIOUS
    <3> HIDE DEF o, b, r
    <3> QED
      BY <3>1, <3>2 DEF Ok
  <2>3. r = Dissolve(f, n)
    BY DEF RemoveElement
  <2>4. Good(f)
    BY <1>1, EntriesFreed
  <2>5. Share(f) = Share(t) /\ Joint(Share(t), f.kids[n]) = Shown(t, n) /\ f.parent[n] = p
    BY <1>1, EntriesFreedShow
  <2>6. \A q \in Node : q # n => f.kids[q] = t.kids[q]
    BY <1>1, EntriesFreedShow
  <2>7. p # n
    <3>1. p \notin Subtree(t, n)
      BY <1>2, ParentOutside
    <3> QED
      BY <1>2, <3>1 DEF Subtree, AncestorsOrSelf
  <2>8. Good(d)
    BY <1>1, RemoveElementSound DEF Sound
  <2>9. \A q \in Node : Shown(b.tree, q) = Shown(d, q)
    <3> HIDE DEF d
    <3> QED
      BY <2>1, <2>8, TwoMergesShow
  <2> HIDE DEF f, b, u
  <2>10. Dissolve(f, n).res = "ok" /\ d = Dissolve(f, n).tree
    BY <2>2, <2>3
  <2> HIDE DEF d, r, p
  <2>11. f.parent[n] \in Node
    BY <1>2, <2>5
  <2>12. PICK A, B : /\ Around(f.kids[f.parent[n]], n, A, B)
                     /\ Shown(d, f.parent[n]) =
                          Cat(Joint(Share(f), A), Cat(Joint(Share(f), f.kids[n]), Joint(Share(f), B)))
    BY <1>1, <2>4, <2>10, <2>11, DissolveShows
  <2>13. \A q \in Node : q # n /\ q # p => Shown(d, q) = Shown(f, q)
    BY <1>1, <2>4, <2>5, <2>10, <2>11, DissolveShows
  <2>14. Around(t.kids[p], n, A, B)
    BY <1>2, <2>5, <2>6, <2>7, <2>12
  <2>15. Shown(d, p) = Cat(Joint(Share(t), A), Cat(Shown(t, n), Joint(Share(t), B)))
    BY <2>5, <2>12
  <2>16. \A q \in Node : q # n => Shown(f, q) = Shown(t, q)
    BY <2>5, <2>6 DEF Shown
  <2> HIDE DEF want
  <2>17. Content(u, p) = want
    BY <1>2, <1>4, <1>7, <2>2, <2>9, <2>14, <2>15
  <2>18. \A q \in Container \ {n, p} : Content(u, q) = Content(t, q)
    BY <1>4, <1>5, <2>2, <2>9, <2>13, <2>16
  <2> QED
    BY <2>17, <2>18 DEF u, want, p
<1>10. Content(u, p) = want /\ other
  <2> HIDE DEF first, u, want, p
  <2> QED
    BY <1>8, <1>9
<1> QED
  BY <1>10

-----------------------------------------------------------------------------
(* The contracts of the calls. *)

\* In a good tree without adjacent texts every move does what it says.
LEMMA MovesAsDocumented ==
    ASSUME OrderInv, Fit(tree), Once(tree)
    PROVE  MoveContract
<1>1. Good(tree) /\ Ordered(tree) /\ Spaced(tree)
  BY DEF OrderInv, Inv, Fit
<1>2. AppendContract
  <2> SUFFICES ASSUME NEW p \in Container, NEW n \in LiveNormal(tree), Live(tree, p),
                      CarefulUnder(tree, LastChild(tree, p), n)
               PROVE  MovesInto(tree, AppendNode(tree, p, n), n, p,
                                Without(Content(tree, p), Segment(tree, n)) \o Segment(tree, n))
    BY DEF AppendContract
  <2>1. n \in Normal /\ Live(tree, n)
    BY DEF LiveNormal
  <2> QED
    BY <1>1, <2>1, EndsMoved
<1>3. PrependContract
  <2> SUFFICES ASSUME NEW p \in Container, NEW n \in LiveNormal(tree), Live(tree, p),
                      CarefulUnder(tree, FirstChild(tree, p), n)
               PROVE  MovesInto(tree, PrependNode(tree, p, n), n, p,
                                Segment(tree, n) \o Without(Content(tree, p), Segment(tree, n)))
    BY DEF PrependContract
  <2>1. n \in Normal /\ Live(tree, n)
    BY DEF LiveNormal
  <2> QED
    BY <1>1, <2>1, EndsMoved
<1>4. InsertContract
  <2> DEFINE rest(p, n) == Without(Content(tree, p), Segment(tree, n))
  <2>1. ASSUME NEW r \in LiveNormal(tree), NEW n \in LiveNormal(tree),
               tree.parent[r] # NoNode, CarefulBeside(tree, r, n)
        PROVE  /\ MovesInto(tree, InsertAfter(tree, r, n), n, tree.parent[r],
                            PutAfter(rest(tree.parent[r], n), Last(Segment(tree, r)), Segment(tree, n)))
               /\ MovesInto(tree, InsertBefore(tree, r, n), n, tree.parent[r],
                            PutBefore(rest(tree.parent[r], n), Head(Segment(tree, r)), Segment(tree, n)))
    <3>1. r \in Normal /\ n \in Normal /\ Live(tree, r) /\ Live(tree, n)
      BY DEF LiveNormal
    <3> QED
      BY <1>1, <2>1, <3>1, SidesMoved
  <2> QED
    BY <2>1 DEF InsertContract
<1> QED
  BY <1>2, <1>3, <1>4 DEF MoveContract

\* append, prepend, insert_after and insert_before put the node where they say
\* and take it from where it was, leaving every other content alone, whichever
\* texts merge at either place, while consolidation stays on and for careful
\* callers.
THEOREM MovesKeepContract ==
    ASSUME ~AnyCall, ~MaySwitch
    PROVE  Spec => []MoveContract
<1>1. OrderInv /\ Fit(tree) /\ Once(tree) => MoveContract
  BY MovesAsDocumented
<1> QED
  BY <1>1, FitInvariance, OnceInvariance, PTL

\* detach and remove take the node out of the content of its parent and leave
\* every other content alone, whatever texts meet where it was, consolidation
\* on or off.
THEOREM TakingOutKeepsContract ==
    ASSUME ~AnyCall
    PROVE  Spec => []TakeOutContract
<1>1. ASSUME OrderInv, Once(tree)
      PROVE  TakeOutContract
  <2>1. Good(tree) /\ Ordered(tree)
    BY <1>1 DEF OrderInv, Inv
  <2>2. \A n \in LiveNormal(tree) : n \in Normal /\ Live(tree, n)
    BY DEF LiveNormal
  <2> QED
    BY <1>1, <2>1, <2>2, TakenOut DEF TakeOutContract
<1>2. OrderInv /\ Once(tree) => TakeOutContract
  BY <1>1
<1> QED
  BY <1>2, OrderInvariance, OnceInvariance, PTL

\* replace puts the replacing node where the replaced one was, also when they
\* are siblings, and removes what was below the replaced one, whichever texts
\* merge where the two nodes were, while consolidation stays on and for careful
\* callers.
THEOREM ReplacingKeepsContract ==
    ASSUME ~AnyCall, ~MaySwitch
    PROVE  Spec => []ReplaceContract
<1>1. ASSUME OrderInv, Fit(tree), Once(tree)
      PROVE  ReplaceContract
  <2>1. Good(tree) /\ Ordered(tree) /\ Spaced(tree)
    BY <1>1 DEF OrderInv, Inv, Fit
  <2>2. \A n \in LiveNormal(tree) : n \in Normal /\ Live(tree, n)
    BY DEF LiveNormal
  <2> QED
    BY <1>1, <2>1, <2>2, Replaced DEF ReplaceContract
<1>2. OrderInv /\ Fit(tree) /\ Once(tree) => ReplaceContract
  BY <1>1
<1> QED
  BY <1>2, FitInvariance, OnceInvariance, PTL

\* element_wrap puts the new element where the node was, with the node below
\* it, and element_unwrap puts what an element held where the element was; no
\* other content changes, whatever texts meet, consolidation on or off.
THEOREM WrappingKeepsContract ==
    ASSUME ~AnyCall
    PROVE  Spec => []WrapContract
<1>1. ASSUME OrderInv, Once(tree)
      PROVE  WrapContract
  <2> SUFFICES ASSUME NEW n \in LiveNormal(tree), tree.parent[n] # NoNode
               PROVE  LET p == tree.parent[n]
                          u == ElementUnwrap(tree, n)
                      IN /\ u.res = "ok" =>
                              /\ Content(u.tree, p) =
                                   Without(PutAfter(Content(tree, p), n, Content(tree, n)), <<n>>)
                              /\ \A q \in Container \ {n, p} :
                                   Content(u.tree, q) = Content(tree, q)
                         /\ \A w \in Elements : tree.phase[w] = "fresh" =>
                              LET o   == ElementWrap(tree, n, w)
                                  seg == Segment(tree, n)
                              IN o.res = "ok" =>
                                   /\ Content(o.tree, w) = seg
                                   /\ Content(o.tree, p) =
                                        Without(PutBefore(Content(tree, p), Head(seg), <<w>>), seg)
                                   /\ \A q \in Container \ {p, w} :
                                        Content(o.tree, q) = Content(tree, q)
    BY DEF WrapContract
  <2>1. Good(tree) /\ Ordered(tree)
    BY <1>1 DEF OrderInv, Inv
  <2>2. n \in Normal /\ Live(tree, n)
    BY DEF LiveNormal
  <2>3. \A x : One(x) = <<x>>
    BY DEF One
  <2>4. ASSUME ElementUnwrap(tree, n).res = "ok"
        PROVE  LET p == tree.parent[n]
                   u == ElementUnwrap(tree, n).tree
               IN /\ Content(u, p) =
                       Without(PutAfter(Content(tree, p), n, Content(tree, n)), One(n))
                  /\ \A q \in Container \ {n, p} : Content(u, q) = Content(tree, q)
    BY <1>1, <2>1, <2>2, <2>4, ElementUnwrapped
  <2>5. ASSUME NEW w \in Elements, tree.phase[w] = "fresh", ElementWrap(tree, n, w).res = "ok"
        PROVE  LET p   == tree.parent[n]
                   u   == ElementWrap(tree, n, w).tree
                   seg == Segment(tree, n)
               IN /\ Content(u, w) = seg
                  /\ Content(u, p) = Without(PutBefore(Content(tree, p), Head(seg), One(w)), seg)
                  /\ \A q \in Container \ {p, w} : Content(u, q) = Content(tree, q)
    BY <1>1, <2>1, <2>2, <2>5, Wrapped
  <2> QED
    BY <2>3, <2>4, <2>5
<1>2. OrderInv /\ Once(tree) => WrapContract
  BY <1>1
<1> QED
  BY <1>2, OrderInvariance, OnceInvariance, PTL
=============================================================================
