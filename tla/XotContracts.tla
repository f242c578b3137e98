----------------------------- MODULE XotContracts -----------------------------
(***************************************************************************)
(* What the calls of XotTree promise, in terms of what a reader of the     *)
(* document sees: the content of an element is the sequence of its normal  *)
(* children with every text node replaced by the pieces of text that it    *)
(* holds.  Consolidation changes nodes; it must not change content.        *)
(***************************************************************************)
EXTENDS XotTree

\* What one child contributes to the content of its parent.
Segment(t, n) == IF n \in Texts THEN t.value[n] ELSE <<n>>

Content(t, p) ==
    FlattenSeq([i \in DOMAIN Children(t, p) |-> Segment(t, Children(t, p)[i])])

\* s without the members of seg.
Without(s, seg) ==
    FlattenSeq([i \in DOMAIN s |-> IF s[i] \in ToSet(seg) THEN <<>> ELSE <<s[i]>>])

\* s with seg put after x, or before it.
PutAfter(s, x, seg) ==
    LET i == CHOOSE i \in DOMAIN s : s[i] = x
    IN SubSeq(s, 1, i) \o seg \o SubSeq(s, i + 1, Len(s))

PutBefore(s, x, seg) ==
    LET i == CHOOSE i \in DOMAIN s : s[i] = x
    IN SubSeq(s, 1, i - 1) \o seg \o SubSeq(s, i, Len(s))

\* The call moved n into p: p has content s and n is gone from its old parent.
MovesInto(t, o, n, p, s) ==
    LET seg == Segment(t, n)
    IN o.res = "ok" =>
         /\ Content(o.tree, p) = s
         /\ \A q \in Container \ {p} :
               Content(o.tree, q) = Without(Content(t, q), seg)

LiveNormal(t) == {n \in Normal : Live(t, n)}

-----------------------------------------------------------------------------
(* Invariants of the arena. *)

\* The state variables have their types.
TypeOK == tree \in Tree /\ panicked \in BOOLEAN

\* The arena is a forest: the children lists and the parent links agree, only
\* live elements and documents have children, documents have no parent, and
\* no call makes a node its own ancestor.
ForestOK == Forest(tree)

\* Namespace nodes come before attributes, attributes before normal children,
\* and only elements have either: what skip_while and take_while in the maps
\* rely on to find every entry (nodemap/attribute.rs, access.rs).
CategoryOrder ==
    \A p \in Node : \A i, j \in DOMAIN tree.kids[p] : i < j =>
        /\ tree.kids[p][j] \in Namespaces => tree.kids[p][i] \in Namespaces
        /\ tree.kids[p][j] \in Attributes => tree.kids[p][i] \in Abnormal
        /\ p \in Documents => tree.kids[p][i] \in Normal

\* An element never has two attributes of one name or two declarations of one
\* prefix, whatever nodes were moved into it.
UniqueNames ==
    \A p \in Node : \A i, j \in DOMAIN tree.kids[p] :
        /\ tree.kids[p][i] \in Abnormal /\ tree.kids[p][j] \in Abnormal
        /\ SameCategory(tree.kids[p][i], tree.kids[p][j])
        /\ NameOf[tree.kids[p][i]] = NameOf[tree.kids[p][j]]
        => i = j

\* The children of a node are sorted by category, without a name twice: what
\* every look-up in a map and every walk over children assumes, however nodes
\* were moved.
EntriesInOrder == CategoryOrder /\ UniqueNames

\* While consolidation has always been on, two text nodes are never adjacent
\* (manipulation.rs, the module comment).
NoAdjacentTexts ==
    \A p \in Node : \A i \in 1 .. Len(tree.kids[p]) - 1 :
        ~({tree.kids[p][i], tree.kids[p][i + 1]} \subseteq Texts)

\* A piece of text is held once: consolidation neither copies text nor leaves
\* a merged node behind, so no piece is in two places.
TextHeldOnce ==
    \A m, n \in Texts : \A i \in DOMAIN tree.value[m], j \in DOMAIN tree.value[n] :
        tree.value[m][i] = tree.value[n][j] => m = n /\ i = j

\* Careful callers never make a call panic on a node that the call itself
\* freed.
NoPanic == ~panicked

-----------------------------------------------------------------------------
(* Contracts: in every reachable tree, every call a careful caller may make *)
(* does to the content what its documentation says.                         *)

\* append puts the node at the end of the content of the parent.
AppendContract ==
    \A p \in Container, n \in LiveNormal(tree) :
        LET seg == Segment(tree, n)
        IN Live(tree, p) /\ CarefulUnder(tree, LastChild(tree, p), n) =>
             MovesInto(tree, AppendNode(tree, p, n), n, p,
                       Without(Content(tree, p), seg) \o seg)

\* prepend puts the node at the start of the content, behind the attributes
\* and namespaces.
PrependContract ==
    \A p \in Container, n \in LiveNormal(tree) :
        LET seg == Segment(tree, n)
        IN Live(tree, p) /\ CarefulUnder(tree, FirstChild(tree, p), n) =>
             MovesInto(tree, PrependNode(tree, p, n), n, p,
                       seg \o Without(Content(tree, p), seg))

\* insert_after and insert_before put the node next to the reference, even
\* when the node was a sibling of it and when either of them is text.
InsertContract ==
    \A r, n \in LiveNormal(tree) :
        LET p    == tree.parent[r]
            seg  == Segment(tree, n)
            rest == Without(Content(tree, p), seg)
        IN p # NoNode /\ CarefulBeside(tree, r, n) =>
             /\ MovesInto(tree, InsertAfter(tree, r, n), n, p,
                          PutAfter(rest, Last(Segment(tree, r)), seg))
             /\ MovesInto(tree, InsertBefore(tree, r, n), n, p,
                          PutBefore(rest, Head(Segment(tree, r)), seg))

\* A move puts the node where it says and takes it from where it was, whichever
\* texts meet at either place (manipulation.rs, append to insert_before).
MoveContract == AppendContract /\ PrependContract /\ InsertContract

\* detach and remove take the node out of the content of its parent and leave
\* every other content alone; detach keeps the node and all below it.
TakeOutContract ==
    \A n \in LiveNormal(tree) :
        LET gone(o) == {m \in Node : Live(tree, m) /\ ~Live(o.tree, m)}
            d == DetachNode(tree, n)
            r == RemoveNode(tree, n)
        IN /\ MovesInto(tree, d, n, n, Content(tree, n))
           /\ gone(d) \subseteq {NextSibling(tree, n)} \cap Texts
           /\ gone(r) = Subtree(tree, n) \cup gone(d)
           /\ \A q \in Container \ Subtree(tree, n) :
                 Content(r.tree, q) = Without(Content(tree, q), Segment(tree, n))

\* element_unwrap puts the content of the element in its place; element_wrap
\* puts a new element that holds the node in its place.
WrapContract ==
    \A n \in LiveNormal(tree) :
        LET p == tree.parent[n]
            u == ElementUnwrap(tree, n)
        IN p # NoNode =>
             /\ u.res = "ok" =>
                  /\ Content(u.tree, p) =
                       Without(PutAfter(Content(tree, p), n, Content(tree, n)), <<n>>)
                  /\ \A q \in Container \ {n, p} :
                       Content(u.tree, q) = Content(tree, q)
             /\ \A w \in Elements : tree.phase[w] = "fresh" =>
                  LET o   == ElementWrap(tree, n, w)
                      seg == Segment(tree, n)
                  IN o.res = "ok" =>
                       /\ Content(o.tree, w) = seg
                       /\ Content(o.tree, p) =
                            Without(PutBefore(Content(tree, p), Head(seg), <<w>>), seg)
                       /\ \A q \in Container \ {p, w} :
                            Content(o.tree, q) = Content(tree, q)

\* replace puts the replacing node where the replaced one was, also when they
\* are siblings, and removes what was below the replaced one.
ReplaceContract ==
    \A n, m \in LiveNormal(tree) :
        LET p   == tree.parent[n]
            o   == Replace(tree, n, m)
            in  == Segment(tree, m)
            out == Segment(tree, n)
        IN CarefulReplace(tree, n, m) /\ o.res = "ok" =>
             /\ Content(o.tree, p) =
                  Without(PutBefore(Without(Content(tree, p), in), Head(out), in), out)
             /\ \A q \in Container \ (Subtree(tree, n) \cup {p}) :
                  Content(o.tree, q) = Without(Content(tree, q), in)
             /\ \A q \in Subtree(tree, n) : o.tree.phase[q] = "removed"

\* A move that is refused leaves every node that survives under its parent.
RefusedMovesKeepPlaces ==
    \A r, n \in LiveNormal(tree) :
        \A o \in {AppendNode(tree, r, n), PrependNode(tree, r, n),
                  InsertAfter(tree, r, n), InsertBefore(tree, r, n)} :
            o.res = "err" =>
                \A m \in Node : Live(o.tree, m) =>
                    o.tree.parent[m] = tree.parent[m]

-----------------------------------------------------------------------------
(* Contracts of the attribute and namespace maps. *)

\* The map of e as a caller reads it: names and values in order.
Entries(t, e, K) ==
    [i \in DOMAIN MapNodes(t, e, K) |->
        LET m == MapNodes(t, e, K)[i] IN <<NameOf[m], t.value[m]>>]

HasName(s, name) == \E i \in DOMAIN s : s[i][1] = name

\* s without the entry of a name.
NotNamed(s, name) ==
    IF HasName(s, name) THEN RemoveAt(s, CHOOSE i \in DOMAIN s : s[i][1] = name) ELSE s

\* s with the value under a name replaced where it stands, or added last.
Put(s, name, v) ==
    IF HasName(s, name)
    THEN [i \in DOMAIN s |-> IF s[i][1] = name THEN <<name, v>> ELSE s[i]]
    ELSE Append(s, <<name, v>>)

\* Inserting under a name that is there updates the entry in place, any other
\* name is added last; removing takes out that entry only; clearing takes out
\* all.  The other map of the element and its content never change, nor does
\* the order of other entries (nodemap/core.rs, insert, remove and clear).
MapContract ==
    \A e \in LiveNormal(tree) \cap Elements, a \in Abnormal :
    \A K \in {Attributes, Namespaces} : a \in K =>
        LET other == IF K = Attributes THEN Namespaces ELSE Attributes
            same(o) == /\ o.res = "ok"
                       /\ Entries(o.tree, e, other) = Entries(tree, e, other)
                       /\ Children(o.tree, e) = Children(tree, e)
            ins == InsertEntry(tree, e, K, a)
            rem == RemoveEntry(tree, e, K, NameOf[a])
            clr == ClearMap(tree, e, K)
            was == Entries(tree, e, K)
        IN /\ tree.phase[a] = "fresh" =>
                same(ins) /\ Entries(ins.tree, e, K) = Put(was, NameOf[a], <<a>>)
           /\ same(rem) /\ Entries(rem.tree, e, K) = NotNamed(was, NameOf[a])
           /\ same(clr) /\ Entries(clr.tree, e, K) = <<>>

\* Appending an attribute or namespace node that is already somewhere moves it,
\* or, when the name is taken, copies its value and leaves it where it is.
AppendEntryContract ==
    \A e \in LiveNormal(tree) \cap Elements, a \in Abnormal :
    \A K \in {Attributes, Namespaces} : a \in K /\ Live(tree, a) =>
        LET o == AppendEntryNode(tree, e, K, a)
            from == tree.parent[a]
            taken == HasName(Entries(tree, e, K), NameOf[a])
        IN /\ o.res = "ok"
           /\ Entries(o.tree, e, K) =
                Put(Entries(tree, e, K), NameOf[a], tree.value[a])
           /\ from # NoNode /\ from # e =>
                Entries(o.tree, from, K) =
                    IF taken THEN Entries(tree, from, K)
                    ELSE NotNamed(Entries(tree, from, K), NameOf[a])

-----------------------------------------------------------------------------
(* Action properties. *)

TextHeld(t) == UNION {ToSet(t.value[n]) : n \in {m \in Texts : Live(t, m)}}

\* Only remove and replace may lose text: whatever else a careful caller
\* does, every piece of text is still held by a live node.
NoTextLost ==
    [][TextHeld(tree) \subseteq TextHeld(tree') \/ CallRemove \/ CallReplace]_vars

\* A removed handle never comes back, and its slot is cleared.
RemovedForGood ==
    [][\A n \in Node : tree.phase[n] = "removed" =>
          tree'.phase[n] = "removed" /\ tree'.kids[n] = <<>>]_vars

-----------------------------------------------------------------------------
(* The specification a document's holder sees. *)

Documented == INSTANCE XotContent WITH
    Pieces  <- Texts,
    content <- [c \in Container |-> Content(tree, c)],
    loose   <- {Segment(tree, n) : n \in
                  {m \in LiveNormal(tree) \ Documents : tree.parent[m] = NoNode}},
    used    <- {n \in Normal : ~Fresh(n)}

\* Whatever a careful caller does, what the containers hold changes by whole
\* segments, as if there were no text nodes to merge, split or free.
ImplementsContent == Documented!Spec
=============================================================================
