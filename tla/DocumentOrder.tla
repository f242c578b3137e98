----------------------------- MODULE DocumentOrder -----------------------------
(***************************************************************************)
(* Document order (src/xee-interpreter/src/xml/document_order.rs): a node  *)
(* is numbered the first time its order is asked for, from the nearest     *)
(* node before it that already has a number, and the number is kept.  The  *)
(* walks through the tree are those of src/xot/src/access.rs, over nodes   *)
(* of every category.                                                      *)
(*                                                                         *)
(* An annotation record has order[n], the pair of a document id and a      *)
(* position, or NoOrder, and last, the last document id given out.         *)
(***************************************************************************)
EXTENDS XotTree

\* An arena has as many slots as an index can tell apart.
ASSUME NodesAreFinite == IsFiniteSet(Node)

NoOrder == <<>>

NoAnnotations == [order |-> [n \in Node |-> NoOrder], last |-> 0]

Annotated(a, n) == a.order[n] # NoOrder

\* The order on DocumentOrder pairs.
Less(o, q) == o[1] < q[1] \/ (o[1] = q[1] /\ o[2] < q[2])

-----------------------------------------------------------------------------
(* The walks. *)

Steps == 0 .. Cardinality(Node)

\* The sibling of any category, offset places from n.
SiblingAt(s, i) == IF i \in DOMAIN s THEN s[i] ELSE NoNode

Sibling(t, n, offset) ==
    IF t.parent[n] = NoNode THEN NoNode
    ELSE SiblingAt(t.kids[t.parent[n]], Position(t, n) + offset)

\* n, its parent, and so on up to the root.
UpFrom(t, n) ==
    LET up[k \in Steps] ==
            IF k = 0 THEN <<n>>
            ELSE IF t.parent[Last(up[k - 1])] = NoNode THEN up[k - 1]
            ELSE Append(up[k - 1], t.parent[Last(up[k - 1])])
    IN up[Cardinality(Container)]

Root(t, n) == Last(UpFrom(t, n))

DeepestLast(t, n) ==
    LET deep[k \in Steps] ==
            IF k = 0 THEN n
            ELSE IF t.kids[deep[k - 1]] = <<>> THEN deep[k - 1]
            ELSE Last(t.kids[deep[k - 1]])
    IN deep[Cardinality(Container)]

\* ReversePreorder::next
StepBack(t, n) ==
    IF Sibling(t, n, -1) # NoNode THEN DeepestLast(t, Sibling(t, n, -1))
    ELSE t.parent[n]

\* Following::following: the next sibling of n or of its nearest ancestor
\* that has one.
NextOnPath(t, path) ==
    IF \E k \in DOMAIN path : Sibling(t, path[k], 1) # NoNode
    THEN Sibling(t, path[CHOOSE k \in DOMAIN path :
                           /\ Sibling(t, path[k], 1) # NoNode
                           /\ \A j \in 1 .. k - 1 : Sibling(t, path[j], 1) = NoNode], 1)
    ELSE NoNode

NextAfter(t, n) == NextOnPath(t, UpFrom(t, n))

\* all_descendants chained with all_following, both in document order.
StepOn(t, n) == IF t.kids[n] # <<>> THEN Head(t.kids[n]) ELSE NextAfter(t, n)

-----------------------------------------------------------------------------
(* Numbering. *)

\* find_node_with_document_order: the first annotated node on the walk back
\* from n, or the root.
FindAnnotated(t, a, n) ==
    LET back[k \in Steps] ==
            IF k = 0 THEN n
            ELSE IF Annotated(a, back[k - 1]) \/ StepBack(t, back[k - 1]) = NoNode
            THEN back[k - 1] ELSE StepBack(t, back[k - 1])
    IN back[Cardinality(Node)]

\* The walk on from found, up to n or to the end.
WalkOn(t, found, n) ==
    LET on[k \in Steps] ==
            IF k = 0 THEN <<found>>
            ELSE IF Last(on[k - 1]) = n \/ StepOn(t, Last(on[k - 1])) = NoNode
            THEN on[k - 1]
            ELSE Append(on[k - 1], StepOn(t, Last(on[k - 1])))
    IN on[Cardinality(Node)]

\* Variant for the checks: the numbers start over.
NumberAgain(a, walk) ==
    [a EXCEPT !.order = [m \in Node |->
        IF m \in Range(Tail(walk))
        THEN <<a.order[Head(walk)][1], CHOOSE k \in DOMAIN walk : walk[k] = m>>
        ELSE @[m]]]

Number(a, walk) ==
    [a EXCEPT !.order = [m \in Node |->
        IF m \in Range(Tail(walk))
        THEN <<a.order[Head(walk)][1],
               a.order[Head(walk)][2] + (CHOOSE k \in DOMAIN walk : walk[k] = m) - 1>>
        ELSE @[m]]]

\* annotation_with_document_order: the walk must meet n; the code calls
\* anything else unreachable.
AnnotateFrom(a, walk, n) ==
    IF Last(walk) # n THEN [notes |-> a, res |-> "panic"]
    ELSE [notes |-> Number(a, walk), res |-> "ok"]

\* A tree without annotations gets the next document id.
Start(a, root) == [a EXCEPT !.order[root] = <<a.last + 1, 0>>, !.last = a.last + 1]

\* Variant for the checks: the tree is given a number again.
StartedAnew(a, found) == Start(a, found)

Started(a, found) == IF Annotated(a, found) THEN a ELSE Start(a, found)

GetFrom(t, a, found, n) == AnnotateFrom(Started(a, found), WalkOn(t, found, n), n)

\* DocumentOrderAnnotations::get
GetOrder(t, a, n) ==
    IF Annotated(a, n) THEN [notes |-> a, res |-> "ok"]
    ELSE GetFrom(t, a, FindAnnotated(t, a, n), n)

-----------------------------------------------------------------------------
(* Document order as the data model defines it. *)

SameTree(t, m, n) == Root(t, m) = Root(t, n)

\* m comes before n: it is above n, or siblings that they are in are in order.
Before(t, m, n) ==
    \/ m \in Ancestors(t, n)
    \/ \E p \in Container : \E i, j \in DOMAIN t.kids[p] :
          /\ i < j
          /\ t.kids[p][i] \in AncestorsOrSelf(t, m)
          /\ t.kids[p][j] \in AncestorsOrSelf(t, n)

\* all_descendants: the nodes of the subtree of n in document order; below[k]
\* looks at k generations.
Preorder(t, n) ==
    LET below[k \in Steps] ==
            [m \in Node |->
                IF k = 0 \/ t.kids[m] = <<>> THEN <<m>>
                ELSE <<m>> \o FlattenSeq([i \in DOMAIN t.kids[m] |->
                                             below[k - 1][t.kids[m][i]]])]
    IN below[Cardinality(Node)][n]
=============================================================================
