------------------------------- MODULE XotTree -------------------------------
(***************************************************************************)
(* The tree manipulation interface of xot (src/xot/src/manipulation.rs and *)
(* the attribute and namespace maps of src/xot/src/nodemap/).              *)
(*                                                                         *)
(* Callers hold node handles and call one operation at a time; what makes  *)
(* the code hard is that every operation that moves or removes a node also *)
(* merges text nodes that become neighbours, before or after the move, so  *)
(* that the call frees nodes that it was not given.                        *)
(*                                                                         *)
(* Each operation is an operator from a tree to an outcome (IndexTree), in *)
(* the order of the calls in the code; an action of the specification is   *)
(* one call.                                                               *)
(***************************************************************************)
EXTENDS IndexTree

CONSTANTS
    NameOf,      \* NameOf[a]: the attribute name or namespace prefix of a
    AnyCall,     \* TRUE: callers pass any live nodes; FALSE: careful callers
    MaySwitch    \* callers may call set_text_consolidation

ASSUME FlagsAreBoolean == AnyCall \in BOOLEAN /\ MaySwitch \in BOOLEAN

VARIABLES
    tree,        \* the arena
    panicked     \* a call has panicked: nothing runs after it

vars == <<tree, panicked>>

-----------------------------------------------------------------------------
(* Navigation: siblings are of one category; children are normal nodes. *)

SameCategory(m, n) ==
    \A K \in {Normal, Attributes, Namespaces} : m \in K <=> n \in K

Neighbour(t, n, offset) ==
    IF t.parent[n] = NoNode THEN NoNode
    ELSE LET s == t.kids[t.parent[n]]
             i == Position(t, n) + offset
         IN IF i \in DOMAIN s /\ SameCategory(s[i], n) THEN s[i] ELSE NoNode

NextSibling(t, n) == Neighbour(t, n, 1)

\* Variant for the checks: the wrong direction.
PreviousIsNext(t, n) == Neighbour(t, n, 1)

PreviousSibling(t, n) == Neighbour(t, n, -1)

\* The length of the longest prefix of s whose members are all in K.
Leading(s, K) ==
    CHOOSE k \in 0 .. Len(s) :
        /\ \A i \in 1 .. k : s[i] \in K
        /\ k < Len(s) => s[k + 1] \notin K

AbnormalChildren(t, p) ==
    SubSeq(t.kids[p], 1, Leading(t.kids[p], Abnormal))

Children(t, p) ==
    SubSeq(t.kids[p], Leading(t.kids[p], Abnormal) + 1, Len(t.kids[p]))

FirstChild(t, p) ==
    IF Children(t, p) = <<>> THEN NoNode ELSE Head(Children(t, p))

LastChild(t, p) ==
    IF t.kids[p] # <<>> /\ Last(t.kids[p]) \in Normal
    THEN Last(t.kids[p]) ELSE NoNode

-----------------------------------------------------------------------------
(* Text consolidation and the structure check. *)

\* Variant for the checks: the merged node is not freed.
AbsorbKeeps(t, n, text, m) == [t EXCEPT !.value[n] = text]

\* Variant for the checks: the merged text is not kept.
AbsorbLoses(t, n, text, m) == Free(t, m)

\* The text of n becomes the joined text of n and m; node m is freed.
Absorb(t, n, text, m) == Free([t EXCEPT !.value[n] = text], m)

\* Variant for the checks: only the node behind is tested for text.
RemoveConsolidateBehind(t, prev, next) ==
    IF t.consolidate /\ prev # NoNode /\ next \in Texts
    THEN [tree |-> Absorb(t, prev, t.value[prev] \o t.value[next], next),
          merged |-> TRUE]
    ELSE [tree |-> t, merged |-> FALSE]

\* Variant for the checks: the text behind is put in front.
RemoveConsolidateSwapped(t, prev, next) ==
    IF t.consolidate /\ prev \in Texts /\ next \in Texts
    THEN [tree |-> Absorb(t, prev, t.value[next] \o t.value[prev], next),
          merged |-> TRUE]
    ELSE [tree |-> t, merged |-> FALSE]

RemoveConsolidate(t, prev, next) ==
    IF t.consolidate /\ prev \in Texts /\ next \in Texts
    THEN [tree |-> Absorb(t, prev, t.value[prev] \o t.value[next], next),
          merged |-> TRUE]
    ELSE [tree |-> t, merged |-> FALSE]

AddConsolidate(t, n, prev, next) ==
    IF ~t.consolidate \/ n \notin Texts
    THEN [tree |-> t, merged |-> FALSE]
    ELSE IF prev \in Texts
    THEN [tree |-> Absorb(t, prev, t.value[prev] \o t.value[n], n),
          merged |-> TRUE]
    ELSE IF next \in Texts
    THEN [tree |-> Absorb(t, next, t.value[n] \o t.value[next], n),
          merged |-> TRUE]
    ELSE [tree |-> t, merged |-> FALSE]

\* Variant for the checks: documents are not refused.
MayBeChildOrDocument(p, n) == p \in Container /\ n \in Normal

\* add_structure_check: p is NoNode when the reference has no parent.
MayBeChild(p, n) == p \in Container /\ n \in Normal \ Documents

\* Variant for the checks: the node is taken out at once.
LeaveDetached(t, n) ==
    RemoveConsolidate(Unlink(t, n), PreviousSibling(t, n), NextSibling(t, n)).tree

\* The first two calls of append, prepend, insert_after and insert_before:
\* the neighbours n leaves behind are merged while n is still between them.
LeaveNeighbours(t, n) ==
    RemoveConsolidate(t, PreviousSibling(t, n), NextSibling(t, n)).tree

-----------------------------------------------------------------------------
(* Moving a node. *)

AppendNode(t, p, n) ==
    IF ~MayBeChild(p, n) THEN Err(t)
    ELSE LET u == LeaveNeighbours(t, n)
             a == AddConsolidate(u, n, LastChild(u, p), NoNode)
         IN IF a.merged THEN Ok(a.tree) ELSE CheckedAppend(u, p, n)

PrependNode(t, p, n) ==
    IF ~MayBeChild(p, n) THEN Err(t)
    ELSE LET u  == LeaveNeighbours(t, n)
             a  == AddConsolidate(u, n, NoNode, FirstChild(u, p))
             ab == AbnormalChildren(u, p)
         IN IF a.merged THEN Ok(a.tree)
            ELSE IF ab # <<>> THEN CheckedInsertAfter(u, Last(ab), n)
            ELSE CheckedPrepend(u, p, n)

\* Reading the siblings of a reference that the first merge freed panics.
InsertAfter(t, r, n) ==
    IF ~MayBeChild(t.parent[r], n) THEN Err(t)
    ELSE LET u == LeaveNeighbours(t, n)
             a == AddConsolidate(u, n, r, NextSibling(u, r))
         IN IF ~Live(u, r) THEN Panic(u)
            ELSE IF a.merged THEN Ok(a.tree)
            ELSE CheckedInsertAfter(u, r, n)

InsertBefore(t, r, n) ==
    IF ~MayBeChild(t.parent[r], n) THEN Err(t)
    ELSE LET u == LeaveNeighbours(t, n)
             a == AddConsolidate(u, n, PreviousSibling(u, r), r)
         IN IF ~Live(u, r) THEN Panic(u)
            ELSE IF a.merged THEN Ok(a.tree)
            ELSE CheckedInsertBefore(u, r, n)

-----------------------------------------------------------------------------
(* Taking a node out. *)

\* Variant for the checks: the neighbours are not merged.
DetachOnly(t, n) == Ok(Unlink(t, n))

DetachNode(t, n) ==
    Ok(RemoveConsolidate(Unlink(t, n),
                         PreviousSibling(t, n), NextSibling(t, n)).tree)

\* Variant for the checks: the neighbours are merged in the wrong order.
RemoveSwapped(t, n) ==
    Ok(RemoveConsolidate(RemoveSubtree(t, n),
                         NextSibling(t, n), PreviousSibling(t, n)).tree)

RemoveNode(t, n) ==
    Ok(RemoveConsolidate(RemoveSubtree(t, n),
                         PreviousSibling(t, n), NextSibling(t, n)).tree)

\* Variant for the checks: the children go as well.
RemoveElementAndBelow(t, n) == Ok(RemoveSubtree(t, n))

\* The leading attributes and namespaces of n are freed, then n dissolves.
RemoveElement(t, n) ==
    Dissolve(FreeRun(t, n, 0, Leading(t.kids[n], Abnormal)), n)

ElementUnwrap(t, n) ==
    LET first == FirstChild(t, n)
        last  == LastChild(t, n)
        r     == RemoveElement(t, n)
        prev  == PreviousSibling(r.tree, first)
        next  == NextSibling(r.tree, last)
        a     == RemoveConsolidate(r.tree, prev, first)
        b     == IF a.merged /\ first = last
                 THEN RemoveConsolidate(a.tree, prev, next)
                 ELSE RemoveConsolidate(a.tree, last, NextSibling(a.tree, last))
    IN IF n \notin Elements THEN Err(t)
       ELSE IF first = NoNode THEN RemoveNode(t, n)
       ELSE IF last = NoNode THEN Panic(t)
       ELSE IF r.res # "ok" THEN r
       ELSE Ok(b.tree)

\* w is the handle of the new element.
ElementWrap(t, n, w) ==
    LET p    == t.parent[n]
        prev == PreviousSibling(t, n)
        a    == AppendNode(Unlink(NewNode(t, w), n), w, n)
    IN IF n \in Documents \/ (p \in Documents /\ n \notin Elements) THEN Err(t)
       ELSE IF p = NoNode \/ a.res # "ok" THEN a
       ELSE IF prev # NoNode THEN InsertAfter(a.tree, prev, w)
       ELSE PrependNode(a.tree, p, w)

\* Variant for the checks: the place is not remembered.
ReplaceFirst(t, n, m) ==
    IF n \in Documents THEN Err(t)
    ELSE IF t.parent[n] = NoNode THEN Panic(t)
    ELSE PrependNode(RemoveSubtree(t, n), t.parent[n], m)

\* n is replaced by m.  A subtree that holds m, or a replaced node without a
\* parent, panics.
Replace(t, n, m) ==
    LET p    == t.parent[n]
        prev == PreviousSibling(t, n)
        u    == RemoveSubtree(t, n)
    IN IF n \in Documents THEN Err(t)
       ELSE IF p = NoNode THEN Panic(t)
       ELSE IF ~Live(u, m) THEN Panic(u)
       ELSE IF prev # NoNode THEN InsertAfter(u, prev, m)
       ELSE PrependNode(u, p, m)

-----------------------------------------------------------------------------
(* The attribute and namespace maps of an element. *)

\* The entries of e of category K are its children at the positions
\* MapStart + 1 .. MapEnd: namespaces, then attributes, up to the first child
\* of another category.
\* Variant for the checks: the namespaces are not skipped.
MapStartFirst(t, e, K) == 0

MapStart(t, e, K) ==
    IF K = Namespaces THEN 0 ELSE Leading(t.kids[e], Namespaces)

MapEnd(t, e, K) ==
    MapStart(t, e, K)
    + Leading(SubSeq(t.kids[e], MapStart(t, e, K) + 1, Len(t.kids[e])), K)

MapNodes(t, e, K) == SubSeq(t.kids[e], MapStart(t, e, K) + 1, MapEnd(t, e, K))

GetNode(t, e, K, name) ==
    LET s == MapNodes(t, e, K)
    IN IF \E i \in DOMAIN s : NameOf[s[i]] = name
       THEN s[CHOOSE i \in DOMAIN s :
                /\ NameOf[s[i]] = name
                /\ \A j \in 1 .. i - 1 : NameOf[s[j]] # name]
       ELSE NoNode

\* Variant for the checks: a first attribute does not look for namespaces.
InsertionPointOwn(t, e, K) ==
    IF MapNodes(t, e, K) # <<>> THEN Last(MapNodes(t, e, K)) ELSE NoNode

\* The node that a new entry goes after; NoNode: it goes first.
InsertionPoint(t, e, K) ==
    IF MapNodes(t, e, K) # <<>> THEN Last(MapNodes(t, e, K))
    ELSE IF K = Attributes /\ MapNodes(t, e, Namespaces) # <<>>
    THEN Last(MapNodes(t, e, Namespaces))
    ELSE NoNode

\* checked_insert_after and checked_prepend are unwrapped.
Unwrapped(o) == IF o.res = "err" THEN Panic(o.tree) ELSE o

PlaceEntry(t, e, K, a) ==
    LET at == InsertionPoint(t, e, K)
    IN Unwrapped(IF at # NoNode THEN CheckedInsertAfter(t, at, a)
                 ELSE CheckedPrepend(t, e, a))

\* Variant for the checks: the node goes although the name is taken.
InsertNodeTaken(t, e, K, a) ==
    LET old == GetNode(t, e, K, NameOf[a])
    IN IF old # NoNode THEN Ok(Unlink([t EXCEPT !.value[old] = t.value[a]], a))
       ELSE PlaceEntry(t, e, K, a)

\* insert_node: a is an allocated attribute or namespace node.
InsertNode(t, e, K, a) ==
    LET old == GetNode(t, e, K, NameOf[a])
    IN IF old # NoNode THEN Ok([t EXCEPT !.value[old] = t.value[a]])
       ELSE PlaceEntry(t, e, K, a)

\* insert: the value of a, under the name of a; the handle a is used only
\* when the map has no such name.
InsertEntry(t, e, K, a) ==
    LET old == GetNode(t, e, K, NameOf[a])
    IN IF old # NoNode THEN Ok([t EXCEPT !.value[old] = <<a>>])
       ELSE PlaceEntry(NewNode(t, a), e, K, a)

RemoveEntry(t, e, K, name) ==
    IF GetNode(t, e, K, name) = NoNode THEN Ok(t)
    ELSE RemoveNode(t, GetNode(t, e, K, name))

\* clear removes the entries one after the other: they have no children and
\* no text beside them.
ClearMap(t, e, K) == Ok(FreeRun(t, e, MapStart(t, e, K), MapEnd(t, e, K)))

AppendEntryNode(t, e, K, a) ==
    IF e \notin Elements \/ a \notin K THEN Err(t) ELSE InsertNode(t, e, K, a)

AnyAppend(t, p, n) ==
    IF n \in Namespaces THEN AppendEntryNode(t, p, Namespaces, n)
    ELSE IF n \in Attributes THEN AppendEntryNode(t, p, Attributes, n)
    ELSE AppendNode(t, p, n)

-----------------------------------------------------------------------------
(* The calls. *)

\* A careful caller does not move a node beside a reference that the move
\* itself merges away, and does not put a text node where it already is.
CarefulBeside(t, r, n) ==
    /\ r \in Normal
    /\ r # n
    /\ r \in {PreviousSibling(t, n), NextSibling(t, n)} =>
          /\ n \notin Texts
          /\ ~({PreviousSibling(t, n), NextSibling(t, n)} \subseteq Texts)

CarefulUnder(t, end, n) == ~(n \in Texts /\ end = n)

\* Replacing goes wrong when the replacing node m may not be a child, is in
\* the replaced tree, is beside it in a way that m loses its text or its
\* order, or is a text node put between two text nodes.
CarefulReplace(t, n, m) ==
    LET prev == PreviousSibling(t, n)
        next == NextSibling(t, n)
    IN /\ n \in Normal /\ t.parent[n] # NoNode
       /\ m \in Normal \ Documents
       /\ m \notin Subtree(t, n) \cup {prev}
       /\ m = next => m \notin Texts /\ ~{prev, NextSibling(t, m)} \subseteq Texts
       /\ ~(m \in Texts /\ {prev, next} \subseteq Texts)
       /\ ~(prev = NextSibling(t, m) /\ {prev, PreviousSibling(t, m)} \subseteq Texts)

Init ==
    /\ tree = [parent |-> [n \in Node |-> NoNode],
               kids |-> [n \in Node |-> <<>>],
               value |-> [n \in Node |-> <<>>],
               phase |-> [n \in Node |-> "fresh"],
               consolidate |-> TRUE]
    /\ panicked = FALSE

\* A call runs to its end, to an error or to a panic.
Call(o) ==
    /\ ~panicked
    /\ o.res # "undefined"
    /\ tree' = o.tree
    /\ panicked' = (o.res = "panic")

\* Variant for the checks: a freed slot is handed out under its old handle.
FreshOrFreed(n) == ~Live(tree, n)

Fresh(n) == tree.phase[n] = "fresh"
LiveNodes == {n \in Node : Live(tree, n)}

New == \E n \in Node : Fresh(n) /\ Call(Ok(NewNode(tree, n)))

CallAppend == \E p, n \in LiveNodes :
    /\ AnyCall \/ CarefulUnder(tree, LastChild(tree, p), n)
    /\ Call(AnyAppend(tree, p, n))

\* append_text, append_element, append_comment, append_processing_instruction
\* and append_namespace: the node is new.
AppendNew == \E p \in LiveNodes, n \in Node \ Attributes :
    Fresh(n) /\ Call(AnyAppend(NewNode(tree, n), p, n))

NewDocumentWithElement == \E d \in Documents, e \in LiveNodes :
    Fresh(d) /\ Call(IF e \in Elements THEN AppendNode(NewNode(tree, d), d, e)
                     ELSE Err(tree))

CallPrepend == \E p, n \in LiveNodes :
    /\ AnyCall \/ CarefulUnder(tree, FirstChild(tree, p), n)
    /\ Call(PrependNode(tree, p, n))

CallInsertAfter == \E r, n \in LiveNodes :
    /\ AnyCall \/ CarefulBeside(tree, r, n)
    /\ Call(InsertAfter(tree, r, n))

CallInsertBefore == \E r, n \in LiveNodes :
    /\ AnyCall \/ CarefulBeside(tree, r, n)
    /\ Call(InsertBefore(tree, r, n))

CallDetach == \E n \in LiveNodes : Call(DetachNode(tree, n))

CallRemove == \E n \in LiveNodes : Call(RemoveNode(tree, n))

CallElementUnwrap == \E n \in LiveNodes : Call(ElementUnwrap(tree, n))

CallElementWrap == \E n \in LiveNodes, w \in Elements :
    Fresh(w) /\ Call(ElementWrap(tree, n, w))

CallReplace == \E n, m \in LiveNodes :
    /\ AnyCall \/ CarefulReplace(tree, n, m)
    /\ Call(Replace(tree, n, m))

\* The map interface panics on a node that is not an element: not called.
CallInsertEntry == \E e \in LiveNodes \cap Elements, a \in Abnormal :
    /\ Fresh(a)
    /\ \E K \in {Attributes, Namespaces} :
          a \in K /\ Call(InsertEntry(tree, e, K, a))

CallRemoveEntry == \E e \in LiveNodes \cap Elements, a \in Abnormal :
    \E K \in {Attributes, Namespaces} :
        a \in K /\ Call(RemoveEntry(tree, e, K, NameOf[a]))

CallClear == \E e \in LiveNodes \cap Elements, K \in {Attributes, Namespaces} :
    Call(ClearMap(tree, e, K))

SetTextConsolidation == \E b \in BOOLEAN :
    MaySwitch /\ Call(Ok([tree EXCEPT !.consolidate = b]))

Next ==
    \/ New \/ AppendNew \/ NewDocumentWithElement
    \/ CallAppend \/ CallPrepend \/ CallInsertAfter \/ CallInsertBefore
    \/ CallDetach \/ CallRemove \/ CallElementUnwrap \/ CallElementWrap
    \/ CallReplace
    \/ CallInsertEntry \/ CallRemoveEntry \/ CallClear
    \/ SetTextConsolidation

Spec == Init /\ [][Next]_vars
=============================================================================
