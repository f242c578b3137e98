------------------------------ MODULE IndexTree ------------------------------
(***************************************************************************)
(* The node arena under xot (crate indextree, external to the repository), *)
(* modelled from how src/xot uses it.  A tree is a record                  *)
(*   parent  the parent of a node, or NoNode;                              *)
(*   kids    the children of a node in order: first the namespace nodes,   *)
(*           then the attribute nodes, then the normal children;           *)
(*   value   what a text node, attribute or namespace node holds: the      *)
(*           pieces of text written into it, each named after the node     *)
(*           that it was created in;                                       *)
(*   phase   "fresh" before a handle is allocated, "live", or "removed";   *)
(*   consolidate  Xot's text_consolidation switch.                         *)
(* Every operation is an operator from a tree to an outcome: the tree it   *)
(* leaves and whether it returned Ok, returned Err or panicked.  The       *)
(* outcome "undefined" marks calls whose effect indextree does not define  *)
(* as a tree (a cycle, or several parentless siblings).                    *)
(***************************************************************************)
EXTENDS Integers, SequencesExt

CONSTANTS
    Documents, Elements, Texts, Others,   \* Others: comments and PIs
    Attributes, Namespaces,
    NoNode

Normal     == Documents \cup Elements \cup Texts \cup Others
Abnormal   == Namespaces \cup Attributes
Container  == Documents \cup Elements
Node       == Normal \cup Abnormal

ASSUME KindsAreDisjoint ==
    /\ Documents \cap (Elements \cup Texts \cup Others \cup Abnormal) = {}
    /\ Elements \cap (Texts \cup Others \cup Abnormal) = {}
    /\ Texts \cap (Others \cup Abnormal) = {}
    /\ Others \cap Abnormal = {}
    /\ Attributes \cap Namespaces = {}

ASSUME NoNodeIsNoNode == NoNode \notin Node

Phases   == {"fresh", "live", "removed"}
Results  == {"ok", "err", "panic", "undefined"}

Tree == [parent : [Node -> Node \cup {NoNode}],
         kids : [Node -> Seq(Node)],
         value : [Node -> Seq(Node)],
         phase : [Node -> Phases],
         consolidate : BOOLEAN]

Ok(t)        == [tree |-> t, res |-> "ok"]
Err(t)       == [tree |-> t, res |-> "err"]
Panic(t)     == [tree |-> t, res |-> "panic"]
Undefined(t) == [tree |-> t, res |-> "undefined"]

-----------------------------------------------------------------------------
(* Reading the arena. *)

Live(t, n) == t.phase[n] = "live"

Position(t, n) ==
    CHOOSE i \in DOMAIN t.kids[t.parent[n]] : t.kids[t.parent[n]][i] = n

\* The containers above n: the least set that has n's parent and is closed
\* under parent.
Ancestors(t, n) ==
    {a \in Container : \A S \in SUBSET Container :
        /\ t.parent[n] \in S \cup {NoNode}
        /\ \A m \in S : t.parent[m] \in S \cup {NoNode}
        => a \in S}

AncestorsOrSelf(t, n) == {n} \cup Ancestors(t, n)

Subtree(t, n) == {m \in Node : n \in AncestorsOrSelf(t, m)}

-----------------------------------------------------------------------------
(* Changing the arena. *)

\* s with the members at positions i + 1 .. j replaced by those of q.
Splice(s, i, j, q) == SubSeq(s, 1, i) \o q \o SubSeq(s, j + 1, Len(s))

\* Arena::new_node: the handle comes alive outside every tree.
NewNode(t, n) ==
    [t EXCEPT !.phase[n] = "live",
              !.value[n] = IF n \in Texts \cup Abnormal THEN <<n>> ELSE <<>>]

\* NodeId::detach
Unlink(t, n) ==
    IF t.parent[n] = NoNode THEN t
    ELSE LET i == Position(t, n)
         IN [t EXCEPT !.kids[t.parent[n]] = Splice(@, i - 1, i, <<>>),
                      !.parent[n] = NoNode]

\* Put a parentless node behind the first i children of p.
Link(t, p, i, n) ==
    [t EXCEPT !.kids[p] = Splice(@, i, i, <<n>>), !.parent[n] = p]

\* NodeId::checked_append
CheckedAppend(t, p, n) ==
    IF n \in AncestorsOrSelf(t, p) THEN Err(t)
    ELSE LET u == Unlink(t, n) IN Ok(Link(u, p, Len(u.kids[p]), n))

\* NodeId::checked_prepend
CheckedPrepend(t, p, n) ==
    IF n \in AncestorsOrSelf(t, p) THEN Err(t)
    ELSE Ok(Link(Unlink(t, n), p, 0, n))

\* NodeId::checked_insert_after and checked_insert_before.  They refuse the
\* reference itself but do not look for n among the ancestors of r.
InsertBeside(t, r, n, offset) ==
    IF n = r THEN Err(t)
    ELSE IF n \in Ancestors(t, r) THEN Undefined(t)
    ELSE LET u == Unlink(t, n)
         IN Ok(Link(u, u.parent[r], Position(u, r) + offset, n))

CheckedInsertAfter(t, r, n)  == InsertBeside(t, r, n, 0)
CheckedInsertBefore(t, r, n) == InsertBeside(t, r, n, -1)

\* Free a childless node.
Free(t, n) ==
    LET u == Unlink(t, n)
    IN [u EXCEPT !.phase[n] = "removed", !.value[n] = <<>>]

\* Free the childless children of p at the positions i + 1 .. j.
FreeRun(t, p, i, j) ==
    LET s    == t.kids[p]
        gone == {s[k] : k \in i + 1 .. j}
    IN [t EXCEPT
          !.kids[p] = Splice(s, i, j, <<>>),
          !.parent  = [m \in Node |-> IF m \in gone THEN NoNode ELSE @[m]],
          !.value   = [m \in Node |-> IF m \in gone THEN <<>> ELSE @[m]],
          !.phase   = [m \in Node |-> IF m \in gone THEN "removed" ELSE @[m]]]

\* NodeId::remove: free n and put its children where it was.  Without a
\* parent the children would become siblings that have no parent.
Dissolve(t, n) ==
    LET p == t.parent[n]
        k == t.kids[n]
        i == Position(t, n)
        lifted == [t EXCEPT
            !.parent = [m \in Node |->
                IF m = n THEN NoNode ELSE IF @[m] = n THEN p ELSE @[m]],
            !.kids = [m \in Node |->
                IF m = n THEN <<>>
                ELSE IF m = p THEN Splice(@[m], i - 1, i, k) ELSE @[m]],
            !.phase[n] = "removed", !.value[n] = <<>>]
    IN IF p = NoNode /\ Len(k) > 1 THEN Undefined(t) ELSE Ok(lifted)

\* NodeId::remove_subtree
RemoveSubtree(t, n) ==
    LET gone == Subtree(t, n)
        u    == Unlink(t, n)
    IN [u EXCEPT
          !.parent = [m \in Node |-> IF m \in gone THEN NoNode ELSE @[m]],
          !.kids   = [m \in Node |-> IF m \in gone THEN <<>> ELSE @[m]],
          !.value  = [m \in Node |-> IF m \in gone THEN <<>> ELSE @[m]],
          !.phase  = [m \in Node |-> IF m \in gone THEN "removed" ELSE @[m]]]

-----------------------------------------------------------------------------
(* What makes an arena a forest. *)

\* Parents are live containers, children are live and never documents.
ParentsAreContainers(t) ==
    \A n \in Node : t.parent[n] # NoNode =>
        /\ t.parent[n] \in Container
        /\ n \notin Documents
        /\ Live(t, n) /\ Live(t, t.parent[n])

\* A node is listed once, by its parent, and by no other node.
KidsAgree(t) ==
    /\ \A p \in Node : IsInjective(t.kids[p])
    /\ \A p, n \in Node : t.parent[n] = p <=> n \in Range(t.kids[p])

\* Every set of containers has a member whose parent is outside it: there is
\* no cycle.
Acyclic(t) ==
    \A S \in SUBSET Container : S # {} => \E n \in S : t.parent[n] \notin S

Forest(t) == ParentsAreContainers(t) /\ KidsAgree(t) /\ Acyclic(t)
=============================================================================
