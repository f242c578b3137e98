------------------------------ MODULE Construction ------------------------------
(***************************************************************************)
(* How the interpreter builds XML: the append instruction (interpret.rs,   *)
(* xml_append) and the copies.  A value is a sequence of nodes and         *)
(* strings; what a string says does not matter here, the text node made of *)
(* it holds a piece named after that node.                                 *)
(***************************************************************************)
EXTENDS DocumentOrder

String == "string"

-----------------------------------------------------------------------------
(* Handles for the nodes that an operation makes. *)

FreshOf(t, K) == {n \in K : t.phase[n] = "fresh"}

\* Any fresh handle will do; this takes always the same.
Pick(t, K) == CHOOSE n \in FreshOf(t, K) : TRUE

Kinds == {Documents, Elements, Texts, Others}
         \cup {{b \in K : NameOf[b] = NameOf[a]} : K \in {Attributes, Namespaces}, a \in Abnormal}

KindOf(n) == CHOOSE K \in Kinds : n \in K

-----------------------------------------------------------------------------
(* Copies. *)

\* m copied into the handle c, which goes below the copy of m's parent.
CopyBelow(acc, t, m, c, top) ==
    [acc EXCEPT
        !.tree = IF top THEN [NewNode(@, c) EXCEPT !.value[c] = t.value[m]]
                 ELSE AnyAppend([NewNode(@, c) EXCEPT !.value[c] = t.value[m]],
                                acc.copy[t.parent[m]], c).tree,
        !.copy[m] = c]

\* The outcome is "undefined" when no handle is left.
CopyNext(acc, t, m, top) ==
    IF acc.res # "ok" \/ FreshOf(acc.tree, KindOf(m)) = {}
    THEN [acc EXCEPT !.res = "undefined"]
    ELSE CopyBelow(acc, t, m, Pick(acc.tree, KindOf(m)), top)

\* The nodes of s, the first of which is the top, copied one after the other.
CopyAll(t, s) ==
    LET done[i \in 0 .. Len(s)] ==
            IF i = 0 THEN [tree |-> t, copy |-> [m \in Node |-> NoNode], res |-> "ok"]
            ELSE CopyNext(done[i - 1], t, s[i], i = 1)
    IN done[Len(s)]

CopyOf(acc, n) == [tree |-> acc.tree, node |-> acc.copy[n], res |-> acc.res]

\* Xot::clone_node: the nodes below n in document order, each copied and
\* appended to the copy of its parent.
CloneNode(t, n) == CopyOf(CopyAll(t, Preorder(t, n)), n)

\* shallow_copy_node: documents and elements without what is in them.
ShallowCopy(t, n) ==
    IF n \in Container THEN CopyOf(CopyAll(t, <<n>>), n) ELSE CloneNode(t, n)

-----------------------------------------------------------------------------
(* xml_append. *)

AppendMade(c, p) ==
    IF c.res = "ok" THEN Unwrapped(AnyAppend(c.tree, p, c.node)) ELSE Undefined(c.tree)

\* xml_append_string_values: the strings before a node become one text node.
AppendStrings(t, p) ==
    IF FreshOf(t, Texts) = {} THEN Undefined(t)
    ELSE AppendMade([tree |-> NewNode(t, Pick(t, Texts)), node |-> Pick(t, Texts),
                     res |-> "ok"], p)

\* Variant for the checks: nodes are moved, wherever they are.
MovableAlways(t, n) == [tree |-> t, node |-> n, res |-> "ok"]

\* A node that has a parent stays where it is and is copied.
Movable(t, n) ==
    IF t.parent[n] = NoNode THEN [tree |-> t, node |-> n, res |-> "ok"]
    ELSE CloneNode(t, n)

\* One node.  A handle that a merge has freed panics.
AppendItem(t, p, n) ==
    IF ~Live(t, n) THEN Panic(t)
    ELSE IF n \in Documents THEN Err(t)
    ELSE AppendMade(Movable(t, n), p)

\* The first error or panic ends the call: what was appended stays.
AndThen(o, o2) == IF o.res = "ok" THEN o2 ELSE o

\* Variant for the checks: strings behind the last node are dropped.
EndsStringsBefore(value, i) ==
    i \in 2 .. Len(value) /\ value[i - 1] = String /\ value[i] # String

\* A string is appended with those around it when a node follows, or the end.
EndsStrings(value, i) ==
    i > 1 /\ value[i - 1] = String /\ (i > Len(value) \/ value[i] # String)

Flush(o, p, value, i) ==
    IF EndsStrings(value, i) THEN AndThen(o, AppendStrings(o.tree, p)) ELSE o

AppendNext(o, p, value, i) ==
    IF i > Len(value) \/ value[i] = String THEN o
    ELSE AndThen(o, AppendItem(o.tree, p, value[i]))

XmlAppend(t, p, value) ==
    LET done[i \in 0 .. Len(value) + 1] ==
            IF i = 0 THEN Ok(t)
            ELSE AppendNext(Flush(done[i - 1], p, value, i), p, value, i)
    IN done[Len(value) + 1]
=============================================================================
