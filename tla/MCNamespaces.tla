------------------------------ MODULE MCNamespaces ------------------------------
(***************************************************************************)
(* Three elements, in a chain or two below the first: every combination of *)
(* a few elements for each place.                                          *)
(***************************************************************************)
EXTENDS NamespaceContracts

El(ns, decls, attrs) == [ns |-> ns, decls |-> decls, attrs |-> attrs]
Under(el, parent)    == el @@ [parent |-> parent]

D(prefix, ns) == <<prefix, ns>>

Attr(ns) == [ns |-> ns, value |-> 0]
Id(v)    == [ns |-> Xml, value |-> v]

Roots == {
    El("none", <<>>, <<Id(1)>>),
    El("A", <<D("p", "A")>>, <<Id(1)>>),
    El("A", <<D("", "A")>>, <<>>),
    El("none", <<D("p", "B"), D("q", "A")>>, <<>>),
    El("A", <<D("", "A"), D("p", "A")>>, <<>>)}

Middles == {
    El("none", <<>>, <<>>),
    El("A", <<>>, <<Attr("A")>>),
    El("A", <<D("p", "A")>>, <<>>),
    El("A", <<D("p", "B")>>, <<Attr("A")>>),
    El("A", <<D("", "A"), D("q", "A")>>, <<Attr("A")>>),
    El("none", <<D("", "none")>>, <<Id(2)>>),
    El("B", <<D("q", "A")>>, <<>>)}

Leaves == {
    El("A", <<>>, <<>>),
    El("none", <<>>, <<Attr("A")>>),
    El("B", <<>>, <<Id(1)>>),
    El("A", <<D("p", "B")>>, <<Attr("A"), Attr("none")>>),
    El("A", <<D("", "A")>>, <<Attr("A")>>),
    El("B", <<D("q", "A")>>, <<>>),
    El("A", <<D("q", "A")>>, <<Id(2)>>)}

AllTrees ==
    {[els |-> <<Under(root, 0), Under(middle, 1), Under(leaf, parent)>>, document |-> TRUE] :
        root \in Roots, middle \in Middles, leaf \in Leaves, parent \in {1, 2}}
===============================================================================
