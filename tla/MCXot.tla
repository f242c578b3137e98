--------------------------------- MODULE MCXot ---------------------------------
EXTENDS XotContracts

CONSTANTS a1, a2, a3, n1, n2

NoNames == [a \in {} |-> a]

\* a1 and a2 share a name, and so do the namespaces.
Names == (a1 :> "x") @@ (a2 :> "x") @@ (a3 :> "y")
         @@ (n1 :> "p") @@ (n2 :> "p")

TextSymmetry == Permutations(Elements) \cup Permutations(Texts)
MapSymmetry == Permutations(Elements)
               \cup Permutations({a1, a2}) \cup Permutations({n1, n2})

\* append: "It is now the new last node of the parent", or its text is the end
\* of the last text node, for any node appended (manipulation.rs:67).
AppendedIsLast ==
    \A p \in Container, n \in LiveNormal(tree) :
        LET o == AppendNode(tree, p, n)
        IN Live(tree, p) /\ o.res = "ok" =>
             /\ Content(o.tree, p) # <<>>
             /\ Last(Content(o.tree, p)) = Last(Segment(tree, n))
=============================================================================
