--------------------------- MODULE DocumentContracts ---------------------------
(***************************************************************************)
(* What a program may rely on: documents of the collection stay what they  *)
(* are whatever is built from their nodes, the order of nodes agrees with  *)
(* the trees, and building an element puts in what the value says.         *)
(***************************************************************************)
EXTENDS Documents, XotContracts

-----------------------------------------------------------------------------
(* Document order. *)

LiveAnnotated == {n \in LiveNodes : Annotated(notes, n)}

\* Nodes of one document id are in one tree, and their order is the document
\* order of that tree, although they were numbered in any order and the tree
\* grew, and was moved into another one, in between; so two nodes never have the
\* same order, and generate-id tells them apart.  The nodes of a document of the
\* collection all have one id, and the walk that numbers a tree meets every node
\* that it is asked for, which the code takes for granted.
OrderAgrees ==
    /\ ~panicked
    /\ \A m, n \in LiveAnnotated :
          m # n /\ notes.order[m][1] = notes.order[n][1] =>
              /\ SameTree(tree, m, n)
              /\ Less(notes.order[m], notes.order[n]) <=> Before(tree, m, n)
    /\ \A r \in Roots : \A m, n \in Subtree(tree, r) \cap LiveAnnotated :
          notes.order[m][1] = notes.order[n][1]

\* The order of a node is given once: generate-id answers the same for ever.
OrdersKept ==
    [][\A n \in Node : Annotated(notes, n) => notes'.order[n] = notes.order[n]]_dvars

-----------------------------------------------------------------------------
(* The collection. *)

\* "Once a document under a URL is present, it cannot be changed anymore"
\* (xml/document.rs): until the collection is cleaned up, its documents and
\* the answers for their URIs stay the same whatever is built from their nodes.
SourcesUntouched ==
    [][\/ Cleanup
       \/ /\ IsPrefix(documents, documents')
          /\ \A u \in DOMAIN byUri : byUri'[u] = byUri[u]
          /\ \A n \in UNION {Subtree(tree, r) : r \in Roots} :
                /\ tree'.kids[n] = tree.kids[n]
                /\ tree'.value[n] = tree.value[n]]_dvars

\* The three tables agree: a URI leads to a live document that was added under
\* it, and only one document has it.
CollectionAgrees ==
    /\ \A u \in DOMAIN byUri :
         /\ byUri[u] \in DOMAIN documents
         /\ documents[byUri[u]].uri = u
         /\ Live(tree, documents[byUri[u]].root)
         /\ uriOf[documents[byUri[u]].root] = u
    /\ \A i, j \in DOMAIN documents :
         documents[i].uri = documents[j].uri /\ documents[i].uri # NoUri => i = j

-----------------------------------------------------------------------------
(* Building. *)

\* A node as a reader sees it: its texts and what elements and comments are
\* between them, in document order.  Texts that the call made are strings.
Look(t, n) ==
    LET s == Preorder(t, n)
        look(m) == IF m \in Texts
                   THEN [i \in DOMAIN t.value[m] |->
                           IF Fresh(t.value[m][i]) THEN String ELSE t.value[m][i]]
                   ELSE IF m \in Elements THEN <<"element">>
                   ELSE IF m \in Others THEN <<"other">> ELSE <<>>
    IN FlattenSeq([i \in DOMAIN s |-> look(s[i])])

\* Strings next to each other are one text.
LookOf(value) ==
    FlattenSeq([i \in DOMAIN value |->
        IF value[i] # String THEN Look(tree, value[i])
        ELSE IF i < Len(value) /\ value[i + 1] = String THEN <<>> ELSE <<String>>])

\* An element gets what the value says, in its order, behind its attributes,
\* whichever items were moved, copied or merged; an attribute in the value
\* goes to the attributes; only a document is refused.
AppendsValue ==
    open # <<>> => \A value \in Values : Careful(value) =>
        LET o == XmlAppend(tree, Last(open), value)
        IN o.res # "undefined" =>
           /\ o.res = "err" <=> \E i \in DOMAIN value : value[i] \in Documents
           /\ o.res = "ok" => Look(o.tree, Last(open)) = <<"element">> \o LookOf(value)

\* All attributes have one name.
Names == [a \in Abnormal |-> "a"]
=============================================================================
