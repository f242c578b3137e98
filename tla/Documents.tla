------------------------------- MODULE Documents -------------------------------
(***************************************************************************)
(* The document collection (src/xee-interpreter/src/xml/document.rs) and a *)
(* program that reads it: the program navigates from the documents and     *)
(* from the nodes it made, asks for the order of nodes (a path step, union,*)
(* intersect, except or generate-id), and builds new elements, which moves *)
(* nodes, copies them and merges text nodes.                               *)
(*                                                                         *)
(* An element is open from the instruction that makes it to the one that   *)
(* appends its content: attributes are appended one by one, the rest as    *)
(* one value (xee-xslt-compiler/src/ast_ir.rs); elements nest.             *)
(***************************************************************************)
EXTENDS Construction

CONSTANTS
    URIs,
    DocumentsMax,    \* bound on the documents in the collection
    ValueMax,        \* bound on the items of a value
    OpenMax,         \* bound on the elements open at a time
    IdsMax,          \* bound on the document ids given out
    NodesMax         \* bound on the handles given out

ASSUME BoundsAreNatural == ValueMax \in Nat

VARIABLES
    notes,       \* the document order annotations
    documents,   \* the documents: the uri or NoUri, and the root
    byUri,       \* uri -> index into documents
    uriOf,       \* root -> uri
    open,        \* the elements being built, innermost last
    held         \* the nodes that variables may hold: those that were items

NoUri == "none"

dvars == <<tree, panicked, notes, documents, byUri, uriOf, open, held>>

AskedFor == <<notes, documents, byUri, uriOf>>

-----------------------------------------------------------------------------
(* What the program can reach. *)

Roots == {documents[i].root : i \in DOMAIN documents}

\* A node that axis steps lead to from a document or from a held node, and
\* that is not in an element under construction.
Reachable ==
    LET from == (Roots \cup {Root(tree, n) : n \in held \cap LiveNodes}) \ Range(open)
    IN UNION {Subtree(tree, r) : r \in from}

Items == (IF AnyCall THEN held ELSE {}) \cup Reachable \cup {String}

Values == UNION {[1 .. k -> Items] : k \in 1 .. ValueMax}

\* A text without a parent is not mentioned twice: its first mention may merge
\* it away.
Careful(value) ==
    \A i, j \in DOMAIN value :
        i # j /\ value[i] = value[j] /\ value[i] \in Texts => tree.parent[value[i]] # NoNode

\* No more than NodesMax handles are given out.
Room(t) == Cardinality({m \in Node : t.phase[m] # "fresh"}) <= NodesMax

-----------------------------------------------------------------------------
(* The collection. *)

DocInit ==
    /\ Init
    /\ notes = NoAnnotations
    /\ documents = <<>> /\ byUri = <<>> /\ uriOf = <<>>
    /\ open = <<>> /\ held = {}

\* A node of the kind K comes to stand last in p.
ParseUnder(o, p, K) ==
    IF o.res # "ok" \/ FreshOf(o.tree, K) = {} THEN Undefined(o.tree)
    ELSE AppendNode(NewNode(o.tree, Pick(o.tree, K)), p, Pick(o.tree, K))

\* The trees that parsing is taken to give: a document with one element, which
\* is empty or holds a text; or, for a fragment, text, an element, text.
Parse(t, d, shape) ==
    LET element == ParseUnder(Ok(NewNode(t, d)), d, Elements)
        text    == ParseUnder(Ok(NewNode(t, d)), d, Texts)
    IN CASE shape = "empty"    -> element
         [] shape = "text"     -> ParseUnder(element, Pick(t, Elements), Texts)
         [] shape = "fragment" -> ParseUnder(ParseUnder(text, d, Elements), d, Texts)

\* A table with y under x.
Entered(f, x, y) == [z \in DOMAIN f \cup {x} |-> IF z = x THEN y ELSE f[z]]

\* add_root.  A document whose URI is taken has been parsed and is dropped.
\* Variant for the checks: a URI may be taken again.
AddRootAgain(uri, root) ==
    /\ documents' = Append(documents, [uri |-> uri, root |-> root])
    /\ byUri' = IF uri = NoUri THEN byUri ELSE Entered(byUri, uri, Len(documents) + 1)
    /\ uriOf' = IF uri = NoUri THEN uriOf ELSE Entered(uriOf, root, uri)

AddRoot(uri, root) ==
    IF uri \in DOMAIN byUri THEN UNCHANGED <<documents, byUri, uriOf>>
    ELSE /\ documents' = Append(documents, [uri |-> uri, root |-> root])
         /\ byUri' = IF uri = NoUri THEN byUri ELSE Entered(byUri, uri, Len(documents) + 1)
         /\ uriOf' = IF uri = NoUri THEN uriOf ELSE Entered(uriOf, root, uri)

\* add_string and add_fragment_string, which has no URI.
AddDocument ==
    \E uri \in URIs \cup {NoUri}, shape \in {"empty", "text", "fragment"} :
        /\ ~panicked /\ Len(documents) < DocumentsMax
        /\ FreshOf(tree, Documents) # {}
        /\ shape = "fragment" => uri = NoUri
        /\ \E d \in {Pick(tree, Documents)} : \E o \in {Parse(tree, d, shape)} :
              /\ o.res = "ok" /\ Room(o.tree)
              /\ tree' = o.tree /\ AddRoot(uri, d)
        /\ UNCHANGED <<panicked, notes, open, held>>

\* cleanup, between two programs: the documents go, the annotations and the
\* table of URIs by root stay.
Cleanup ==
    /\ ~panicked /\ open = <<>> /\ documents # <<>>
    /\ tree' = LET done[i \in 0 .. Len(documents)] ==
                       IF i = 0 THEN tree
                       ELSE RemoveNode(done[i - 1], documents[i].root).tree
               IN done[Len(documents)]
    /\ documents' = <<>> /\ byUri' = <<>>
    /\ held' = {}
    /\ UNCHANGED <<panicked, notes, uriOf, open>>

-----------------------------------------------------------------------------
(* The program. *)

\* process_set_result, compare by order and generate-id ask for the order of
\* one node after the other, in any order.
AskOrder == \E n \in {m \in Reachable : ~Annotated(notes, m)} :
    \E o \in {GetOrder(tree, notes, n)} :
        /\ ~panicked
        /\ o.notes.last <= IdsMax
        /\ notes' = o.notes
        /\ panicked' = (o.res = "panic")
        /\ UNCHANGED <<tree, documents, byUri, uriOf, open, held>>

\* The tree of the outcome, and the nodes that become items.  A held node that
\* is inside a tree is reached from its root as well; it is remembered only
\* where programs use handles that a merge has freed.
Program(o, items) ==
    /\ ~panicked
    /\ o.res # "undefined" /\ Room(o.tree)
    /\ tree' = o.tree
    /\ panicked' = (o.res = "panic")
    /\ held' = {n \in held \cup items :
                  AnyCall \/ (Live(o.tree, n) /\ o.tree.parent[n] = NoNode)}
    /\ UNCHANGED AskedFor

\* XmlText and XmlComment, XmlAttribute as an instruction of its own.
MakeLeaf == \E K \in Kinds \ {Documents, Elements} :
    /\ FreshOf(tree, K) # {}
    /\ Program(Ok(NewNode(tree, Pick(tree, K))), {Pick(tree, K)})
    /\ UNCHANGED open

\* XmlElement, or CopyShallow of an element.
OpenElement ==
    /\ Len(open) < OpenMax /\ FreshOf(tree, Elements) # {}
    /\ \E e \in {Pick(tree, Elements)} :
          Program(Ok(NewNode(tree, e)), {}) /\ open' = Append(open, e)

\* XmlAttribute and XmlAppend for an attribute of a literal element.
AppendLiteral == \E K \in Kinds :
    /\ open # <<>> /\ K \subseteq Attributes /\ FreshOf(tree, K) # {}
    /\ \E a \in {Pick(tree, K)} :
          Program(XmlAppend(NewNode(tree, a), Last(open), <<a>>), {})
    /\ UNCHANGED open

\* XmlAppend of the content; the element is then an item.
AppendContent == \E value \in Values :
    /\ open # <<>> /\ (AnyCall \/ Careful(value))
    /\ \E o \in {XmlAppend(tree, Last(open), value)} :
          /\ Program(o, IF o.res = "ok" THEN {Last(open)} ELSE {})
          /\ open' = IF o.res = "ok" THEN Front(open) ELSE <<>>

\* An element without content.
CloseElement ==
    /\ open # <<>>
    /\ Program(Ok(tree), {Last(open)})
    /\ open' = Front(open)

\* CopyDeep, or CopyShallow of anything but an element.
Copy == \E n \in Reachable, deep \in BOOLEAN :
    /\ deep \/ n \notin Elements
    /\ \E c \in {IF deep THEN CloneNode(tree, n) ELSE ShallowCopy(tree, n)} :
          Program(c, {c.node})
    /\ UNCHANGED open

DocNext ==
    \/ AddDocument \/ Cleanup \/ AskOrder \/ MakeLeaf \/ OpenElement
    \/ AppendLiteral \/ AppendContent \/ CloseElement \/ Copy

DocSpec == DocInit /\ [][DocNext]_dvars
=============================================================================
