----------------------------- MODULE Serialization -----------------------------
(***************************************************************************)
(* A tree is changed by a few calls of Namespaces, written as XML and read *)
(* back: output/serializer.rs and xml_serializer.rs on one side, parse.rs  *)
(* on the other.  The serializer keeps a stack of scopes along its walk,   *)
(* with an entry only for elements that declare something; the parser      *)
(* keeps a stack of the declarations of every open element.                *)
(*                                                                         *)
(* The text is a sequence of start tags, with their declarations and       *)
(* attributes as written, and end tags; content other than elements and    *)
(* the spelling of names are left out.                                     *)
(***************************************************************************)
EXTENDS Namespaces

CONSTANTS
    Trees,      \* the trees to start with
    EditsMax    \* bound on the calls before writing

VARIABLES
    tree,       \* the tree
    edits,      \* calls so far
    phase,      \* "edit", "write", "read", "done", "missing prefix", "refused"
    writer,     \* [top, edge, stack]: where it started, the next edge, scopes
    text,       \* what is written and not read yet
    reader      \* [names, open, built, ids]

vars == <<tree, edits, phase, writer, text, reader>>

NotWriting == [top |-> 0, edge |-> <<"end", 0>>, stack |-> <<>>]
\* DocumentBuilder::new: the base prefixes, and no default namespace.
NewReader  == [names |-> <<Base, << <<EmptyPrefix, NoNamespace>> >>>>,
               open |-> <<>>, built |-> <<>>, ids |-> <<>>]

Init ==
    /\ tree \in Trees
    /\ edits = 0 /\ phase = "edit" /\ writer = NotWriting /\ text = <<>> /\ reader = NewReader

-----------------------------------------------------------------------------
(* Calls of a program that holds the tree.                                 *)

Tops == DOMAIN tree.els \cup (IF tree.document THEN {0} ELSE {})

Edit(new) ==
    /\ phase = "edit" /\ edits < EditsMax
    /\ tree' = new /\ edits' = edits + 1
    /\ UNCHANGED <<phase, writer, text, reader>>

(* Careful callers: with these conditions left out, names are lost.        *)

\* create_missing_prefixes starts without the prefix xml, and gives xml:id a
\* prefix that the serializer never declares; a prefix n0 declared before gets
\* another namespace.
CarefulMissing(t, n) ==
    \A k \in Below(t, n) : /\ Xml \notin AttributeSpaces(t, k)
                          /\ PrefixesOf(t.els[k].decls) \cap Range(NewPrefixes) = {}

\* deduplicate_namespaces removes a declaration though the element overrides
\* the one above it, or though an attribute needs it: the attribute protects
\* the prefix against the nearest default namespace only.
CarefulDeduplicate(t, top) ==
    \A n \in Below(t, top) :
        /\ \A d \in Range(t.els[n].decls) : \A e \in Range(ScopeAt(t, top, t.els[n].parent)) :
              e[1] = d[1] => e = d
        /\ \A ns \in AttributeSpaces(t, n) :
              Cardinality({k \in Range(PathWithin(t, top, n)) : DeclaresDefault(t, k, ns)}) <= 1

\* clone_with_prefixes takes a default namespace for one that an attribute can
\* be named by.
CarefulClone(t, n) ==
    \A k \in Below(t, n) : \A ns \in AttributeSpaces(t, k) \cap Known(ScopeAt(t, n, k)) :
        AttributePrefix(ScopeAt(t, n, k), ns) # {}

\* On a document, its document element is meant.
CreateMissing(top) ==
    /\ CarefulMissing(tree, Max({top, 1}))
    /\ \E new \in CreateMissingPrefixes(tree, Max({top, 1})) : Edit(new)

Deduplicate(top) ==
    CarefulDeduplicate(tree, top) /\ Edit(DeduplicateNamespaces(tree, top))

\* The program goes on with the clone, or with the part that it took out.
Clone(n) == CarefulClone(tree, n) /\ Edit(CloneWithPrefixes(tree, n))

TakeOut(n) == Edit(Part(tree, n))

-----------------------------------------------------------------------------
(* Writing.                                                                *)

StartWriting(top) ==
    /\ phase = "edit" /\ phase' = "write"
    /\ writer' = [top |-> top, edge |-> <<"start", Max({top, 1})>>, stack |-> <<InScope(tree, top)>>]
    /\ UNCHANGED <<tree, edits, text, reader>>

\* Xot::traverse.  The walk is over when it ends its first element.
NextEdge(edge) ==
    LET n     == edge[2]
        after == {m \in Children(tree, tree.els[n].parent) : m > n}
    IN  IF edge[1] = "start"
        THEN IF Children(tree, n) = {} THEN <<"end", n>> ELSE <<"start", n + 1>>
        ELSE IF after = {} THEN <<"end", tree.els[n].parent>> ELSE <<"start", Min(after)>>

PushScopeAlways(stack, decls) == Append(stack, Declare(Last(stack), decls))

\* FullnameSerializer::push, pop: an element without declarations has no entry.
PushScope(stack, decls) ==
    IF decls = <<>> THEN stack ELSE Append(stack, Declare(Last(stack), decls))

PopScope(stack, decls) == IF decls = <<>> THEN stack ELSE Front(stack)

OwnDeclarations(n) == tree.els[n].decls

\* gen_edge_start: the first element also gets what is declared above it.  The
\* prefix xml is not written.
WrittenDeclarations(n) ==
    LET own   == tree.els[n].decls
        above == IF n = writer.top
                 THEN SelectSeq(InScope(tree, n), LAMBDA d : PrefixOf(d) \notin PrefixesOf(own))
                 ELSE <<>>
    IN  SelectSeq(above \o own, LAMBDA d : NamespaceOf(d) # Xml)

NameUnknown(scope, n) ==
    \/ ElementPrefix(scope, tree.els[n].ns) = {}
    \/ \E ns \in AttributeSpaces(tree, n) : AttributePrefix(scope, ns) = {}

Only(S) == CHOOSE x \in S : TRUE

WrittenAttribute(scope, a) ==
    LET prefix == Only(AttributePrefix(scope, a.ns))
    IN  [prefix |-> prefix, value |-> a.value, local |-> IF a.ns = Xml THEN "id" ELSE "x"]

StartTag(scope, n) ==
    [tag |-> IF Children(tree, n) = {} THEN "empty" ELSE "open",
     prefix |-> Only(ElementPrefix(scope, tree.els[n].ns)),
     decls |-> WrittenDeclarations(n),
     attrs |-> [i \in DOMAIN tree.els[n].attrs |-> WrittenAttribute(scope, tree.els[n].attrs[i])]]

EndTag(scope, n) ==
    IF Children(tree, n) = {} THEN <<>>
    ELSE <<[tag |-> "close", prefix |-> Only(ElementPrefix(scope, tree.els[n].ns))]>>

WriteStart ==
    LET n     == writer.edge[2]
        stack == PushScope(writer.stack, OwnDeclarations(n))
    IN  /\ phase = "write" /\ writer.edge[1] = "start"
        /\ IF NameUnknown(Last(stack), n)
           THEN phase' = "missing prefix" /\ UNCHANGED <<writer, text>>
           ELSE /\ text' = Append(text, StartTag(Last(stack), n))
                /\ writer' = [writer EXCEPT !.stack = stack, !.edge = NextEdge(@)]
                /\ UNCHANGED phase
        /\ UNCHANGED <<tree, edits, reader>>

WriteEnd ==
    LET n == writer.edge[2]
    IN  /\ phase = "write" /\ writer.edge[1] = "end"
        /\ text' = text \o EndTag(Last(writer.stack), n)
        /\ phase' = IF n = Max({writer.top, 1}) THEN "read" ELSE "write"
        /\ writer' = [writer EXCEPT !.stack = PopScope(@, OwnDeclarations(n)),
                                    !.edge = IF phase' = "read" THEN @ ELSE NextEdge(@)]
        /\ UNCHANGED <<tree, edits, reader>>

-----------------------------------------------------------------------------
(* Reading.                                                                *)

\* name_id_with_prefix_id: the last declaration of the innermost element.
Resolve(names, prefix) ==
    LET found == SelectSeq(FlattenSeq(names), LAMBDA d : PrefixOf(d) = prefix)
    IN  IF found = <<>> THEN {} ELSE {NamespaceOf(Last(found))}

\* attribute_name_id
ResolveAttribute(names, prefix) ==
    IF prefix = EmptyPrefix THEN {NoNamespace} ELSE Resolve(names, prefix)

\* DocumentBuilder::attribute compares names as they are written.
DuplicateAttribute(attrs) ==
    \E i, j \in DOMAIN attrs : i < j /\ attrs[i].prefix = attrs[j].prefix /\ attrs[i].local = attrs[j].local

IsId(names, a) == a.local = "id" /\ ResolveAttribute(names, a.prefix) = {Xml}

Refused(names, t) ==
    \/ DuplicateAttribute(t.attrs)
    \/ Resolve(names, t.prefix) = {}
    \/ \E a \in Range(t.attrs) : ResolveAttribute(names, a.prefix) = {}
    \/ \E a \in Range(t.attrs) : IsId(names, a) /\ a.value \in DOMAIN reader.ids

Refuse == phase' = "refused" /\ UNCHANGED <<text, reader>>

\* open_element
Element(names, t) ==
    [parent |-> IF reader.open = <<>> THEN 0 ELSE Last(reader.open),
     ns |-> Only(Resolve(names, t.prefix)), decls |-> t.decls,
     attrs |-> [i \in DOMAIN t.attrs |->
                   [ns |-> Only(ResolveAttribute(names, t.attrs[i].prefix)), value |-> t.attrs[i].value]]]

IdsOf(names, t, node) ==
    [v \in {a.value : a \in {b \in Range(t.attrs) : IsId(names, b)}} |-> node]

\* An empty element is closed at once.
ReadStart ==
    LET t     == Head(text)
        names == Append(reader.names, t.decls)
        node  == Len(reader.built) + 1
        empty == t.tag = "empty"
    IN  /\ phase = "read" /\ text # <<>> /\ t.tag # "close"
        /\ \/ /\ Refused(names, t) /\ Refuse
           \/ /\ ~Refused(names, t)
              /\ reader' = [names |-> IF empty THEN reader.names ELSE names,
                            open  |-> IF empty THEN reader.open ELSE Append(reader.open, node),
                            built |-> Append(reader.built, Element(names, t)),
                            ids   |-> IdsOf(names, t, node) @@ reader.ids]
              /\ text' = Tail(text) /\ UNCHANGED phase
        /\ UNCHANGED <<tree, edits, writer>>

\* close_element: the name of the end tag is that of the open element.
ReadEnd ==
    /\ phase = "read" /\ text # <<>> /\ Head(text).tag = "close"
    /\ IF Resolve(reader.names, Head(text).prefix) = {reader.built[Last(reader.open)].ns}
       THEN /\ reader' = [reader EXCEPT !.names = Front(@), !.open = Front(@)]
            /\ text' = Tail(text) /\ UNCHANGED phase
       ELSE Refuse
    /\ UNCHANGED <<tree, edits, writer>>

ReadAll ==
    /\ phase = "read" /\ text = <<>> /\ phase' = "done"
    /\ UNCHANGED <<tree, edits, writer, text, reader>>

Next ==
    \/ \E top \in Tops : CreateMissing(top) \/ Deduplicate(top) \/ StartWriting(top)
    \/ \E n \in DOMAIN tree.els : Clone(n) \/ TakeOut(n)
    \/ WriteStart \/ WriteEnd \/ ReadStart \/ ReadEnd \/ ReadAll

Spec == Init /\ [][Next]_vars
===============================================================================
