--------------------------- MODULE NamespaceContracts ---------------------------
(***************************************************************************)
(* What writing and reading a tree promise for its names.                  *)
(***************************************************************************)
EXTENDS Serialization

Written(t, top) == SetToSortSeq(Below(t, top), <)

\* A name can be written if the tree above it declares a prefix for its
\* namespace, or if it has none; the empty prefix does not serve attributes.
CanWrite(t, n) ==
    /\ t.els[n].ns \in Known(InScope(t, n)) \cup {NoNamespace}
    /\ \A ns \in AttributeSpaces(t, n) \ {NoNamespace} :
          \E d \in Range(InScope(t, n)) : d[2] = ns /\ d[1] # EmptyPrefix

CanWriteAll(t, top) == \A n \in Below(t, top) : CanWrite(t, n)

\* Writing is refused exactly if some name has no prefix in scope: walking up
\* from the name and keeping a stack on the way down agree.
RefusedIsUnbound ==
    /\ phase = "missing prefix" => ~CanWriteAll(tree, writer.top)
    /\ phase \in {"read", "done", "refused"} => CanWriteAll(tree, writer.top)

\* An element in no namespace below a declaration of a default namespace
\* cannot be written so that it is read back.
Hidden(t, top) ==
    \E n \in Below(t, top) :
        t.els[n].ns = NoNamespace /\ EmptyPrefix \in PrefixesOf(InScope(t, n))

Ids(t, n) == {a.value : a \in {b \in Range(t.els[n].attrs) : b.ns = Xml}}

SameId(t, top) == \E m, n \in Below(t, top) : m # n /\ Ids(t, m) \cap Ids(t, n) # {}

\* What was written is read back: the same elements and attributes with the
\* same names and the same namespaces in scope, and the ids lead to them.
ReadIsWritten ==
    LET all == Written(tree, writer.top)
        t   == [els |-> reader.built, document |-> TRUE]
    IN  /\ Len(t.els) = Len(all)
        /\ \A i \in DOMAIN all :
              /\ t.els[i].ns = tree.els[all[i]].ns
              /\ t.els[i].attrs = tree.els[all[i]].attrs
              /\ Range(InScope(t, i)) = Range(InScope(tree, all[i]))
              /\ \A v \in Ids(t, i) : reader.ids[v] = i

WrittenIsReadBack ==
    /\ phase = "done" /\ ~Hidden(tree, writer.top) => ReadIsWritten
    /\ phase = "refused" => Hidden(tree, writer.top) \/ SameId(tree, writer.top)

\* After a tag the innermost scope of either stack is what the tree declares at
\* the element that is open, though only the reader has an entry for it.
Effective(decls) == Range(decls) \ {<<EmptyPrefix, NoNamespace>>}

OpenWhileWriting ==
    LET n == writer.edge[2] IN IF writer.edge[1] = "end" THEN n ELSE tree.els[n].parent

ScopesFollowTree ==
    /\ phase = "write" /\ text # <<>> =>
          Effective(Last(writer.stack)) = Range(InScope(tree, OpenWhileWriting))
    /\ phase = "read" /\ reader.open # <<>> =>
          \A p \in PrefixesOf(FlattenSeq(reader.names)) :
              Resolve(reader.names, p) \ {NoNamespace}
                = {d[2] : d \in {e \in Range(InScope([els |-> reader.built, document |-> TRUE],
                                                     Last(reader.open))) : e[1] = p}}

\* A name whose prefix is declared above the part only is written in the clone
\* with the prefix that a serialization of the whole document picks.
SamePrefixes(t, n, clone) ==
    \A k \in Below(t, n) :
        LET inTree  == ScopeFrom(Base, t, PathTo(t, k))
            inClone == ScopeFrom(Base, clone, PathTo(clone, k - n + 1))
            above   == {t.els[k].ns} \cup AttributeSpaces(t, k)
        IN  \A ns \in above \ Known(ScopeAt(t, n, k)) :
                /\ ElementPrefix(inClone, ns) = ElementPrefix(inTree, ns)
                /\ AttributePrefix(inClone, ns) = AttributePrefix(inTree, ns)

\* A call for namespaces leaves what can be written writable, and a clone of
\* such a part with the same prefixes.
EditsKeepNames ==
    [][phase = "edit" /\ phase' = "edit" =>
         /\ \A top \in Tops : CreateMissing(top) => CanWriteAll(tree', top)
         /\ \A top \in Tops : Deduplicate(top) /\ CanWriteAll(tree, 1) => CanWriteAll(tree', 1)
         /\ \A n \in DOMAIN tree.els : Clone(n) /\ CanWriteAll(tree, n) =>
               CanWriteAll(tree', 1) /\ SamePrefixes(tree, n, tree')]_vars
===============================================================================
