------------------------------- MODULE Namespaces -------------------------------
(***************************************************************************)
(* Namespace declarations of a tree of elements, and the calls that look   *)
(* them up or change them (src/xot/src/nameaccess.rs, output/fullname.rs,  *)
(* clone_with_prefixes in manipulation.rs).                                *)
(*                                                                         *)
(* A tree is [els, document].  els are its elements in document order:     *)
(* element n has the parent els[n].parent, 0 for none above it, its name's *)
(* namespace ns, declarations decls as a sequence of pairs of a prefix and *)
(* a namespace, and attributes attrs as a sequence of [ns, value].  Local  *)
(* names are all the same; the attribute of the namespace Xml is xml:id.   *)
(* document tells whether a document node is above.                        *)
(***************************************************************************)
EXTENDS Integers, SequencesExt, FiniteSetsExt

EmptyPrefix == ""
NoNamespace == "none"
Xml         == "xml"

Base == << <<Xml, Xml>> >>

PrefixOf(decl)    == decl[1]
NamespaceOf(decl) == decl[2]
PrefixesOf(decls) == {PrefixOf(d) : d \in Range(decls)}
Known(decls)      == {NamespaceOf(d) : d \in Range(decls)}

\* The elements from the top of the tree down to n.
PathTo(t, n) ==
    LET path[k \in 0..n] == IF k = 0 THEN <<>> ELSE Append(path[t.els[k].parent], k)
    IN  path[n]

\* In document order the elements below n follow it; top is 0 for the document.
Below(t, top) == {n \in DOMAIN t.els : top = 0 \/ top \in Range(PathTo(t, n))}
LastBelow(t, n) == Max(Below(t, n))
PathWithin(t, top, n) == SelectSeq(PathTo(t, n), LAMBDA k : k >= top)
Children(t, n) == {m \in DOMAIN t.els : t.els[m].parent = n}

-----------------------------------------------------------------------------
(* The declarations that the serializer sees: later ones come last.        *)

DeclareHidden(scope, decls) == scope \o decls

\* FullnameInfo::new: a prefix declared again loses its earlier namespace.
Declare(scope, decls) ==
    SelectSeq(scope, LAMBDA d : PrefixOf(d) \notin PrefixesOf(decls)) \o decls

ScopeFrom(base, t, path) == FoldLeft(LAMBDA scope, k : Declare(scope, t.els[k].decls), base, path)

\* What the stack holds at n in a traversal of top that starts from nothing.
ScopeAt(t, top, n) == ScopeFrom(<<>>, t, PathWithin(t, top, n))

PrefixesFor(scope, ns) ==
    LET found == SelectSeq(Reverse(scope), LAMBDA d : NamespaceOf(d) = ns)
    IN  [i \in DOMAIN found |-> PrefixOf(found[i])]

\* At most one prefix: the empty one before any other, then the latest.
ElementPrefix(scope, ns) ==
    LET all == PrefixesFor(scope, ns)
    IN  IF ns = NoNamespace \/ EmptyPrefix \in Range(all) THEN {EmptyPrefix}
        ELSE IF all = <<>> THEN {} ELSE {Head(all)}

\* An attribute without a prefix is in no namespace.
AttributePrefix(scope, ns) ==
    LET all == SelectSeq(PrefixesFor(scope, ns), LAMBDA p : p # EmptyPrefix)
    IN  IF ns = NoNamespace THEN {EmptyPrefix} ELSE IF all = <<>> THEN {} ELSE {Head(all)}

-----------------------------------------------------------------------------
(* The declarations in scope of an element, from the tree: nearest first.  *)

FirstOfPrefix(decls) ==
    FoldLeft(LAMBDA seen, d : IF PrefixOf(d) \in PrefixesOf(seen) THEN seen ELSE Append(seen, d),
             <<>>, decls)

\* xmlns="" takes the default namespace away.
InScope(t, n) ==
    LET declared == FlattenSeq([i \in DOMAIN PathTo(t, n) |-> t.els[Reverse(PathTo(t, n))[i]].decls])
    IN  SelectSeq(FirstOfPrefix(declared \o Base), LAMBDA d : d # <<EmptyPrefix, NoNamespace>>)

-----------------------------------------------------------------------------
(* create_missing_prefixes.                                                *)

InsertDecl(decls, d) ==
    IF PrefixOf(d) \in PrefixesOf(decls)
    THEN [i \in DOMAIN decls |-> IF PrefixOf(decls[i]) = PrefixOf(d) THEN d ELSE decls[i]]
    ELSE Append(decls, d)

AttributeSpaces(t, n) == {a.ns : a \in Range(t.els[n].attrs)}

\* Namespaces of names that a traversal of top cannot write.
Missing(t, top) ==
    UNION {LET scope == ScopeAt(t, top, n)
           IN  {ns \in {t.els[n].ns} : ElementPrefix(scope, ns) = {}}
               \cup {ns \in AttributeSpaces(t, n) : AttributePrefix(scope, ns) = {}}
           : n \in Below(t, top)}

NewPrefixes == <<"n0", "n1", "n2">>

\* The prefixes are given out, and inserted, in the order of hash tables.
CreateMissingPrefixes(t, n) ==
    {[t EXCEPT !.els[n].decls = FoldLeft(InsertDecl, @, insertion)] :
        insertion \in UNION {SetToSeqs({<<NewPrefixes[i], order[i]>> : i \in DOMAIN order}) :
                             order \in SetToSeqs(Missing(t, n))}}

-----------------------------------------------------------------------------
(* deduplicate_namespaces.                                                 *)

DeclaresDefault(t, n, ns) == <<EmptyPrefix, ns>> \in Range(t.els[n].decls)

\* The nearest element above n, or n, that declares ns as the default.
NearestDefault(t, top, n, ns) ==
    LET all == {k \in Range(PathWithin(t, top, n)) : DeclaresDefault(t, k, ns)}
    IN  IF all = {} THEN {} ELSE {Max(all)}

\* An attribute of ns that was visited so far marks its nearest default.
InUseByAttribute(t, top, m, ns, visited) ==
    \E k \in Below(t, top) : k <= visited /\ ns \in AttributeSpaces(t, k)
                             /\ NearestDefault(t, top, k, ns) = {m}

SafeToRemoveAlways(t, top, n, ns) == TRUE

\* Asked when n ends, of the elements above it.
SafeToRemove(t, top, n, ns) ==
    \A m \in (IF t.els[n].parent < top THEN {} ELSE NearestDefault(t, top, t.els[n].parent, ns)) :
        ~InUseByAttribute(t, top, m, ns, LastBelow(t, n))

ToRemove(t, top, n) ==
    LET above == IF t.els[n].parent < top THEN <<>> ELSE ScopeAt(t, top, t.els[n].parent)
    IN  {ns \in Known(t.els[n].decls) : ns \in Known(above) /\ SafeToRemove(t, top, n, ns)}

\* First all elements are looked at, then all are changed.
DeduplicateNamespaces(t, top) ==
    [t EXCEPT !.els = [n \in DOMAIN t.els |->
        IF n \notin Below(t, top) THEN t.els[n]
        ELSE [t.els[n] EXCEPT !.decls =
                 SelectSeq(@, LAMBDA d : NamespaceOf(d) \notin ToRemove(t, top, n))]]]

-----------------------------------------------------------------------------
(* A part of the tree on its own: detach, clone_node, clone_with_prefixes. *)

Part(t, n) ==
    LET shift == n - 1
    IN  [els |-> [k \in 1 .. LastBelow(t, n) - shift |->
                    [t.els[k + shift] EXCEPT !.parent = IF k = 1 THEN 0 ELSE @ - shift]],
         document |-> FALSE]

UnresolvedNamespaces(t, n) ==
    UNION {({t.els[k].ns} \cup AttributeSpaces(t, k)) \ Known(ScopeAt(t, n, k)) : k \in Below(t, n)}

\* A node without a parent inherits nothing, the document element the base.
InheritedPrefixes(t, n) ==
    IF n = 1 /\ ~t.document THEN {}
    ELSE {d \in Range(InScope(t, t.els[n].parent)) : NamespaceOf(d) \in UnresolvedNamespaces(t, n)}

\* The last of its prefix stays: farthest ancestors first, as the serializer
\* meets them.
LastOfPrefix(decls) == Reverse(FirstOfPrefix(Reverse(decls)))

ClonePrefixes(t, n) ==
    LET required == InheritedPrefixes(t, n)
        above    == PathTo(t, t.els[n].parent)
    IN  LastOfPrefix(SelectSeq(Base \o FlattenSeq([i \in DOMAIN above |-> t.els[above[i]].decls]),
                               LAMBDA d : d \in required))

CloneWithPrefixes(t, n) ==
    LET clone == Part(t, n)
        extra == SelectSeq(ClonePrefixes(t, n),
                           LAMBDA d : PrefixOf(d) \notin PrefixesOf(clone.els[1].decls))
    IN  [clone EXCEPT !.els[1].decls = @ \o extra]
===============================================================================
