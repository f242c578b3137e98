------------------------------- MODULE MCReading -------------------------------
(***************************************************************************)
(* Stylesheets in five families, each built around what one part of the    *)
(* reader does: whitespace, static expressions, content, attributes and    *)
(* what an element inherits from those around it.                          *)
(***************************************************************************)
EXTENDS ReadingContracts

No == <<>>

Node(kind, name, attrs, words, children) ==
    [kind |-> kind, name |-> name, attrs |-> attrs, decls |-> No, words |-> words,
     children |-> children]

X(local, attrs, children) == Node("element", XslName(local), attrs, <<>>, children)
Literal(attrs, children)  == Node("element", <<"", "d">>, attrs, <<>>, children)
T(words) == Node("text", <<"", "">>, No, words, <<>>)
Ignored(kind) == Node(kind, <<"", "">>, No, <<>>, <<>>)

A(local, word) == PlainName(local) :> <<word>>
XslA(local, word) == XslName(local) :> <<word>>
Optionally(word, attr) == IF word = "" THEN No ELSE attr :> <<word>>
Declaring(node, space) == IF space = "" THEN node ELSE [node EXCEPT !.decls = "p" :> space]

RECURSIVE Nodes(_, _, _)

Nodes(node, parent, number) ==
    FoldLeft(LAMBDA s, child : s \o Nodes(child, number, number + Len(s)),
             <<[parent |-> parent, kind |-> node.kind, name |-> node.name,
                attrs |-> node.attrs, decls |-> node.decls, words |-> node.words]>>,
             node.children)

Tree(node) == Nodes(node, 0, 1)

SeqsOf(S, n) == UNION {[1..k -> S] : k \in 0..n}

\* A parser of XML never makes two texts in a row.
Separate(children) == \A i \in 2..Len(children) :
    ~(children[i - 1].kind = "text" /\ children[i].kind = "text")

Transform_(children) == X("transform", No, children)
Rule(children)       == X("template", A("match", "e"), children)
InRule(children)     == Transform_(<<Rule(children)>>)

-------------------------------------------------------------------------------
Space == T(<<" ">>)

Hosts(children) ==
    {Literal(Optionally(space, XmlSpace), children) : space \in {"", "default", "preserve", "odd"}}
        \cup {X("for-each", A("select", "e"), children), X("choose", No, children),
              X("text", No, children)}

SpaceChildren ==
    {c \in SeqsOf({Space, T(<<"e">>), Ignored("comment"), X("sort", No, <<>>),
                   X("catch", No, <<>>)}, 3) : Separate(c)}

SpaceTrees ==
    {InRule(<<Literal(Optionally(outer, XmlSpace), <<host, Ignored("pi"), Space>>)>>) :
        outer \in {"", "preserve"}, host \in UNION {Hosts(c) : c \in SpaceChildren}}

-------------------------------------------------------------------------------
UseWhen_(word) == Optionally(word, PlainName("use-when"))

Static(local, attrs) == X(local, A("name", "q") @@ A("static", "yes") @@ attrs, <<>>)

FirstDeclarations ==
    {Static("variable", A("select", v)) : v \in {"true()", "false()", "$q"}}
        \cup {Static("param", a) : a \in {No, A("as", "item()"), A("required", "1"),
                                          A("select", "true()"), A("required", "e")}}
        \cup {Static("variable", No), X("variable", A("name", "q") @@ A("static", "e"), <<>>),
              X("variable", A("name", "q"), <<Literal(XslA("use-when", "false()"), <<>>)>>)}

SecondDeclarations ==
    {Static("variable", A("select", v) @@ UseWhen_(u)) :
        v \in {"$q", "not($q)"}, u \in {"", "$q", "not($q)"}}
        \cup {Static("param", A("select", "false()"))}

Conditional(outer, inner) ==
    X("template", A("match", "e") @@ UseWhen_(outer),
      <<T(<<"e">>), Literal(Optionally(inner, XslName("use-when")),
                            <<X("if", A("test", "1") @@ UseWhen_("true()"), <<>>)>>),
        T(<<"e">>), X("if", A("test", "1") @@ UseWhen_("false()"), <<>>)>>)

Conditions == {"", "$q", "not($q)", "false()", "e"}

StaticTrees ==
    {Transform_(<<first, Space, second, Conditional(outer, inner)>>) :
        first \in FirstDeclarations, second \in SecondDeclarations,
        outer \in Conditions, inner \in Conditions \ {"e"}}
        \cup {X("transform", UseWhen_(top), <<first, T(<<"e">>), Conditional(outer, "")>>) :
                top \in Conditions, first \in FirstDeclarations, outer \in {"", "$q"}}
        \cup {X("transform", UseWhen_(top), <<first, Conditional("", "")>>) :
                top \in Conditions, first \in FirstDeclarations}

-------------------------------------------------------------------------------
ValidWord(kind) ==
    CASE kind \in {"template", "pattern", "eqname", "eqnames", "modes", "apply-mode",
                   "default-mode", "method", "json-method", "data-type", "string", "char"} -> "e"
      [] kind \in {"xpath", "decimal"} -> "1"
      [] kind = "type" -> "item()"
      [] OTHER -> IF OneOf(kind) = {} THEN "e" ELSE CHOOSE w \in OneOf(kind) : TRUE

AttributesOf(attrs) ==
    [name \in {PlainName(a[1]) : a \in attrs} |->
        <<ValidWord((CHOOSE a \in attrs : PlainName(a[1]) = name)[2])>>]

RECURSIVE Least(_)

\* An element with what it has to have.
LeastChildren(local) ==
    CASE local = "choose"       -> <<Least("when")>>
      [] local = "merge"        -> <<Least("merge-source"), Least("merge-action")>>
      [] local = "merge-source" -> <<Least("merge-key")>>
      [] OTHER -> <<>>

With(local, children) == X(local, AttributesOf(Grammar[local].required), children)

Least(local) == With(local, LeastChildren(local))

RECURSIVE Mentioned(_)

Mentioned(term) ==
    (IF term.op = "instruction" THEN {term.name[2]} ELSE {})
        \cup UNION {Mentioned(term.parts[i]) : i \in DOMAIN term.parts}

\* What is put around an element, with it in place of its least form.
Inside(local, node) ==
    CASE local \in SupportedInstructions -> InRule(<<node>>)
      [] local \in SupportedDeclarations -> Transform_(<<node>>)
      [] local \in {"when", "otherwise"} ->
            InRule(<<X("choose", No, IF local = "when" THEN <<node>>
                                     ELSE <<Least("when"), node>>)>>)
      [] local \in {"matching-substring", "non-matching-substring"} ->
            InRule(<<With("analyze-string", <<node>>)>>)
      [] local = "sort"          -> InRule(<<With("for-each", <<node, T(<<"e">>)>>)>>)
      [] local = "param"         -> InRule(<<node>>)
      [] local = "with-param"    -> InRule(<<With("call-template", <<node>>)>>)
      [] local = "on-completion" -> InRule(<<With("iterate", <<node>>)>>)
      [] local = "merge-source"  -> InRule(<<X("merge", No, <<node, Least("merge-action")>>)>>)
      [] local = "merge-key"     -> InRule(<<X("merge", No, <<With("merge-source", <<node>>),
                                                              Least("merge-action")>>)>>)
      [] local = "merge-action"  -> InRule(<<X("merge", No, <<Least("merge-source"), node>>)>>)
      [] OTHER -> Transform_(<<With("accumulator", <<node>>)>>)

Inner == {"when", "otherwise", "matching-substring", "non-matching-substring", "sort", "param",
          "with-param", "on-completion", "merge-source", "merge-key", "merge-action",
          "accumulator-rule"}

Placed == SupportedInstructions \cup SupportedDeclarations \cup Inner

ContentOf_(local) ==
    LET names == Mentioned(Grammar[local].content)
        any   == {Least("if"), T(<<"e">>), X("choose", No, <<>>)}
    IN  {c \in SeqsOf({Least(n) : n \in names} \cup any, 2) : Separate(c)}
            \cup [1..3 -> {Least(n) : n \in names} \cup {Least("if")}]

ContentTrees ==
    {Inside(local, With(local, c)) : local \in Placed, c \in {}}
        \cup UNION {{Inside(local, With(local, c)) : c \in ContentOf_(local)} : local \in Placed}
        \cup {Transform_(c) : c \in SeqsOf({Least(l) : l \in {"template", "output", "accumulator",
                                                            "mode", "variable", "if"}}
                                               \cup {Literal(No, <<>>)}, 2)}
        \cup {X(local, No, <<Rule(<<>>)>>) : local \in {"stylesheet", "template", "package"}}

-------------------------------------------------------------------------------
WordsFor(kind) ==
    {"{", "p:e", ValidWord(kind)}
        \cup (IF kind \in {"eqnames", "modes", "apply-mode", "default-mode"}
             THEN {" ", "#default", "#all"} ELSE {})

Varied(local) ==
    LET e     == Grammar[local]
        least == Least(local)
        all   == e.required \cup e.optional \cup {<<"zz", "string">>}
                    \cup (IF local \in {"if", "template", "sort", "output"} THEN Standard ELSE {})
    IN  UNION {{[least EXCEPT !.attrs = PlainName(a[1]) :> <<w>> @@ @] : w \in WordsFor(a[2])} : a \in all}
            \cup {[least EXCEPT !.attrs = Restrict(@, DOMAIN @ \ {PlainName(a[1])})] : a \in e.required}

AttributeTrees ==
    {Inside("variable", X("variable", A("name", "e") @@ A("visibility", "abstract") @@ s, <<>>)) :
        s \in {No, A("select", "1")}}
        \cup UNION {{Declaring(Inside(local, node), space) : node \in Varied(local)} :
                       local \in Placed, space \in {"N"}}

-------------------------------------------------------------------------------
Words == {"{", "}", "e", "é", "p:e"}

Wordings == SeqsOf(Words, 4) \ {<<>>}

Written(words, inner, attrs) ==
    Literal(PlainName("a") :> words @@ attrs, <<T(words), inner>>)

TemplateTrees ==
    UNION {
        {X("transform", A("expand-text", "yes"), <<Rule(<<Declaring(Written(w, Least("if"), No), "N")>>)>>) :
            w \in Wordings},
        {InRule(<<X("text", No, <<T(w)>>)>>) : w \in SeqsOf(Words, 3) \ {<<>>}},
        {InRule(<<T(w)>>) : w \in SeqsOf(Words, 2) \ {<<>>}}}

Optionals(mode, expand, space) ==
    Optionally(mode, PlainName("default-mode")) @@ Optionally(expand, PlainName("expand-text"))
        @@ Optionally(space, PlainName("xpath-default-namespace"))

ScopeTrees ==
    {Declaring(X("transform", Optionals(mode1, expand1, space1),
        <<Declaring(X("template", A("match", match) @@ Optionally(mode, PlainName("mode"))
                                     @@ optionals2,
            <<Declaring(Literal(PlainName("a") :> <<"{", "p:e", "}">>
                                   @@ Optionally(expand3, XslName("expand-text")),
                <<T(<<"{", "e", "}">>), Least("apply-templates")>>), prefix3)>>), prefix2)>>),
        prefix1) :
     mode1 \in {"", "e", "p:e"}, expand1 \in {"", "yes"}, space1 \in {"", "N"},
     match \in {"e", "p:e"}, mode \in {"", "#default"},
     optionals2 \in {No, Optionals("#unnamed", "", "M")}, expand3 \in {"", "0", "true"},
     prefix3 \in {"", "N3"}, prefix2 \in {"", "N2"}, prefix1 \in {"", "N1"}}

Followed(tree_, kind) ==
    Append(tree_, [parent |-> 0, kind |-> kind, name |-> <<"", "">>, attrs |-> No,
                   decls |-> No, words |-> <<>>])

-------------------------------------------------------------------------------
Read(nodes) == [sources |-> {Tree(n) : n \in nodes}, given |-> No]

AllInputs ==
    {Read(SpaceTrees), Read(StaticTrees), Read(ContentTrees), Read(AttributeTrees),
     Read(TemplateTrees), Read(ScopeTrees),
     [sources |-> {Tree(n) : n \in StaticTrees}, given |-> QName :> "true"],
     [sources |-> {Followed(Tree(InRule(<<>>)), kind) : kind \in {"comment", "pi"}},
      given |-> No]}
===============================================================================
