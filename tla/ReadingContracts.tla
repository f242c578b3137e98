----------------------------- MODULE ReadingContracts -----------------------------
(***************************************************************************)
(* What reading a stylesheet promises, stated over whole trees: which text *)
(* counts, which elements are used, which trees are stylesheets, and what  *)
(* is read from them.                                                      *)
(***************************************************************************)
EXTENDS StaticEvaluation

RECURSIVE AncestorsOrSelf(_, _)

AncestorsOrSelf(t, n) == IF n = 0 THEN {} ELSE {n} \cup AncestorsOrSelf(t, t[n].parent)

\* The nearest element around n with an attribute, or 0.
Nearest(t, n, Has(_)) ==
    LET all == {a \in AncestorsOrSelf(t, n) : IsElement(t, a) /\ Has(a)}
    IN  IF all = {} THEN 0 ELSE Max(all)

-------------------------------------------------------------------------------
\* Texts that only comments and processing instructions keep apart are one text.
Joined(t, m, n) ==
    /\ t[m].parent = t[n].parent
    /\ \A k \in m..n : k \in DOMAIN t /\ t[k].parent = t[n].parent => ~IsElement(t, k)

TextsAlong(t, n) == {m \in DOMAIN t : t[m].kind = "text" /\
                                        (IF m < n THEN Joined(t, m, n) ELSE Joined(t, n, m))}

JoinedWords(t, n) == FoldLeft(LAMBDA w, m : w \o t[m].words, <<>>, InOrder(TextsAlong(t, n)))

ElementsBeside(t, n) == {m \in DOMAIN t : t[m].parent = t[n].parent /\ IsElement(t, m)}

Nearby(t, n) ==
    LET before == {m \in ElementsBeside(t, n) : m < n}
        after  == {m \in ElementsBeside(t, n) : m > n}
    IN  [before |-> IF before = {} THEN 0 ELSE Max(before),
         after  |-> IF after = {} THEN 0 ELSE Min(after)]

KeepsSpace(t, n) ==
    LET space == Nearest(t, t[n].parent, LAMBDA a : HasAttr(t, a, XmlSpace))
    IN  \/ t[t[n].parent].name = XslName("text")
        \/ /\ space # 0 /\ t[space].attrs[XmlSpace] = <<"preserve">>
           /\ t[t[n].parent].name \notin IgnoredParents
           /\ ~NamedIn(t, Nearby(t, n).after, IgnoredBefore)
           /\ ~NamedIn(t, Nearby(t, n).before, IgnoredAfter)

IsRequired(t, n) ==
    CASE t[n].parent = 0    -> TRUE
      [] t[n].parent # 0 /\ t[n].kind = "text" ->
            /\ n = Min(TextsAlong(t, n))
            /\ Range(JoinedWords(t, n)) \subseteq {" "} => KeepsSpace(t, n)
      [] OTHER -> IsElement(t, n)

RequiredTree(t) ==
    [n \in {m \in DOMAIN t : IsRequired(t, m)} |->
        IF t[n].kind = "text" THEN [t[n] EXCEPT !.words = JoinedWords(t, n)] ELSE t[n]]

\* A value that xml:space does not have makes the stack lose an entry.
OddSpace(t) == \E n \in DOMAIN t : HasAttr(t, n, XmlSpace) /\
                                    t[n].attrs[XmlSpace] \notin {<<"preserve">>, <<"default">>}

\* What strip_whitespace leaves is exactly the elements and the text that
\* counts: its walk with a stack for xml:space and its look at the neighbours
\* agree with what the nearest element around each text says.
StrippedAsRequired ==
    phase = "evaluate" /\ ~OddSpace(source) => tree = RequiredTree(source)

-------------------------------------------------------------------------------
(***************************************************************************)
(* Static values by declaration: $q at a child of the stylesheet is the    *)
(* value of the last declaration before it that is itself used.            *)
(***************************************************************************)
RECURSIVE ValueAt(_, _, _)

AsWord(words) == IF Len(words) = 1 THEN words[1] ELSE "e"

WhenOf(t, n, scope) ==
    LET name == StandardName(t, n, "use-when")
        v    == ValueAt(t, AsWord(t[n].attrs[name]), scope)
    IN  IF ~HasAttr(t, n, name) THEN "true"
        ELSE IF v = "error" THEN "error"
        ELSE IF v \in {"false", "", "()"} THEN "false" ELSE "true"

IsUsed(t, d) == WhenOf(t, 1, 1) = "true" /\ WhenOf(t, d, d) = "true"

DeclarationsBefore(t, scope) ==
    {d \in Range(ChildrenOf(t, 1)) :
        /\ d < scope /\ IsElement(t, d) /\ IsStatic(t, d)
        /\ t[d].attrs[PlainName("name")] = <<"q">>
        /\ IsUsed(t, d)}

Has(t, d, local) == HasAttr(t, d, PlainName(local))

SelectedValue(t, d) == ValueAt(t, AsWord(t[d].attrs[PlainName("select")]), d)

DeclaredValue(t, d) ==
    CASE t[d].name = XslName("param") /\ QName \in DOMAIN given -> given[QName]
      [] t[d].name = XslName("param") /\ QName \notin DOMAIN given /\ Yes(t, d, "required") -> "error"
      [] OTHER ->
            CASE Has(t, d, "select") -> SelectedValue(t, d)
              [] t[d].name = XslName("variable") /\ ~Has(t, d, "select") -> "error"
              [] OTHER -> IF Has(t, d, "as") THEN "()" ELSE ""

ValueAt(t, word, scope) ==
    LET before == DeclarationsBefore(t, scope)
        q      == IF before = {} THEN "error" ELSE DeclaredValue(t, Max(before))
    IN  CASE word = "true()"  -> "true"
          [] word = "false()" -> "false"
          [] word = "$q"      -> q
          [] word = "not($q)" -> IF q = "error" THEN q
                                 ELSE IF q \in {"false", "", "()"} THEN "true" ELSE "false"
          [] word \in {"1", "1.5"} -> word
          [] OTHER -> "error"

TopOf(t, n) == Min(AncestorsOrSelf(t, n) \ {1})

IsExcluded(t, n) == WhenOf(t, 1, 1) = "false" \/ WhenOf(t, n, TopOf(t, n)) = "false"

IsGone(t, n) ==
    \E a \in AncestorsOrSelf(t, n) \ {1} : IsElement(t, a) /\ IsExcluded(t, a)

Elements(t) == {n \in DOMAIN t : IsElement(t, n) /\ n # 0}

\* Where the evaluator is known to differ: it never looks at use-when below a
\* variable or a parameter of the stylesheet.
Overlooked(t) ==
    \E d \in Range(ChildrenOf(t, 1)) :
        /\ IsElement(t, d) /\ Declares(t, d)
        /\ \E n \in Elements(t) \ {d} :
              d \in AncestorsOrSelf(t, n) /\ WhenOf(t, n, d) # "true"
        /\ ~IsGone(t, d)

TextIn(t, n) == FoldLeft(LAMBDA w, c : IF t[c].kind = "text" THEN w \o t[c].words ELSE w,
                         <<>>, ChildrenOf(t, n))

Stripped == StripWhitespace(source, 1)

OnlyUsedRemain(t) ==
    LET used == {n \in Elements(t) : ~IsGone(t, n)}
    IN  /\ Elements(tree) = used
        /\ \A n \in used : TextIn(tree, n) = TextIn(t, n)

\* The tree static_evaluate leaves has no element that use-when excludes, every
\* other one, and all the text of those, whatever is excluded beside it.
ExcludedAreGone ==
    phase = "parse" => Overlooked(Stripped) \/ OnlyUsedRemain(Stripped)

ProperlyDeclared(t, d) ==
    /\ ~Wrong(t, d, "static", "boolean", EmptyContext)
    /\ IsStatic(t, d) =>
          /\ Has(t, d, "name") /\ DeclaredValue(t, d) # "error"
          /\ t[d].name = XslName("param") => ~Wrong(t, d, "required", "boolean", EmptyContext)

StaticallyValid(t) ==
    \A n \in Elements(t) \ {1} :
        /\ WhenOf(t, 1, 1) # "error"
        /\ (\A a \in AncestorsOrSelf(t, n) \ {1, n} : ~IsGone(t, a))
           => WhenOf(t, n, TopOf(t, n)) # "error" \/ WhenOf(t, 1, 1) = "false"
        /\ t[n].parent = 1 /\ Declares(t, n) /\ ~IsGone(t, n) => ProperlyDeclared(t, n)

-------------------------------------------------------------------------------
(***************************************************************************)
(* The context of an element, found by walking up.                         *)
(***************************************************************************)
WithAttr(t, n, local) == Nearest(t, n, LAMBDA a : HasStandard(t, a, local))

StandardWords(t, n, local) == t[n].attrs[StandardName(t, n, local)]

PrefixesAround(t, n) ==
    LET known == UNION {DOMAIN t[a].decls : a \in AncestorsOrSelf(t, n)}
    IN  [p \in known |-> t[Nearest(t, n, LAMBDA a : p \in DOMAIN t[a].decls)].decls[p]]

RECURSIVE ScopeOf(_, _)

ScopeOf(t, n) ==
    LET mode   == WithAttr(t, n, "default-mode")
        expand == WithAttr(t, n, "expand-text")
        space  == WithAttr(t, n, "xpath-default-namespace")
        inner  == [EmptyContext EXCEPT !.prefixes = PrefixesAround(t, mode)]
        named  == ParseValue("default-mode", StandardWords(t, mode, "default-mode"), inner)
    IN  [prefixes  |-> PrefixesAround(t, n),
         variables |-> {},
         mode   |-> IF mode = 0 \/ ~named.ok THEN NoMode ELSE named.value[1],
         expand |-> expand # 0 /\ IsYes(StandardWords(t, expand, "expand-text")),
         space  |-> IF space = 0 THEN ""
                    ELSE Flat(StandardWords(t, space, "xpath-default-namespace"))]

\* A value template, part by part.
RECURSIVE TemplateParts(_, _)

TemplateParts(words, c) ==
    LET first  == words[1]
        second == IF Len(words) > 1 THEN words[2] ELSE ""
        third  == IF Len(words) > 2 THEN words[3] ELSE ""
        rest(n) == TemplateParts(SubSeq(words, n + 1, Len(words)), c)
    IN  CASE words = <<>> -> Value(<<>>)
          [] words # <<>> /\ first \in {"{", "}"} /\ second = first ->
                Before(<<<<"text", first, "">>>>, rest(2))
          [] words # <<>> /\ first = "{" /\ second = "}" -> rest(2)
          [] words # <<>> /\ first = "{" /\ second \notin {"{", "}"} ->
                IF third = "}" /\ IsExpression(c, second)
                THEN Before(<<Expression(c, second)>>, rest(3)) ELSE NoValue
          [] words # <<>> /\ first = "}" /\ second # "}" -> NoValue
          [] OTHER -> Before(<<<<"text", first, "">>>>, rest(1))

MeaningOf(kind, words, c) ==
    IF kind = "template" THEN TemplateParts(words, c) ELSE ParseValue(kind, words, c)

WellFormed(t, n, name, kind, c) ==
    HasAttr(t, n, name) => MeaningOf(kind, t[n].attrs[name], c).ok

-------------------------------------------------------------------------------
(***************************************************************************)
(* Which sequences of children a content stands for.                       *)
(***************************************************************************)
IsInstructionNode(t, n) ==
    \/ t[n].kind = "text"
    \/ IsElement(t, n) /\ (IsXsl(t, n) => t[n].name[2] \in SupportedInstructions)

IsDeclarationNode(t, n) == IsXsl(t, n) /\ t[n].name[2] \in SupportedDeclarations

RECURSIVE InLanguage(_, _, _)

InLanguage(t, term, nodes) ==
    LET one == Len(nodes) = 1
        front(i) == SubSeq(nodes, 1, i)
        back(i)  == SubSeq(nodes, i + 1, Len(nodes))
        several(part) == \E i \in 1..Len(nodes) : /\ InLanguage(t, part, front(i))
                                                  /\ InLanguage(t, Many(part), back(i))
    IN  CASE term.op = "instruction" -> one /\ t[nodes[1]].name = XslName(term.name[2])
          [] term.op = "constructor" -> one /\ IsInstructionNode(t, nodes[1])
          [] term.op = "declaration" -> one /\ IsDeclarationNode(t, nodes[1])
          [] term.op = "empty"       -> nodes = <<>>
          [] term.op = "text"        -> nodes = <<>> \/ (one /\ t[nodes[1]].kind = "text")
          [] term.op = "option"      -> nodes = <<>> \/ InLanguage(t, term.parts[1], nodes)
          [] term.op = "many"        -> nodes = <<>> \/ several(term.parts[1])
          [] term.op = "one_or_more" -> several(term.parts[1])
          [] term.op = "or"          -> \E i \in DOMAIN term.parts : InLanguage(t, term.parts[i], nodes)
          [] term.op = "then"        ->
                IF Len(term.parts) = 1 THEN InLanguage(t, term.parts[1], nodes)
                ELSE \E i \in 0..Len(nodes) :
                        /\ InLanguage(t, term.parts[1], front(i))
                        /\ InLanguage(t, Then(Tail(term.parts)), back(i))
          [] OTHER -> FALSE

RECURSIVE Fits(_, _)

StandardFits(t, n) == \A a \in Standard : WellFormed(t, n, StandardName(t, n, a[1]), a[2], ScopeOf(t, n))

XslFits(t, n, e) ==
    /\ \A a \in e.required : Has(t, n, a[1])
    /\ \A a \in e.required \cup e.optional : WellFormed(t, n, PlainName(a[1]), a[2], ScopeOf(t, n))
    /\ Unseen(t, n, e) = {}
    /\ ~AbstractWithSelect(t, n)
    /\ InLanguage(t, e.content, ChildrenOf(t, n))

LiteralFits(t, n) ==
    /\ \A a \in DOMAIN t[n].attrs :
          IF a[1] = "xsl" THEN a \in StandardNames(t, n)
          ELSE WellFormed(t, n, a, "template", ScopeOf(t, n))
    /\ InLanguage(t, SequenceConstructor, ChildrenOf(t, n))

TextFits(t, n) ==
    LET c == ScopeOf(t, t[n].parent) IN c.expand => TemplateParts(t[n].words, c).ok

Fits(t, n) ==
    IF t[n].kind = "text" THEN TextFits(t, n)
    ELSE /\ StandardFits(t, n)
         /\ IF IsXsl(t, n) THEN XslFits(t, n, Grammar[t[n].name[2]]) ELSE LiteralFits(t, n)
         /\ \A i \in DOMAIN ChildrenOf(t, n) : Fits(t, ChildrenOf(t, n)[i])

Grammatical(t) ==
    /\ t[1].name \in {XslName("transform"), XslName("stylesheet")}
    /\ NextSibling(t, 1) = 0
    /\ Fits(t, 1)

-------------------------------------------------------------------------------
(***************************************************************************)
(* Where the parser is known to differ.                                    *)
(***************************************************************************)
\* Content that is over too soon ends the content around it, what follows is
\* not read.
EndsEarly(t) ==
    \E n \in Elements(t) :
        /\ t[n].name \in {XslName(local) : local \in {"choose", "merge", "merge-source"}}
        /\ ~InLanguage(t, Grammar[t[n].name[2]].content, ChildrenOf(t, n))

BracesInText(t) ==
    \E n \in DOMAIN t :
        /\ t[n].kind = "text" /\ t[n].parent \in DOMAIN t
        /\ t[t[n].parent].name = XslName("text") /\ ~ScopeOf(t, n).expand
        /\ Range(t[n].words) \cap {"{", "}"} # {}

NamesContextItem(t) == \E n \in Elements(t) : t[n].name[2] = "context-item"

\* A prefix that only the element itself declares.
OwnPrefix(t) ==
    \E n \in Elements(t) : \E a \in Standard :
        /\ HasStandard(t, n, a[1])
        /\ "p:e" \in Range(StandardWords(t, n, a[1])) /\ "p" \in DOMAIN t[n].decls

Overruns(words) ==
    \E i \in 2..(Len(words) - 2) :
        /\ words[i] = "é" /\ words[i - 1] = "{" /\ words[i + 1] = "}"
        /\ words[i + 2] \in {"{", "}"}

WideExpression(t) ==
    \E n \in DOMAIN t : \/ Overruns(t[n].words)
                        \/ \E a \in DOMAIN t[n].attrs : Overruns(t[n].attrs[a])

Exceptional(t) ==
    BracesInText(t) \/ NamesContextItem(t) \/ OwnPrefix(t) \/ WideExpression(t)

-------------------------------------------------------------------------------
\* The combinators choose greedily and never go back; still they refuse exactly
\* what no way to divide the children fits, and what fails to evaluate before.
RefusedIsUngrammatical ==
    /\ phase = "refused" =>
          ~StaticallyValid(Stripped) \/ ~Grammatical(tree) \/ Exceptional(tree)
    /\ phase = "read" =>
          \/ StaticallyValid(Stripped) /\ (Grammatical(tree) \/ EndsEarly(tree))
          \/ Exceptional(tree) \/ Overlooked(Stripped)

RECURSIVE ItemOf(_, _)

ValuesOf(t, n) ==
    LET e == Grammar[t[n].name[2]]
        c == ScopeOf(t, n)
        m(a, kind) == MeaningOf(kind, t[n].attrs[a], c).value
    IN  IF IsXsl(t, n)
        THEN {<<a[1], m(PlainName(a[1]), a[2])>> :
                 a \in {b \in e.required \cup e.optional : Has(t, n, b[1])}}
             \cup ModeValue(t, n, c)
        ELSE {<<a[2], m(a, "template")>> : a \in {b \in DOMAIN t[n].attrs : b[1] # "xsl"}}

WrittenText(t, n, words) ==
    LET c == ScopeOf(t, n)
    IN  {<<"text()", IF c.expand THEN TemplateParts(words, c).value
                     ELSE TextFrom(words, 1, Len(words) + 1)>>}

ItemOf(t, n) ==
    LET item(found, content) ==
            [node |-> n, name |-> t[n].name, values |-> found, content |-> content]
        children == ChildrenOf(t, n)
    IN  CASE t[n].kind = "text" -> item(WrittenText(t, t[n].parent, t[n].words), <<>>)
          [] IsXsl(t, n) /\ t[n].name[2] = "text" ->
                item(ValuesOf(t, n) \cup WrittenText(t, n, TextIn(t, n)), <<>>)
          [] OTHER -> item(ValuesOf(t, n), [i \in DOMAIN children |-> ItemOf(t, children[i])])

\* Everything that was written is read by parse_transform, in order, with each
\* name, mode, text and expression as the elements around it say.
ReadAsWritten ==
    phase = "read" /\ ~EndsEarly(tree) /\ ~Exceptional(tree) => result = <<ItemOf(tree, 1)>>
===============================================================================
