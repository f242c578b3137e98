------------------------------- MODULE XsltParsing -------------------------------
(***************************************************************************)
(* A stylesheet read from its tree: the combinators, the attributes with   *)
(* the context they are read in, value templates and the elements.         *)
(*                                                                         *)
(* A tree maps nodes, numbers in document order, to records [parent, kind, *)
(* name, attrs, decls, words]: names are pairs of a namespace and a local  *)
(* name, attrs maps names to values, decls prefixes to namespaces, and a   *)
(* text or a value is a sequence of words.  An expression is one word,     *)
(* without spaces around it; every word is one character, one byte long,   *)
(* except é, which takes two bytes.                                        *)
(*                                                                         *)
(* An item of what is read is [node, name, values, content]; values are    *)
(* sequences of triples <<what, text, namespace>>.                         *)
(***************************************************************************)
EXTENDS XsltGrammar, SequencesExt

XslName(local) == <<"xsl", local>>
XmlSpace       == <<"xml", "space">>

IsElement(t, n) == t[n].kind = "element"
IsXsl(t, n)     == IsElement(t, n) /\ t[n].name[1] = "xsl"

InOrder(nodes) ==
    SelectSeq([i \in 1..(IF nodes = {} THEN 0 ELSE Max(nodes)) |-> i], LAMBDA i : i \in nodes)

ChildrenOf(t, n) == InOrder({c \in DOMAIN t : t[c].parent = n})

FirstChild(t, n) == LET all == ChildrenOf(t, n) IN IF all = <<>> THEN 0 ELSE all[1]

NextSibling(t, n) ==
    LET later == {m \in DOMAIN t : t[m].parent = t[n].parent /\ m > n}
    IN  IF later = {} THEN 0 ELSE Min(later)

PreviousSibling(t, n) ==
    LET earlier == {m \in DOMAIN t : t[m].parent = t[n].parent /\ m < n}
    IN  IF earlier = {} THEN 0 ELSE Max(earlier)

-------------------------------------------------------------------------------
(***************************************************************************)
(* The context: [prefixes, variables, mode, expand, space].                *)
(***************************************************************************)
NoMode == <<"unnamed", "", "">>

EmptyContext == [prefixes |-> <<>>, variables |-> {}, mode |-> NoMode, expand |-> FALSE,
                 space |-> ""]

\* Words that are no names.
NotNames == {"{", "}", " ", "true()", "false()", "$q", "not($q)", "item()", "1", "1.5", "p:e",
             "#default", "#all", "#unnamed", "#current"}

Prefix(word) == IF word = "p:e" THEN "p" ELSE ""
Local(word)  == IF word = "p:e" THEN "e" ELSE word

IsName(c, word) == word \notin NotNames \/ (word = "p:e" /\ "p" \in DOMAIN c.prefixes)

NamespaceOf(c, word, unprefixed) ==
    IF Prefix(word) = "" THEN unprefixed ELSE c.prefixes[Prefix(word)]

Name(c, word) == <<"name", Local(word), NamespaceOf(c, word, "")>>

IsExpression(c, word) ==
    IsName(c, word) \/ word \in {"true()", "false()", "$q", "not($q)", "1", "1.5"}

\* A name as an expression is a step to elements.
Expression(c, word) ==
    IF IsName(c, word) THEN <<"step", Local(word), NamespaceOf(c, word, c.space)>>
    ELSE <<"expression", word, "">>

-------------------------------------------------------------------------------
(***************************************************************************)
(* Value templates: [ok, value].  The text is at its characters, i, and at *)
(* the bytes that were not given out yet, from start on.                   *)
(***************************************************************************)
Bytes(word) == IF word = "é" THEN 2 ELSE 1

Value(value) == [ok |-> TRUE, value |-> value]
NoValue      == [ok |-> FALSE, value |-> <<>>]

Before(first, r) == [r EXCEPT !.value = first \o @]

TextFrom(words, start, end) ==
    [i \in 1..(end - start) |-> <<"text", words[start + i - 1], "">>]

RECURSIVE InString(_, _, _, _)

\* After the value as many characters are skipped as the expression has bytes,
\* and one more for the brace.
InValue(words, start, c) ==
    IF start <= Len(words) /\ words[start] = "}" THEN InString(words, start + 1, start + 1, c)
    ELSE IF /\ start < Len(words) /\ words[start + 1] = "}"
            /\ IsExpression(c, words[start])
    THEN Before(<<Expression(c, words[start])>>,
                InString(words, start + 2, start + Bytes(words[start]) + 1, c))
    ELSE NoValue

InStringOrValue(words, brace, c) ==
    LET doubled == brace < Len(words) /\ words[brace + 1] = words[brace]
    IN  IF doubled THEN Before(<<<<"text", words[brace], "">>>>,
                               InString(words, brace + 2, brace + 2, c))
        ELSE IF words[brace] = "{" THEN InValue(words, brace + 1, c)
        ELSE NoValue

InString(words, start, i, c) ==
    LET braces == {j \in i..Len(words) : words[j] \in {"{", "}"}}
        brace  == Min(braces)
    IN  IF braces = {} THEN Value(TextFrom(words, start, Len(words) + 1))
        ELSE Before(TextFrom(words, start, brace), InStringOrValue(words, brace, c))

ValueTemplate(words, c) == InString(words, 1, 1, c)

-------------------------------------------------------------------------------
(***************************************************************************)
(* The kinds of attribute values.                                          *)
(***************************************************************************)
Truths     == {"yes", "true", "1"}
Falsehoods == {"no", "false", "0"}

OneOf(kind) ==
    CASE kind = "visibility"               -> {"public", "private", "final"}
      [] kind = "visibility-with-abstract" -> {"public", "private", "final", "abstract"}
      [] kind = "visibility-with-hidden"   -> {"public", "private", "final", "hidden"}
      [] kind = "validation"    -> {"strict", "lax", "preserve", "strip"}
      [] kind = "default-validation" -> {"preserve", "strip"}
      [] kind = "phase"         -> {"start", "end"}
      [] kind = "component"     -> {"template", "function", "attribute-set", "variable",
                                    "mode", "*"}
      [] kind = "on-no-match"   -> {"deep-copy", "shallow-copy", "deep-skip",
                                    "shallow-skip", "text-only-copy", "fail"}
      [] kind = "on-multiple-match" -> {"use-last", "fail"}
      [] kind = "typed"         -> {"boolean", "strict", "lax", "unspecified"}
      [] kind = "level"         -> {"single", "multiple", "any"}
      [] kind = "standalone"    -> Truths \cup Falsehoods \cup {"omit"}
      [] kind = "use"           -> {"optional", "required", "absent"}
      [] kind = "new-each-time" -> Truths \cup Falsehoods \cup {"maybe"}
      [] kind = "boolean"       -> Truths \cup Falsehoods
      [] kind = "input-type-annotations" -> {"strip", "preserve", "unspecified"}
      [] OTHER -> {}

\* A yes or a no may be written in three ways.
Keyword(kind, word) ==
    IF kind \notin {"boolean", "standalone", "new-each-time"} THEN word
    ELSE IF word \in Truths THEN "yes" ELSE IF word \in Falsehoods THEN "no" ELSE word

IfOk(ok, value) == IF ok THEN Value(<<value>>) ELSE NoValue

OneWord(words) == Len(words) = 1

IsYes(words) == OneWord(words) /\ words[1] \in Truths

SplitWhitespace(words) == SelectSeq(words, LAMBDA w : w # " ")

ModeNamed(word, c) ==
    CASE word = "#default" -> c.mode
      [] word = "#unnamed" -> NoMode
      [] word \in {"#all", "#current"} -> <<word, "", "">>
      [] OTHER -> Name(c, word)

AllNames(words, keywords, c) == \A w \in Range(words) : w \in keywords \/ IsName(c, w)

\* Each keyword of an enumeration stands for itself; a kind that may also be a
\* name of the user's is a name, and everything else is kept as a string.
ParseValue(kind, words, c) ==
    LET single == OneWord(words)
        split  == SplitWhitespace(words)
    IN  CASE kind = "template"   -> ValueTemplate(words, c)
          [] kind = "xpath"      -> IF single /\ IsExpression(c, words[1])
                                    THEN Value(<<Expression(c, words[1])>>) ELSE NoValue
          [] kind = "pattern"    -> IF single /\ IsName(c, words[1])
                                    THEN Value(<<Expression(c, words[1])>>) ELSE NoValue
          [] kind = "eqname"     -> IF single /\ IsName(c, words[1])
                                    THEN Value(<<Name(c, words[1])>>) ELSE NoValue
          [] kind = "eqnames"    -> IF AllNames(split, {}, c)
                                    THEN Value([i \in DOMAIN split |-> Name(c, split[i])])
                                    ELSE NoValue
          [] kind = "modes"      -> IF AllNames(split, {"#default", "#all", "#unnamed"}, c)
                                    THEN Value([i \in DOMAIN split |-> ModeNamed(split[i], c)])
                                    ELSE NoValue
          [] kind = "apply-mode" -> IF /\ single
                                       /\ AllNames(words, {"#default", "#unnamed", "#current"}, c)
                                    THEN Value(<<ModeNamed(words[1], c)>>) ELSE NoValue
          [] kind = "default-mode" -> IF single /\ AllNames(words, {"#unnamed"}, c)
                                      THEN Value(<<ModeNamed(words[1], c)>>) ELSE NoValue
          [] kind \in {"method", "json-method", "data-type", "streamability"} ->
                IF single /\ IsName(c, words[1]) THEN Value(<<Name(c, words[1])>>) ELSE NoValue
          [] kind = "type"       -> IfOk(words = <<"item()">>, <<"type", "item()", "">>)
          [] kind = "decimal"    -> IF words \in {<<"1">>, <<"1.5">>}
                                    THEN Value(<<<<"decimal", words[1], "">>>>) ELSE NoValue
          [] kind = "char"       -> IF single THEN Value(TextFrom(words, 1, 2)) ELSE NoValue
          [] kind = "string"     -> Value(TextFrom(words, 1, Len(words) + 1))
          [] OTHER -> IF single /\ words[1] \in OneOf(kind)
                      THEN Value(<<<<kind, Keyword(kind, words[1]), "">>>>) ELSE NoValue

-------------------------------------------------------------------------------
(***************************************************************************)
(* The attributes of an element.                                           *)
(***************************************************************************)
Standard ==
    Of("string", {"default-collation", "exclude-result-prefixes",
                  "extension-element-prefixes", "xpath-default-namespace"})
        \cup Of("default-mode", {"default-mode"}) \cup Of("boolean", {"expand-text"})
        \cup Of("default-validation", {"default-validation"})
        \cup Of("xpath", {"use-when"}) \cup Of("decimal", {"version"})

StandardName(t, n, local) == <<IF IsXsl(t, n) THEN "" ELSE "xsl", local>>

HasAttr(t, n, name) == name \in DOMAIN t[n].attrs

\* An attribute that is there has to be well formed.
Broken(t, n, name, kind, c) ==
    HasAttr(t, n, name) /\ ~ParseValue(kind, t[n].attrs[name], c).ok

ParsedAttr(t, n, name, kind, c) == ParseValue(kind, t[n].attrs[name], c).value

StandardNames(t, n) == {StandardName(t, n, a[1]) : a \in Standard}

HasStandard(t, n, local) == HasAttr(t, n, StandardName(t, n, local))

BrokenStandard(t, n, c) == \E a \in Standard : Broken(t, n, StandardName(t, n, a[1]), a[2], c)

Flat(words) == IF words = <<>> THEN "" ELSE words[1]

\* Variant: the declarations around an element win over its own.
WithOuterPrefixes(t, n, c) == [c EXCEPT !.prefixes = @ @@ t[n].decls]

WithPrefixes(t, n, c) == [c EXCEPT !.prefixes = t[n].decls @@ @]

\* The standard attributes are read in the context of the parent, before the
\* declarations of the element itself are added to it.
WithStandard(t, n, c) ==
    LET at(local) == t[n].attrs[StandardName(t, n, local)]
    IN  [WithPrefixes(t, n, c) EXCEPT
            !.mode   = IF HasStandard(t, n, "default-mode")
                       THEN ParseValue("default-mode", at("default-mode"), c).value[1] ELSE @,
            !.expand = IF HasStandard(t, n, "expand-text") THEN IsYes(at("expand-text"))
                       ELSE @,
            !.space  = IF HasStandard(t, n, "xpath-default-namespace")
                       THEN Flat(at("xpath-default-namespace")) ELSE @]

PlainName(local) == <<"", local>>

Missing(t, n, e) == \E a \in e.required : ~HasAttr(t, n, PlainName(a[1]))

Expected(t, n, e) ==
    {PlainName(a[1]) : a \in e.required \cup e.optional}
        \cup StandardNames(t, n)

Unseen(t, n, e) == DOMAIN t[n].attrs \ Expected(t, n, e)

Values(t, n, e, c) ==
    {<<a[1], ParsedAttr(t, n, PlainName(a[1]), a[2], c)>> :
        a \in {b \in e.required \cup e.optional : HasAttr(t, n, PlainName(b[1]))}}

\* Without an attribute mode, template rules and apply-templates take the mode
\* of the context.
ModeValue(t, n, c) ==
    IF /\ t[n].name \in {XslName("template"), XslName("apply-templates")}
       /\ ~HasAttr(t, n, PlainName("mode"))
    THEN {<<"mode", <<c.mode>>>>} ELSE {}

AbstractWithSelect(t, n) ==
    /\ t[n].name = XslName("variable")
    /\ HasAttr(t, n, PlainName("select"))
    /\ HasAttr(t, n, PlainName("visibility"))
    /\ t[n].attrs[PlainName("visibility")] = <<"abstract">>

-------------------------------------------------------------------------------
(***************************************************************************)
(* A parser returns [out, items, next]; next is 0 after the last sibling.  *)
(***************************************************************************)
Ok(items, next) == [out |-> "ok", items |-> items, next |-> next]
Unexpected      == [out |-> "unexpected", items |-> <<>>, next |-> 0]
UnexpectedEnd   == [out |-> "end", items |-> <<>>, next |-> 0]
Failed          == [out |-> "error", items |-> <<>>, next |-> 0]

IsOk(r) == r.out = "ok"

RECURSIVE ParseNext(_, _, _, _)

Whole(r) == IF IsOk(r) /\ r.next # 0 THEN Unexpected ELSE r

Children(t, term, n, c) == Whole(ParseNext(t, term, FirstChild(t, n), c))

Item(t, n, values, content) ==
    Ok(<<[node |-> n, name |-> t[n].name, values |-> values, content |-> content]>>,
       NextSibling(t, n))

\* The text of xsl:text is a value template whether text is expanded or not.
ParseText(t, n, c) ==
    LET children == ChildrenOf(t, n)
        words    == IF children = <<>> THEN <<>> ELSE t[children[1]].words
        text     == ValueTemplate(words, c)
    IN  IF Len(children) > 1 \/ (children # <<>> /\ t[children[1]].kind # "text")
        THEN Unexpected
        ELSE IF text.ok THEN Ok(text.value, 0) ELSE Failed

ContentOf(t, n, e, c) ==
    CASE e.content.op = "empty"     -> Ok(<<>>, 0)
      [] e.content.op = "unchecked" -> Ok(<<>>, 0)
      [] OTHER -> Children(t, e.content, n, c)

ReadAttributes(t, n, e, c) ==
    /\ ~Missing(t, n, e)
    /\ \A a \in e.required \cup e.optional : ~Broken(t, n, PlainName(a[1]), a[2], c)

Validate(t, n, e) == ~AbstractWithSelect(t, n) /\ Unseen(t, n, e) = {}

\* An element without content is looked at first, the attributes come before
\* the content and attributes that nobody asked for are noticed last.
ParseAndValidate(t, n, e, c) ==
    LET content == ContentOf(t, n, e, c)
    IN  IF e.content.op = "empty" /\ FirstChild(t, n) # 0 THEN Unexpected
        ELSE IF ~ReadAttributes(t, n, e, c) THEN Failed
        ELSE IF ~IsOk(content) THEN content
        ELSE IF ~Validate(t, n, e) THEN Failed
        ELSE Item(t, n, Values(t, n, e, c) \cup ModeValue(t, n, c), content.items)

\* Here the content comes before the attributes.
ParseTextInstruction(t, n, e, c) ==
    LET text == ParseText(t, n, c)
    IN  IF ~IsOk(text) THEN text
        ELSE IF ~ReadAttributes(t, n, e, c) \/ ~Validate(t, n, e) THEN Failed
        ELSE Item(t, n, Values(t, n, e, c) \cup {<<"text()", text.items>>}, <<>>)

ParseElement(t, n, c) ==
    LET e == Grammar[t[n].name[2]]
    IN  IF e.content.op = "text" THEN ParseTextInstruction(t, n, e, c)
        ELSE ParseAndValidate(t, n, e, c)

\* Every attribute of a literal element that is not in the namespace of XSLT
\* is a value template.
ParseLiteral(t, n, c) ==
    LET own     == {a \in DOMAIN t[n].attrs : a[1] # "xsl"}
        content == Children(t, SequenceConstructor, n, c)
    IN  IF \E a \in own : Broken(t, n, a, "template", c) THEN Failed
        ELSE IF ~IsOk(content) THEN content
        ELSE IF ~(DOMAIN t[n].attrs \subseteq own \cup StandardNames(t, n)) THEN Failed
        ELSE Item(t, n, {<<a[2], ParsedAttr(t, n, a, "template", c)>> : a \in own},
                  content.items)

\* The standard attributes are read before the name is looked at.
ParseInstruction(t, n, c, name) ==
    IF ~IsElement(t, n) THEN Unexpected
    ELSE IF BrokenStandard(t, n, c) THEN Failed
    ELSE IF t[n].name # name THEN Unexpected
    ELSE ParseElement(t, n, WithStandard(t, n, c))

ParseTextNode(t, n, c) ==
    LET text == IF c.expand THEN ValueTemplate(t[n].words, c)
                ELSE Value(TextFrom(t[n].words, 1, Len(t[n].words) + 1))
    IN  IF text.ok THEN Item(t, n, {<<"text()", text.value>>}, <<>>) ELSE Failed

ParseConstructorItem(t, n, c) ==
    LET inner == WithStandard(t, n, c)
    IN  CASE t[n].kind = "text" -> ParseTextNode(t, n, c)
          [] ~IsElement(t, n) /\ t[n].kind # "text" -> Unexpected
          [] IsElement(t, n) /\ BrokenStandard(t, n, c) -> Failed
          [] OTHER ->
                IF ~IsXsl(t, n) THEN ParseLiteral(t, n, inner)
                ELSE IF t[n].name[2] \notin SequenceConstructorNames THEN Unexpected
                ELSE IF t[n].name[2] \notin SupportedInstructions THEN Failed
                ELSE ParseElement(t, n, inner)

ParseDeclaration(t, n, c) ==
    IF ~IsElement(t, n) THEN Unexpected
    ELSE IF BrokenStandard(t, n, c) THEN Failed
    ELSE IF ~IsXsl(t, n) \/ t[n].name[2] \notin DeclarationNames THEN Unexpected
    ELSE IF t[n].name[2] \notin SupportedDeclarations THEN Failed
    ELSE ParseElement(t, n, WithStandard(t, n, c))

ParseOverrideContent(t, n, c) ==
    IF ~IsElement(t, n) THEN Unexpected
    ELSE IF BrokenStandard(t, n, c) THEN Failed
    ELSE IF ~IsXsl(t, n) \/ t[n].name[2] \notin OverrideContentNames THEN Unexpected
    ELSE ParseElement(t, n, WithStandard(t, n, c))

OneParser(t, term, n, c) ==
    CASE n = 0 -> UnexpectedEnd
      [] n # 0 /\ term.op = "constructor" -> ParseConstructorItem(t, n, c)
      [] n # 0 /\ term.op = "declaration" -> ParseDeclaration(t, n, c)
      [] n # 0 /\ term.op = "override"    -> ParseOverrideContent(t, n, c)
      [] OTHER -> ParseInstruction(t, n, c, term.name)

\* Variant: what is not expected is skipped.
OptionSkips(t, term, n, c) ==
    LET r == ParseNext(t, term, n, c)
    IN  CASE r.out = "unexpected" -> Ok(<<>>, NextSibling(t, n))
          [] r.out = "end"        -> Ok(<<>>, 0)
          [] OTHER                -> r

OptionParser(t, term, n, c) ==
    LET r == ParseNext(t, term, n, c)
    IN  CASE r.out = "unexpected" -> Ok(<<>>, n)
          [] r.out = "end"        -> Ok(<<>>, 0)
          [] OTHER                -> r

RECURSIVE ManyParser(_, _, _, _, _)

\* The end inside of an item ends the items here too.
ManyParser(t, term, n, c, items) ==
    LET r == ParseNext(t, term, n, c)
    IN  CASE r.out = "unexpected" -> Ok(items, n)
          [] r.out = "end"        -> Ok(items, 0)
          [] r.out = "error"      -> r
          [] OTHER -> ManyParser(t, term, r.next, c, items \o r.items)

OneOrMoreParser(t, term, n, c) ==
    LET r == ManyParser(t, term, n, c, <<>>)
    IN  IF ~IsOk(r) \/ r.items # <<>> THEN r
        ELSE IF n = 0 THEN UnexpectedEnd ELSE Unexpected

CombinedParser(t, terms, n, c) ==
    FoldLeft(LAMBDA r, term :
                IF ~IsOk(r) THEN r
                ELSE LET s == ParseNext(t, term, r.next, c)
                     IN  IF IsOk(s) THEN Ok(r.items \o s.items, s.next) ELSE s,
             Ok(<<>>, n), terms)

\* Errors of the first are forgotten if the second fits.
Prefer(first, second) ==
    IF IsOk(first) \/ second.out = "unexpected" THEN first ELSE second

OrParser(t, terms, n, c) ==
    Prefer(ParseNext(t, terms[1], n, c), ParseNext(t, terms[2], n, c))

ParseNext(t, term, n, c) ==
    CASE term.op = "option"      -> OptionParser(t, term.parts[1], n, c)
      [] term.op = "many"        -> ManyParser(t, term.parts[1], n, c, <<>>)
      [] term.op = "one_or_more" -> OneOrMoreParser(t, term.parts[1], n, c)
      [] term.op = "then"        -> CombinedParser(t, term.parts, n, c)
      [] term.op = "or"          -> OrParser(t, term.parts, n, c)
      [] OTHER                   -> OneParser(t, term, n, c)

\* Nothing may follow the element of the document, comments included.
ParseTransform(t, n) ==
    Whole(OrParser(t, <<Instruction("transform"), Instruction("stylesheet")>>, n, EmptyContext))
===============================================================================
