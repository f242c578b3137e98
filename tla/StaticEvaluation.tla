----------------------------- MODULE StaticEvaluation -----------------------------
(***************************************************************************)
(* What happens to a stylesheet before it is compiled: whitespace and      *)
(* comments are stripped, the children of the stylesheet are evaluated     *)
(* statically one after the other, what use-when excludes is removed, and  *)
(* the tree that is left is parsed.                                        *)
(*                                                                         *)
(* Node 1 is the element of the document.  given are the values of static  *)
(* parameters; parse_transform gives none, the tests of the evaluator do.  *)
(***************************************************************************)
EXTENDS XsltParsing

CONSTANT Inputs  \* families of trees with the static parameters: [sources, given]

VARIABLES
    source, given,
    tree,           \* the tree as it is now
    phase,          \* "strip", "evaluate", "parse", "read" or "refused"
    at,             \* the child of the stylesheet that is evaluated next, or 0
    context,        \* the context of that child
    values,         \* static_global_variables
    removing,       \* to_remove
    result          \* the items read

vars == <<source, given, tree, phase, at, context, values, removing, result>>

-------------------------------------------------------------------------------
RECURSIVE SubtreeOf(_, _)

SubtreeOf(t, n) == {n} \cup UNION {SubtreeOf(t, c) : c \in Range(ChildrenOf(t, n))}

\* Two texts that become neighbours are merged into the first.
RemoveNode(t, n) ==
    LET before == PreviousSibling(t, n)
        after  == NextSibling(t, n)
        merged == before # 0 /\ after # 0 /\ t[before].kind = "text" /\ t[after].kind = "text"
        gone   == SubtreeOf(t, n) \cup (IF merged THEN {after} ELSE {})
        kept   == Restrict(t, DOMAIN t \ gone)
    IN  IF merged THEN [kept EXCEPT ![before].words = @ \o t[after].words] ELSE kept

RemoveAll(t, nodes) == FoldLeft(RemoveNode, t, nodes)

StripCommentPi(t, top) ==
    RemoveAll(t, InOrder({n \in SubtreeOf(t, top) : t[n].kind \in {"comment", "pi"}}))

IgnoredParents == {XslName(local) : local \in {
    "accumulator", "analyze-string", "apply-imports", "apply-templates", "attribute-set",
    "call-template", "character-map", "choose", "evaluate", "fork", "merge", "merge-source",
    "mode", "next-iteration", "next-match", "override", "package", "stylesheet",
    "transform", "use-package"}}

IgnoredBefore == {XslName(local) : local \in {"param", "sort", "context-item", "on-completion"}}
IgnoredAfter  == {XslName("catch")}

NamedIn(t, n, names) == n # 0 /\ IsElement(t, n) /\ t[n].name \in names

\* stack holds what the elements around the text say with xml:space.
IsXmlSpacePreserve(t, n, stack) ==
    LET parent == t[n].parent
    IN  IF NamedIn(t, parent, {XslName("text")}) THEN TRUE
        ELSE /\ ~NamedIn(t, parent, IgnoredParents)
             /\ ~NamedIn(t, NextSibling(t, n), IgnoredBefore)
             /\ ~NamedIn(t, PreviousSibling(t, n), IgnoredAfter)
             /\ stack # <<>> /\ Last(stack)

IsXmlWhitespace(words) == Range(words) \subseteq {" "}

\* Variant: default is not pushed.
PushPreserve(t, n, stack) ==
    IF HasAttr(t, n, XmlSpace) /\ t[n].attrs[XmlSpace] = <<"preserve">>
    THEN Append(stack, TRUE) ELSE stack

PushXmlSpace(t, n, stack) ==
    CASE ~HasAttr(t, n, XmlSpace) -> stack
      [] HasAttr(t, n, XmlSpace) /\ t[n].attrs[XmlSpace] = <<"preserve">> -> Append(stack, TRUE)
      [] HasAttr(t, n, XmlSpace) /\ t[n].attrs[XmlSpace] = <<"default">>  -> Append(stack, FALSE)
      [] OTHER -> stack

\* An element with the attribute pops, whatever it said.
PopXmlSpace(t, n, stack) ==
    IF HasAttr(t, n, XmlSpace) /\ stack # <<>> THEN Front(stack) ELSE stack

RECURSIVE Traverse(_, _, _)

\* One walk over the tree with [stack, remove].
Traverse(t, n, s) ==
    IF IsElement(t, n)
    THEN LET start == [s EXCEPT !.stack = PushXmlSpace(t, n, @)]
             below == FoldLeft(LAMBDA r, c : Traverse(t, c, r), start, ChildrenOf(t, n))
         IN  [below EXCEPT !.stack = PopXmlSpace(t, n, @)]
    ELSE IF /\ t[n].kind = "text" /\ IsXmlWhitespace(t[n].words)
            /\ ~IsXmlSpacePreserve(t, n, s.stack)
    THEN [s EXCEPT !.remove = Append(@, n)]
    ELSE s

StripWhitespace(t, top) ==
    LET bare == StripCommentPi(t, top)
    IN  RemoveAll(bare, Traverse(bare, top, [stack |-> <<>>, remove |-> <<>>]).remove)

-------------------------------------------------------------------------------
(***************************************************************************)
(* Static expressions; a value is a word, "" the empty string and "()" the *)
(* empty sequence.                                                         *)
(***************************************************************************)
StaticError    == [ok |-> FALSE, value |-> ""]
StaticValue(v) == [ok |-> TRUE, value |-> v]

EffectiveBoolean(v) == v \notin {"false", "", "()"}
Negated(v) == IF EffectiveBoolean(v) THEN "false" ELSE "true"

QName == <<"name", "q", "">>

\* A variable has to be known by name and to have a value; a step has no
\* context item.
EvaluateXPath(words, c, known) ==
    LET parsed == ParseValue("xpath", words, c)
        word   == parsed.value[1][2]
        bound  == QName \in c.variables /\ QName \in DOMAIN known
    IN  CASE ~parsed.ok \/ parsed.value[1][1] = "step" -> StaticError
          [] OTHER ->
                CASE word = "true()"   -> StaticValue("true")
                  [] word = "false()"  -> StaticValue("false")
                  [] word = "$q"       -> IF bound THEN StaticValue(known[QName]) ELSE StaticError
                  [] word = "not($q)"  -> IF bound THEN StaticValue(Negated(known[QName]))
                                          ELSE StaticError
                  [] OTHER             -> StaticValue(word)

WithStaticStandard(t, n, c) ==
    [WithPrefixes(t, n, c) EXCEPT
        !.space = IF HasStandard(t, n, "xpath-default-namespace")
                  THEN Flat(t[n].attrs[StandardName(t, n, "xpath-default-namespace")]) ELSE @]

WithVariableName(c, name) == [c EXCEPT !.variables = @ \cup {name}]

\* "true", "false" or "error"
UseWhen(t, n, c, known) ==
    LET name == StandardName(t, n, "use-when")
        r    == EvaluateXPath(t[n].attrs[name], c, known)
    IN  CASE ~HasAttr(t, n, name) -> "true"
          [] HasAttr(t, n, name) /\ ~r.ok -> "error"
          [] OTHER -> IF EffectiveBoolean(r.value) THEN "true" ELSE "false"

RECURSIVE EvaluateNode(_, _, _, _)

\* Variant: only what the last child excludes is removed.
EvaluateLastChild(t, n, c, known) ==
    FoldLeft(LAMBDA r, child :
                IF ~r.ok \/ ~IsElement(t, child) THEN r ELSE EvaluateNode(t, child, c, known),
             [ok |-> TRUE, removing |-> <<>>], ChildrenOf(t, n))

\* [ok, removing] for a node and the elements below it.
EvaluateChildren(t, n, c, known) ==
    FoldLeft(LAMBDA r, child :
                IF ~r.ok \/ ~IsElement(t, child) THEN r
                ELSE LET s == EvaluateNode(t, child, c, known)
                     IN  [ok |-> s.ok, removing |-> r.removing \o s.removing],
             [ok |-> TRUE, removing |-> <<>>], ChildrenOf(t, n))

EvaluateNode(t, n, c, known) ==
    LET inner == WithStaticStandard(t, n, c)
        when  == UseWhen(t, n, inner, known)
    IN  CASE when = "error" -> [ok |-> FALSE, removing |-> <<>>]
          [] when = "false" -> [ok |-> TRUE, removing |-> <<n>>]
          [] OTHER          -> EvaluateChildren(t, n, inner, known)

-------------------------------------------------------------------------------
\* Static variables and parameters: [ok, name, value].
Declares(t, n) == t[n].name \in {XslName("variable"), XslName("param")}

Yes(t, n, local) == HasAttr(t, n, PlainName(local)) /\ IsYes(t[n].attrs[PlainName(local)])

Wrong(t, n, local, kind, c) == Broken(t, n, PlainName(local), kind, c)

IsStatic(t, n) == Declares(t, n) /\ Yes(t, n, "static")

Undeclared == [ok |-> FALSE, name |-> QName, value |-> ""]

ParameterValue(t, n, name, c, known) ==
    IF name \in DOMAIN given THEN StaticValue(given[name])
    ELSE IF Yes(t, n, "required") THEN StaticError
    ELSE IF HasAttr(t, n, PlainName("select"))
    THEN EvaluateXPath(t[n].attrs[PlainName("select")], c, known)
    ELSE IF HasAttr(t, n, PlainName("as")) THEN StaticValue("()") ELSE StaticValue("")

VariableValue(t, n, c, known) ==
    IF HasAttr(t, n, PlainName("select"))
    THEN EvaluateXPath(t[n].attrs[PlainName("select")], c, known) ELSE StaticError

StaticDeclaration(t, n, c, known) ==
    LET name  == ParsedAttr(t, n, PlainName("name"), "eqname", c)[1]
        value == IF t[n].name = XslName("variable") THEN VariableValue(t, n, c, known)
                 ELSE ParameterValue(t, n, name, c, known)
    IN  IF \/ ~HasAttr(t, n, PlainName("name")) \/ Wrong(t, n, "name", "eqname", c)
           \/ t[n].name = XslName("param") /\ Wrong(t, n, "required", "boolean", c)
        THEN Undeclared
        ELSE [ok |-> value.ok, name |-> name, value |-> value.value]

-------------------------------------------------------------------------------
Init ==
    /\ \E input \in Inputs : source \in input.sources /\ given = input.given
    /\ tree = source
    /\ phase = "strip"
    /\ at = 0
    /\ context = EmptyContext
    /\ values = <<>>
    /\ removing = <<>>
    /\ result = <<>>

TopContext == WithStaticStandard(tree, 1, EmptyContext)

Strip ==
    /\ phase = "strip"
    /\ tree' = StripWhitespace(tree, 1)
    /\ at' = FirstChild(tree', 1)
    /\ context' = WithStaticStandard(tree', 1, EmptyContext)
    /\ phase' = "evaluate"
    /\ UNCHANGED <<source, given, values, removing, result>>

AtElement == phase = "evaluate" /\ at # 0 /\ IsElement(tree, at)

OwnContext == WithStaticStandard(tree, at, context)

\* The condition of the stylesheet is asked again for each child, before that
\* of the child.
Condition ==
    LET top == UseWhen(tree, 1, TopContext, values)
    IN  IF top = "true" THEN UseWhen(tree, at, OwnContext, values) ELSE top

Advance == at' = NextSibling(tree, at)

PassText ==
    /\ phase = "evaluate" /\ at # 0 /\ ~IsElement(tree, at)
    /\ Advance
    /\ UNCHANGED <<source, given, tree, phase, context, values, removing, result>>

Exclude ==
    /\ AtElement /\ Condition = "false"
    /\ removing' = Append(removing, at)
    /\ context' = OwnContext
    /\ Advance
    /\ UNCHANGED <<source, given, tree, phase, values, result>>

DeclareStatic ==
    /\ AtElement /\ Condition = "true" /\ IsStatic(tree, at)
    /\ LET d == StaticDeclaration(tree, at, OwnContext, values)
       IN  /\ d.ok
           /\ values' = (d.name :> d.value) @@ values
           /\ context' = WithVariableName(OwnContext, d.name)
    /\ Advance
    /\ UNCHANGED <<source, given, tree, phase, removing, result>>

\* What is below a variable or a parameter of the stylesheet is not looked at.
PassDeclaration ==
    /\ AtElement /\ Condition = "true"
    /\ Declares(tree, at) /\ ~IsStatic(tree, at)
    /\ ~Wrong(tree, at, "static", "boolean", OwnContext)
    /\ context' = OwnContext
    /\ Advance
    /\ UNCHANGED <<source, given, tree, phase, values, removing, result>>

EvaluateOther ==
    /\ AtElement /\ Condition = "true" /\ ~Declares(tree, at)
    /\ LET r == EvaluateNode(tree, at, OwnContext, values)
       IN  r.ok /\ removing' = removing \o r.removing
    /\ context' = OwnContext
    /\ Advance
    /\ UNCHANGED <<source, given, tree, phase, values, result>>

StaticFailure ==
    \/ Condition = "error"
    \/ Condition = "true" /\ Declares(tree, at) /\ Wrong(tree, at, "static", "boolean", OwnContext)
    \/ Condition = "true" /\ IsStatic(tree, at)
           /\ ~StaticDeclaration(tree, at, OwnContext, values).ok
    \/ Condition = "true" /\ ~Declares(tree, at)
           /\ ~EvaluateNode(tree, at, OwnContext, values).ok

Fail ==
    /\ AtElement /\ StaticFailure
    /\ phase' = "refused"
    /\ UNCHANGED <<source, given, tree, at, context, values, removing, result>>

UpdateTree ==
    /\ phase = "evaluate" /\ at = 0
    /\ tree' = RemoveAll(tree, removing)
    /\ phase' = "parse"
    /\ UNCHANGED <<source, given, at, context, values, removing, result>>

Parse ==
    /\ phase = "parse"
    /\ LET r == ParseTransform(tree, 1)
       IN  /\ phase' = IF IsOk(r) THEN "read" ELSE "refused"
           /\ result' = r.items
    /\ UNCHANGED <<source, given, tree, at, context, values, removing>>

Next ==
    \/ Strip \/ PassText \/ Exclude \/ DeclareStatic \/ PassDeclaration \/ EvaluateOther
    \/ Fail \/ UpdateTree \/ Parse

Spec == Init /\ [][Next]_vars
===============================================================================
