------------------------------- MODULE XsltGrammar -------------------------------
(***************************************************************************)
(* The elements of XSLT: the attributes each may have, with the kind of    *)
(* their values, and its content.                                          *)
(*                                                                         *)
(* An attribute here is a pair of a local name and a kind.  A content is a *)
(* term [op, name, parts] over the combinators of combinator.rs.  What an  *)
(* absent attribute defaults to is left out, except the mode.              *)
(***************************************************************************)
EXTENDS Naturals, Sequences, FiniteSets, TLC

Of(kind, names) == {<<name, kind>> : name \in names}

Term(op, name, parts) == [op |-> op, name |-> name, parts |-> parts]

InXsl(local)    == <<"xsl", local>>
Instruction(local) == Term("instruction", InXsl(local), <<>>)
Option(term)    == Term("option", <<>>, <<term>>)
Many(term)      == Term("many", <<>>, <<term>>)
OneOrMore(term) == Term("one_or_more", <<>>, <<term>>)
Then(terms)     == Term("then", <<>>, terms)
Or(terms)       == Term("or", <<>>, terms)

SequenceConstructor == Many(Term("constructor", <<>>, <<>>))
Declarations        == Many(Term("declaration", <<>>, <<>>))
OverrideContent     == Many(Term("override", <<>>, <<>>))
Empty     == Term("empty", <<>>, <<>>)      \* should_be_empty
OneText   == Term("text", <<>>, <<>>)
Unchecked == Term("unchecked", <<>>, <<>>)  \* children are not looked at

Element(required, optional, content) ==
    [required |-> required, optional |-> optional, content |-> content]

Params == Many(Instruction("param"))
Sorts  == Many(Instruction("sort"))
Fallbacks  == Many(Instruction("fallback"))
WithParams == Many(Instruction("with-param"))

-------------------------------------------------------------------------------
Accept == Element(Of("component", {"component"}) \cup Of("string", {"names"})
                      \cup Of("visibility-with-hidden", {"visibility"}), {}, Empty)

Accumulator == Element(Of("eqname", {"name"}) \cup Of("xpath", {"initial-value"}),
                       Of("type", {"as"}) \cup Of("boolean", {"streamable"}),
                       Many(Instruction("accumulator-rule")))

AccumulatorRule == Element(Of("pattern", {"match"}),
                           Of("phase", {"phase"}) \cup Of("xpath", {"select"}),
                           SequenceConstructor)

AnalyzeString == Element(Of("xpath", {"select"}) \cup Of("template", {"regex"}),
                         Of("template", {"flags"}),
                         Then(<<Option(Instruction("matching-substring")),
                                Option(Instruction("non-matching-substring")), Fallbacks>>))

ApplyImports == Element({}, {}, WithParams)

ApplyTemplates == Element({}, Of("apply-mode", {"mode"}) \cup Of("xpath", {"select"}),
                          Many(Or(<<Instruction("with-param"), Instruction("sort")>>)))

AssertInstruction ==
    Element(Of("xpath", {"test"}),
                  Of("xpath", {"select"}) \cup Of("template", {"error-code"}),
                  SequenceConstructor)

Attribute == Element(Of("template", {"name"}),
                     Of("template", {"namespace", "separator"}) \cup Of("xpath", {"select"})
                         \cup Of("eqname", {"type"}) \cup Of("validation", {"validation"}),
                     SequenceConstructor)

AttributeSet == Element(Of("eqname", {"name"}),
                        Of("eqnames", {"use-attribute-sets"}) \cup Of("boolean", {"streamable"})
                            \cup Of("visibility-with-abstract", {"visibility"}),
                        Many(Instruction("attribute")))

Break == Element({}, Of("xpath", {"select"}), SequenceConstructor)

CallTemplate == Element(Of("eqname", {"name"}), {}, WithParams)

Catch == Element({}, Of("string", {"errors"}) \cup Of("xpath", {"select"}), SequenceConstructor)

CharacterMap == Element(Of("eqname", {"name"}), Of("eqnames", {"use-character-maps"}),
                        Many(Instruction("output-character")))

Choose == Element({}, {}, Then(<<OneOrMore(Instruction("when")),
                                 Option(Instruction("otherwise"))>>))

Comment == Element({}, Of("xpath", {"select"}), SequenceConstructor)

ContextItem == Element({}, Of("type", {"as"}) \cup Of("use", {"use"}), Empty)

Copy == Element({}, Of("xpath", {"select"}) \cup Of("eqnames", {"use-attribute-sets"})
                        \cup Of("boolean", {"copy-namespaces", "inherit-namespaces"})
                        \cup Of("eqname", {"type"}) \cup Of("validation", {"validation"}),
                SequenceConstructor)

CopyOf == Element(Of("xpath", {"select"}),
                  Of("boolean", {"copy-accumulators", "copy-namespaces"})
                      \cup Of("eqname", {"type"}) \cup Of("validation", {"validation"}),
                  Empty)

DecimalFormat == Element({}, Of("eqname", {"name"}) \cup Of("string", {"infinity", "NaN"})
                                 \cup Of("char", {"decimal-separator", "grouping-separator",
                                             "minus-sign", "exponent-separator", "percent",
                                             "per-mille", "zero-digit", "digit",
                                             "pattern-separator"}),
                         Empty)

Document == Element({}, Of("validation", {"validation"}) \cup Of("eqname", {"type"}),
                    SequenceConstructor)

ElementInstruction ==
    Element(Of("template", {"name"}),
            Of("template", {"namespace"}) \cup Of("boolean", {"inherit-namespaces"})
                \cup Of("eqnames", {"use-attribute-sets"})
                \cup Of("eqname", {"type"}) \cup Of("validation", {"validation"}),
            SequenceConstructor)

Evaluate == Element(Of("xpath", {"xpath"}),
                    Of("type", {"as"}) \cup Of("template", {"base-uri", "schema-aware"})
                        \cup Of("xpath", {"with-params", "context-item", "namespace-context"}),
                    Many(Or(<<Instruction("with-param"), Instruction("fallback")>>)))

Expose == Element(Of("component", {"component"}) \cup Of("string", {"names"})
                      \cup Of("visibility-with-abstract", {"visibility"}), {}, Empty)

Fallback == Element({}, {}, SequenceConstructor)

ForEach == Element(Of("xpath", {"select"}), {}, Then(<<Sorts, SequenceConstructor>>))

ForEachGroup ==
    Element(Of("xpath", {"select"}),
            Of("xpath", {"group-by", "group-adjacent"})
                \cup Of("pattern", {"group-starting-with", "group-ending-with"})
                \cup Of("boolean", {"composite"}) \cup Of("template", {"collation"}),
            Then(<<Sorts, SequenceConstructor>>))

\* The alternative that may be empty comes second.
Fork == Element({}, {},
                Then(<<Fallbacks,
                       Or(<<Then(<<Instruction("for-each-group"), Fallbacks>>),
                            Many(Then(<<Instruction("sequence"), Fallbacks>>))>>)>>))

Function == Element(Of("eqname", {"name"}),
                    Of("type", {"as"}) \cup Of("visibility-with-abstract", {"visibility"})
                        \cup Of("streamability", {"streamability"})
                        \cup Of("new-each-time", {"new-each-time"})
                        \cup Of("boolean", {"override-extension-function", "override", "cache"}),
                    Then(<<Params, SequenceConstructor>>))

GlobalContextItem == Element({}, Of("type", {"as"}) \cup Of("use", {"use"}), Empty)

If == Element(Of("xpath", {"test"}), {}, SequenceConstructor)

Import == Element(Of("string", {"href"}), {}, Empty)

ImportSchema == Element({}, Of("string", {"namespace", "schema-location"}), Unchecked)

Include == Element(Of("string", {"href"}), {}, Empty)

Iterate == Element(Of("xpath", {"select"}), {},
                   Then(<<Params, Option(Instruction("on-completion")), SequenceConstructor>>))

Key == Element(Of("eqname", {"name"}) \cup Of("pattern", {"match"}),
               Of("xpath", {"use"}) \cup Of("boolean", {"composite"})
                   \cup Of("string", {"collation"}),
               SequenceConstructor)

Map == Element({}, {}, SequenceConstructor)

MapEntry == Element(Of("xpath", {"key"}), Of("xpath", {"select"}), SequenceConstructor)

MatchingSubstring == Element({}, {}, SequenceConstructor)

Merge == Element({}, {}, Then(<<OneOrMore(Instruction("merge-source")),
                                Instruction("merge-action"), Fallbacks>>))

MergeAction == Element({}, {}, SequenceConstructor)

\* The attribute lang of the specification is named language.
MergeKey == Element({}, Of("xpath", {"select"})
                            \cup Of("template", {"language", "order", "collation",
                                                 "case-order", "data-type"}),
                    SequenceConstructor)

MergeSource ==
    Element(Of("xpath", {"select"}),
            Of("string", {"name", "use-accumulators"})
                \cup Of("xpath", {"for-each-item", "for-each-source"})
                \cup Of("boolean", {"streamable", "sort-before-merge"})
                \cup Of("validation", {"validation"}) \cup Of("eqname", {"type"}),
            OneOrMore(Instruction("merge-key")))

Message == Element({}, Of("xpath", {"select"}) \cup Of("template", {"terminate", "error-code"}),
                   SequenceConstructor)

Mode == Element({}, Of("eqname", {"name"}) \cup Of("string", {"use-accumulators"})
                        \cup Of("boolean", {"streamable", "warning-on-no-match",
                                            "warning-on-multiple-match"})
                        \cup Of("on-no-match", {"on-no-match"})
                        \cup Of("on-multiple-match", {"on-multiple-match"})
                        \cup Of("typed", {"typed"}) \cup Of("visibility", {"visibility"}),
                Empty)

Namespace == Element(Of("template", {"name"}), Of("xpath", {"select"}), SequenceConstructor)

NamespaceAlias == Element(Of("string", {"stylesheet-prefix", "result-prefix"}), {}, Empty)

NextIteration == Element({}, {}, WithParams)

NextMatch == Element({}, {}, Many(Or(<<Instruction("with-param"), Instruction("fallback")>>)))

NonMatchingSubstring == Element({}, {}, SequenceConstructor)

Number == Element({}, Of("xpath", {"value", "select"}) \cup Of("level", {"level"})
                          \cup Of("pattern", {"count", "from"})
                          \cup Of("template", {"format", "language", "letter-value", "ordinal",
                                               "start-at", "grouping-separator",
                                               "grouping-size"}),
                  Empty)

OnCompletion == Element({}, Of("xpath", {"select"}), SequenceConstructor)
OnEmpty      == Element({}, Of("xpath", {"select"}), SequenceConstructor)
OnNonEmpty   == Element({}, Of("xpath", {"select"}), SequenceConstructor)
Otherwise    == Element({}, {}, SequenceConstructor)

Output ==
    Element({}, Of("eqname", {"name"}) \cup Of("method", {"method"})
                    \cup Of("boolean", {"allow-duplicate-names", "build-tree",
                                        "byte-order-mark", "escape-uri-attributes",
                                        "include-content-type", "indent",
                                        "omit-xml-declaration", "undeclare-prefixes"})
                    \cup Of("eqnames", {"cdata-section-elements", "suppress-indentation",
                                        "use-character-maps"})
                    \cup Of("string", {"doctype-public", "doctype-system", "encoding",
                                       "item-separator", "media-type", "normalization-form",
                                       "parameter-document", "version"})
                    \cup Of("decimal", {"html-version"})
                    \cup Of("json-method", {"json-node-output-method"})
                    \cup Of("standalone", {"standalone"}),
            Empty)

OutputCharacter == Element(Of("char", {"character"}) \cup Of("string", {"string"}), {}, Empty)

Override == Element({}, {}, OverrideContent)

Param == Element(Of("eqname", {"name"}),
                 Of("xpath", {"select"}) \cup Of("type", {"as"})
                     \cup Of("boolean", {"required", "tunnel", "static"}),
                 SequenceConstructor)

PreserveSpace == Element(Of("string", {"elements"}), {}, Empty)

ProcessingInstruction ==
    Element(Of("template", {"name"}), Of("xpath", {"select"}), SequenceConstructor)

SequenceInstruction == Element({}, Of("xpath", {"select"}), SequenceConstructor)

Sort == Element({}, Of("xpath", {"select"})
                        \cup Of("template", {"language", "order", "collation", "stable",
                                             "case-order", "data-type"}),
                SequenceConstructor)

SourceDocument ==
    Element(Of("template", {"href"}),
            Of("boolean", {"streamable"}) \cup Of("string", {"use-accumulators"})
                \cup Of("validation", {"validation"}) \cup Of("eqname", {"type"}),
            SequenceConstructor)

StripSpace == Element(Of("string", {"elements"}), {}, Empty)

\* The name of the context item is looked up in no namespace.
Template ==
    Element({}, Of("pattern", {"match"}) \cup Of("eqname", {"name"})
                    \cup Of("decimal", {"priority"}) \cup Of("modes", {"mode"})
                    \cup Of("type", {"as"}) \cup Of("visibility-with-abstract", {"visibility"}),
            Then(<<Option(Term("instruction", <<"", "context-item">>, <<>>)), Params,
                   SequenceConstructor>>))

TextInstruction == Element({}, Of("boolean", {"disable-output-escaping"}), OneText)

Transform == Element({}, Of("string", {"id", "extension-element-prefixes"})
                             \cup Of("input-type-annotations", {"input-type-annotations"}),
                     Declarations)

ValueOf == Element({}, Of("xpath", {"select"}) \cup Of("template", {"separator"})
                           \cup Of("boolean", {"disable-output-escaping"}),
                   SequenceConstructor)

Variable == Element(Of("eqname", {"name"}),
                    Of("xpath", {"select"}) \cup Of("type", {"as"}) \cup Of("boolean", {"static"})
                        \cup Of("visibility-with-abstract", {"visibility"}),
                    SequenceConstructor)

When == Element(Of("xpath", {"test"}), {}, SequenceConstructor)

WherePopulated == Element({}, {}, SequenceConstructor)

WithParam == Element(Of("eqname", {"name"}),
                     Of("xpath", {"select"}) \cup Of("type", {"as"})
                         \cup Of("boolean", {"tunnel"}),
                     SequenceConstructor)

-------------------------------------------------------------------------------
\* What a child of a sequence constructor, a transform or an override may be.
SequenceConstructorNames == {
    "analyze-string", "apply-imports", "apply-templates", "assert", "attribute", "break",
    "call-template", "choose", "comment", "copy", "copy-of", "document", "element",
    "evaluate", "fallback", "for-each", "for-each-group", "fork", "if", "iterate", "map",
    "map-entry", "merge", "message", "namespace", "next-iteration", "next-match", "number",
    "on-empty", "on-non-empty", "perform-sort", "processing-instruction",
    "result-document", "sequence", "source-document", "text", "try", "value-of",
    "variable", "where-populated"}

SupportedInstructions ==
    SequenceConstructorNames \ {"perform-sort", "result-document", "try"}

DeclarationNames == {
    "accumulator", "character-map", "decimal-format", "function", "global-context-item",
    "import", "import-schema", "include", "key", "mode", "namespace-alias", "output",
    "param", "preserve-space", "strip-space", "template", "use-package", "variable"}

SupportedDeclarations == {"accumulator", "template", "output"}

OverrideContentNames == {"template", "function", "variable", "param", "attribute-set"}

Grammar ==
    "accept" :> Accept @@ "accumulator" :> Accumulator @@ "accumulator-rule" :> AccumulatorRule
 @@ "analyze-string" :> AnalyzeString @@ "apply-imports" :> ApplyImports
 @@ "apply-templates" :> ApplyTemplates @@ "assert" :> AssertInstruction @@ "attribute" :> Attribute
 @@ "attribute-set" :> AttributeSet @@ "break" :> Break @@ "call-template" :> CallTemplate
 @@ "catch" :> Catch @@ "character-map" :> CharacterMap @@ "choose" :> Choose
 @@ "comment" :> Comment @@ "context-item" :> ContextItem @@ "copy" :> Copy
 @@ "copy-of" :> CopyOf @@ "decimal-format" :> DecimalFormat @@ "document" :> Document
 @@ "element" :> ElementInstruction @@ "evaluate" :> Evaluate @@ "expose" :> Expose
 @@ "fallback" :> Fallback @@ "for-each" :> ForEach @@ "for-each-group" :> ForEachGroup
 @@ "fork" :> Fork @@ "function" :> Function @@ "global-context-item" :> GlobalContextItem
 @@ "if" :> If @@ "import" :> Import @@ "import-schema" :> ImportSchema
 @@ "include" :> Include @@ "iterate" :> Iterate @@ "key" :> Key @@ "map" :> Map
 @@ "map-entry" :> MapEntry @@ "matching-substring" :> MatchingSubstring @@ "merge" :> Merge
 @@ "merge-action" :> MergeAction @@ "merge-key" :> MergeKey @@ "merge-source" :> MergeSource
 @@ "message" :> Message @@ "mode" :> Mode @@ "namespace" :> Namespace
 @@ "namespace-alias" :> NamespaceAlias @@ "next-iteration" :> NextIteration
 @@ "next-match" :> NextMatch @@ "non-matching-substring" :> NonMatchingSubstring
 @@ "number" :> Number @@ "on-completion" :> OnCompletion @@ "on-empty" :> OnEmpty
 @@ "on-non-empty" :> OnNonEmpty @@ "otherwise" :> Otherwise @@ "output" :> Output
 @@ "output-character" :> OutputCharacter @@ "override" :> Override @@ "param" :> Param
 @@ "preserve-space" :> PreserveSpace @@ "processing-instruction" :> ProcessingInstruction
 @@ "sequence" :> SequenceInstruction @@ "sort" :> Sort @@ "source-document" :> SourceDocument
 @@ "strip-space" :> StripSpace @@ "stylesheet" :> Transform @@ "template" :> Template
 @@ "text" :> TextInstruction @@ "transform" :> Transform @@ "value-of" :> ValueOf
 @@ "variable" :> Variable @@ "when" :> When @@ "where-populated" :> WherePopulated
 @@ "with-param" :> WithParam
===============================================================================
