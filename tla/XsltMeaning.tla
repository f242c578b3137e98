------------------------------- MODULE XsltMeaning -------------------------------
(***************************************************************************)
(* What a stylesheet means: which nodes a pattern matches, by going down   *)
(* its paths from the top; which rule is run on an item; and the value of  *)
(* a sequence constructor, by recursion on its instructions.               *)
(*                                                                         *)
(* The meaning of instructions is [val, set]: the value, and what was      *)
(* assigned for the rest of the xsl:iterate around them, its parameters or *)
(* that the loop is broken.  The one machine limit it knows is how deep    *)
(* template rules nest: one too many fails.                                *)
(*                                                                         *)
(* In two points the meaning follows the code where XSLT differs: an item  *)
(* that no rule of the mode matches gives nothing, in every mode but the   *)
(* one that has the default templates; and a union in a pattern and a      *)
(* variable behind other instructions are not supported.                   *)
(***************************************************************************)
EXTENDS XPathMeaning, XsltSyntax

Assigns(v, set) == [val |-> v, set |-> set]
Is(v) == Assigns(v, << >>)
Fails == Is(Failed)

Focus(item, position, last) ==
    [item |-> <<item>>, position |-> <<Integer(position)>>, last |-> <<Integer(last)>>]

-----------------------------------------------------------------------------
(* Patterns.  A predicate that fails does not hold.                        *)

TestHolds(test, item, position, last) ==
    Selects(Value(test, [vars |-> << >>, context |-> Focus(item, position, last)]), position) = TRUE

Satisfying(items, test) ==
    LET holds == {i \in DOMAIN items : TestHolds(test, items[i], i, Len(items))}
        kept  == SetToSortSeq(holds, LAMBDA i, j : i < j)
    IN  [k \in DOMAIN kept |-> items[kept[k]]]

\* The nodes to which a step leads from the node n.
Reached(step, tests, n) ==
    NodesOf(FoldLeft(LAMBDA items, pred : Satisfying(items, tests[pred]),
                     ResolveStep(step.axis, step.test, n), step.preds))

\* A node without a parent counts as a child for the first step.
AtTop(step, tests) ==
    {n \in Nodes : /\ Up(n) = {} /\ step.axis \in {"child", "descendant"}
                   /\ NodeTest(step.test, n)
                   /\ \A i \in DOMAIN step.preds : TestHolds(tests[step.preds[i]], NodeItem(n), 1, 1)}

FromTop(path, tests) ==
    LET tops == {n \in Nodes : Up(n) = {}}
        origin == IF path.root = "slash" THEN tops ELSE Nodes
        Further(nodes, step) == UNION {Reached(step, tests, n) : n \in nodes}
        first == IF path.root = "relative" THEN AtTop(path.steps[1], tests) ELSE {}
    IN  IF path.steps = <<>> THEN origin
        ELSE FoldLeft(Further, Further(origin, path.steps[1]) \cup first, Tail(path.steps))

Combined(nodes, how, others) ==
    CASE how \in {"First", "Union"} -> nodes \cup others
      [] how = "Intersect"          -> nodes \cap others
      [] how = "Except"             -> nodes \ others

Matches(t, item) ==
    IF t.pattern.op = "predicates"
    THEN \A i \in DOMAIN t.tests : TestHolds(t.tests[i], item, 1, 1)
    ELSE /\ IsNode(item)
         /\ item.node \in FoldLeft(LAMBDA nodes, link :
                              Combined(nodes, link.how, FromTop(link.path, t.tests)),
                              {}, t.pattern.links)

\* How much a pattern without a priority of its own says, in halves.
Specificity(pattern) ==
    LET path == pattern.links[1].path
        one  == path.root = "relative" /\ Len(path.steps) = 1 /\ path.steps[1].preds = <<>>
    IN  CASE pattern.op = "predicates" -> IF pattern.preds = <<>> THEN -2 ELSE 2
          [] path.root = "slash" /\ path.steps = <<>> -> -1
          [] one /\ path.steps[1].test \in {"*", "node()", "element()", "document-node()"} -> -1
          [] one   -> 0
          [] OTHER -> 1

PriorityOf(t) == IF t.priority # <<>> THEN t.priority[1] ELSE Specificity(t.pattern)

\* The rule of the highest priority, of these the last one; 0 if there is none.
BestRule(templates, item, mode) ==
    LET matching == {i \in DOMAIN templates :
                        templates[i].modes \cap {mode, "#all"} # {} /\ Matches(templates[i], item)}
        best == {i \in matching : \A j \in matching : PriorityOf(templates[i]) >= PriorityOf(templates[j])}
    IN  Max({0} \cup best)

-----------------------------------------------------------------------------
(* Sequence constructors.  world is [templates, depth].                    *)

RECURSIVE ContentValue(_, _, _), Applied(_, _, _, _), Rounds(_, _, _, _, _, _), WithParams(_, _, _)

FromValue(from, scope, world) ==
    IF "select" \in DOMAIN from THEN Value(from.select, scope)
                                ELSE ContentValue(from.content, scope, world).val

\* Template rules applied to the i-th of the items.
Applied(items, i, mode, world) ==
    LET rule == BestRule(world.templates, items[i], mode)
        scope == At([vars |-> << >>, context |-> NoContext], items, i)
    IN  CASE rule = 0        -> <<>>
          [] world.depth = 0 -> Failed
          [] OTHER -> ContentValue(world.templates[rule].content, scope,
                                   [world EXCEPT !.depth = @ - 1]).val

\* The values of parameters; each sees those before it.
WithParams(scope, params, world) ==
    IF params = <<>> THEN scope
    ELSE WithParams(With(scope, params[1].name, FromValue(params[1].from, scope, world)), Tail(params), world)

\* The rounds of an iterate from the i-th on.  inner is the scope with the
\* parameters as they are, outer the one around the loop.
Rounds(c, items, i, inner, outer, world) ==
    LET round == ContentValue(c.content, At(inner, items, i), world)
        rest  == Rounds(c, items, i + 1, [inner EXCEPT !.vars = round.set @@ @], outer, world)
    IN  CASE i > Len(items) -> IF c.complete = <<>> THEN <<>> ELSE FromValue(c.complete[1], inner, world)
          [] round.val = Failed                -> Failed
          [] "#broken" \in DOMAIN round.set    -> round.val
          [] rest = Failed                     -> Failed
          [] OTHER                             -> round.val \o rest

ChosenContent(c, scope) ==
    LET truth == [i \in DOMAIN c.whens |-> Truth(Value(c.whens[i].test, scope))]
        taken == {i \in DOMAIN truth : truth[i] = Failed \/ truth[i] = TRUE}
    IN  CASE taken = {} -> IF c.otherwise = <<>> THEN <<>> ELSE c.otherwise[1]
          [] truth[Min(taken)] = Failed -> Failed
          [] OTHER -> c.whens[Min(taken)].content

InstructionValue(c, scope, world) ==
    CASE c.op = "sequence" -> Is(FromValue(c.from, scope, world))
      [] c.op = "apply"    ->
            LET items == Value(c.select, scope)
            IN  IF items = Failed THEN Fails
                ELSE Is(Together([i \in DOMAIN items |-> Applied(items, i, c.mode, world)]))
      [] c.op = "if"       ->
            LET truth == Truth(Value(c.test, scope))
            IN  CASE truth = Failed -> Fails
                  [] truth          -> ContentValue(c.content, scope, world)
                  [] OTHER          -> Is(<<>>)
      [] c.op = "choose"   ->
            LET content == ChosenContent(c, scope)
            IN  IF content = Failed THEN Fails ELSE ContentValue(content, scope, world)
      [] c.op = "forEach"  ->
            LET items == Value(c.select, scope)
                values == [i \in DOMAIN items |-> ContentValue(c.content, At(scope, items, i), world).val]
            IN  IF items = Failed THEN Fails ELSE Is(Together(values))
      [] c.op = "iterate"  ->
            LET items == Value(c.select, scope)
                inner == WithParams(scope, c.params, world)
            IN  IF items = Failed \/ \E i \in DOMAIN c.params : inner.vars[c.params[i].name] = Failed
                THEN Fails ELSE Is(Rounds(c, items, 1, inner, scope, world))
      [] c.op = "break"    -> Assigns(FromValue(c.from, scope, world), "#broken" :> <<>>)
      [] c.op = "next"     ->
            LET values == [i \in DOMAIN c.params |-> FromValue(c.params[i].from, scope, world)]
            IN  IF \E i \in DOMAIN values : values[i] = Failed THEN Fails
                ELSE Assigns(<<>>, Bound([i \in DOMAIN c.params |-> c.params[i].name], values))

ContentValue(cs, scope, world) ==
    CASE cs = <<>> -> Is(<<>>)
      [] Head(cs).op = "variable" ->
            LET v == FromValue(Head(cs).from, scope, world)
            IN  IF v = Failed THEN Fails ELSE ContentValue(Tail(cs), With(scope, Head(cs).name, v), world)
      [] OTHER ->
            LET first == InstructionValue(Head(cs), scope, world)
                rest  == ContentValue(Tail(cs), scope, world)
            IN  IF first.val = Failed THEN Fails
                ELSE Assigns(Together(<<first.val, rest.val>>), rest.set @@ first.set)

-----------------------------------------------------------------------------
(* What is refused.                                                        *)

RECURSIVE WellFormed(_, _, _, _)

\* Every name is bound where it is used, in the order of the instructions; the
\* context is used where there is one; a break is in an iterate and in no loop
\* inside of it; a variable comes before all that is no variable.
WellFormedFrom(from, vars, context, iterating) ==
    IF "select" \in DOMAIN from THEN WellScoped(from.select, vars, context)
                                ELSE WellFormed(from.content, vars, context, iterating)

NamesOf(params) == {params[i].name : i \in DOMAIN params}

WellFormedInstruction(c, vars, context, iterating) ==
    LET Expression(e) == WellScoped(e, vars, context)
        Content(cs)   == WellFormed(cs, vars, context, iterating)
    IN  CASE c.op = "sequence" -> WellFormedFrom(c.from, vars, context, iterating)
          [] c.op = "apply"    -> Expression(c.select)
          [] c.op = "if"       -> Expression(c.test) /\ Content(c.content)
          [] c.op = "choose"   ->
                /\ \A i \in DOMAIN c.whens : Expression(c.whens[i].test) /\ Content(c.whens[i].content)
                /\ \A i \in DOMAIN c.otherwise : Content(c.otherwise[i])
          [] c.op = "forEach"  -> Expression(c.select) /\ WellFormed(c.content, vars, TRUE, FALSE)
          [] c.op = "iterate"  ->
                /\ Expression(c.select)
                /\ \A i \in DOMAIN c.params :
                      WellFormedFrom(c.params[i].from, vars \cup NamesOf(SubSeq(c.params, 1, i - 1)),
                                     context, iterating)
                /\ WellFormed(c.content, vars \cup NamesOf(c.params), TRUE, TRUE)
                /\ \A i \in DOMAIN c.complete :
                      WellFormedFrom(c.complete[i], vars \cup NamesOf(c.params), FALSE, TRUE)
          [] c.op = "break"    -> iterating /\ WellFormedFrom(c.from, vars, context, iterating)
          [] c.op = "next"     ->
                \A i \in DOMAIN c.params : WellFormedFrom(c.params[i].from, vars, context, iterating)
          [] c.op = "variable" -> FALSE

WellFormed(cs, vars, context, iterating) ==
    CASE cs = <<>> -> TRUE
      [] Head(cs).op = "variable" ->
            /\ WellFormedFrom(Head(cs).from, vars, context, iterating)
            /\ WellFormed(Tail(cs), vars \cup {Head(cs).name}, context, iterating)
      [] OTHER -> \A i \in DOMAIN cs : WellFormedInstruction(cs[i], vars, context, iterating)

WellFormedTemplate(t) ==
    /\ \A i \in DOMAIN t.tests : WellScoped(t.tests[i], {}, TRUE)
    /\ WellFormed(t.content, {}, TRUE, FALSE)
    /\ t.priority = <<>> /\ t.pattern.op = "paths" => Last(t.pattern.links).how # "Union"

-----------------------------------------------------------------------------

\* A transformation of the document, which is the first node.
MeaningOfStylesheet(templates, limit) ==
    Applied(<<NodeItem(1)>>, 1, "unnamed",
            [templates |-> DefaultTemplates \o templates, depth |-> limit - 1])
===============================================================================
