------------------------------ MODULE XPathMeaning ------------------------------
(***************************************************************************)
(* What an expression means, by recursion on the expression as it was      *)
(* written: names are looked up in the scope they are in, a placeholder    *)
(* makes a function of what is left open, and there is no renaming, no     *)
(* binding, no slot and no jump.                                           *)
(*                                                                         *)
(* A scope is [vars, context]: the values of the variables, and the item,  *)
(* position and size or no context.  Of the choices that XPath leaves to a *)
(* processor the meaning takes the ones of this code: `and` and `or` look  *)
(* at the left operand first and at the right one only if they must, all   *)
(* other operands are evaluated, and a call with placeholders fails when   *)
(* the function that it made is called.                                    *)
(***************************************************************************)
EXTENDS XPathSyntax, TLC

NoContext == [item |-> <<>>, position |-> <<>>, last |-> <<>>]

\* The values one after the other, if none of them failed.
Together(vs) ==
    IF \E i \in DOMAIN vs : vs[i] = Failed THEN Failed ELSE FlattenSeq(vs)

Truth(v) == IF v = Failed THEN Failed ELSE EffectiveBoolean(v)

\* Whether the predicate value v selects the item at that position: a number
\* is a position, any other value is a condition.
Selects(v, position) ==
    IF v # Failed /\ OneInt(v) THEN v[1].int = position ELSE Truth(v)

\* The items for which the predicate holds.
Selected(items, tests) ==
    Together([i \in DOMAIN items |->
        CASE tests[i] = Failed -> Failed
          [] tests[i]          -> <<items[i]>>
          [] OTHER             -> <<>>])

\* Some or every item: the first one that decides or fails is the last one
\* looked at.
Quantified(some, tests) ==
    LET decisive == {i \in DOMAIN tests : tests[i] = Failed \/ tests[i] = some}
    IN  CASE decisive = {}                 -> <<Boolean(~ some)>>
          [] tests[Min(decisive)] = Failed -> Failed
          [] OTHER                         -> <<Boolean(some)>>

Bound(params, args) ==
    [x \in ToSet(params) |-> args[CHOOSE i \in DOMAIN params : params[i] = x]]

\* What stands for an argument that is left open.
Open == <<[open |-> TRUE]>>

\* How many arguments a function item takes.
Takes(f) ==
    CASE "lambda" \in DOMAIN f  -> Len(f.lambda.arg.params)
      [] "partial" \in DOMAIN f -> Cardinality({i \in DOMAIN f.given : f.given[i] = Open})
      [] OTHER -> [position |-> 0, error |-> 0, forEach |-> 2, root |-> 1][f.static]

\* The arguments of a call with placeholders, which are filled in order.
Filled(given, args) ==
    [i \in DOMAIN given |->
        IF given[i] = Open
        THEN args[Cardinality({k \in 1..i : given[k] = Open})]
        ELSE given[i]]

RECURSIVE Value(_, _), CallItem(_, _)

\* One function called with values; Failed if it is no function.
Called(f, args) ==
    IF f = Failed \/ \E i \in DOMAIN args : args[i] = Failed THEN Failed
    ELSE IF ~ OneFunction(f) THEN Failed
    ELSE IF Takes(f[1]) # Len(args) THEN Failed ELSE CallItem(f[1], args)

CallItem(f, args) ==
    CASE "lambda" \in DOMAIN f ->
            Value(f.lambda.parts[1],
                  [vars |-> Bound(f.lambda.arg.params, args) @@ f.vars, context |-> NoContext])
      [] "partial" \in DOMAIN f -> Called(f.partial, Filled(f.given, args))
      [] f.static = "position"  -> f.position
      [] f.static = "error"     -> Failed
      [] f.static = "root"      -> RootOf(args[1])
      [] f.static = "forEach"   ->
            IF OneFunction(args[2]) /\ Takes(args[2][1]) = 1
            THEN Together([i \in DOMAIN args[1] |-> CallItem(args[2][1], <<<<args[1][i]>>>>)])
            ELSE Failed

\* A call, or the function that a call with placeholders is.
CallOf(f, args, scope) ==
    LET given == [i \in DOMAIN args |->
                     IF args[i].op = "hole" THEN Open ELSE Value(args[i], scope)]
    IN  IF Holes(args) = {} THEN Called(f, given)
        ELSE <<[partial |-> f, given |-> given]>>

Static(function, scope) ==
    <<[static |-> function, position |-> scope.context.position]>>

At(scope, items, i) ==
    [scope EXCEPT !.context = [item |-> <<items[i]>>, position |-> <<Integer(i)>>,
                               last |-> <<Integer(Len(items))>>]]

With(scope, x, v) == [scope EXCEPT !.vars = x :> v @@ @]

\* The values of e with each of the items as the context, or as the variable x.
InContextEach(e, items, scope) == [i \in DOMAIN items |-> Value(e, At(scope, items, i))]
InVariableEach(e, x, items, scope) ==
    [i \in DOMAIN items |-> Value(e, With(scope, x, <<items[i]>>))]

Filtered(items, e, scope) ==
    IF items = Failed THEN Failed
    ELSE LET values == InContextEach(e, items, scope)
         IN  Selected(items, [i \in DOMAIN items |-> Selects(values[i], i)])

\* Predicates count along the axis; the nodes that are left are in document order.
StepValue(e, scope) ==
    LET start == scope.context.item
        along == ResolveStep(e.arg.axis, e.arg.test, start[1].node)
        left == FoldLeft(LAMBDA items, test : Filtered(items, test, scope), along, e.parts)
    IN  CASE ~ OneNode(start) -> Failed
          [] left = Failed    -> Failed
          [] OTHER            -> Deduplicate(left)

OperatorValue(how, v, w) ==
    IF v = Failed \/ w = Failed THEN Failed ELSE Apply(how, v, w)

\* The left operand decides if it can.
LogicalValue(e, scope) ==
    LET decides == e.arg = "Or"
        left == Truth(Value(e.parts[1], scope))
        right == Truth(Value(e.parts[2], scope))
    IN  CASE left = Failed  -> Failed
          [] left = decides -> <<Boolean(decides)>>
          [] right = Failed -> Failed
          [] OTHER          -> <<Boolean(right)>>

EachValue(e, scope) ==
    LET left == Value(e.parts[1], scope)
        values == InContextEach(e.parts[2], left, scope)
        whole == Together(values)
    IN  CASE left = Failed \/ whole = Failed -> Failed
          [] e.op = "bang"                   -> whole
          [] OTHER                           -> Deduplicate(whole)

LoopValue(e, scope) ==
    LET items == Value(e.parts[1], scope)
        values == InVariableEach(e.parts[2], e.arg, items, scope)
    IN  CASE items = Failed -> Failed
          [] e.op = "for"   -> Together(values)
          [] OTHER          -> Quantified(e.op = "some", [i \in DOMAIN values |-> Truth(values[i])])

UnaryValue(how, v) ==
    CASE v = Failed \/ Negated(v) = Failed -> Failed
      [] how = "Minus" -> Negated(v)
      [] OTHER         -> v

Value(e, scope) ==
    LET Part(i) == Value(e.parts[i], scope)
    IN
    CASE e.op = "literal" -> e.arg
      [] e.op = "varref"  -> scope.vars[e.arg]
      [] e.op = "dot"     -> scope.context.item
      [] e.op = "slash"   -> IF OneNode(scope.context.item) THEN RootOf(scope.context.item)
                                                            ELSE Failed
      [] e.op = "paren"   -> Together([i \in DOMAIN e.parts |-> Part(i)])
      [] e.op = "call" /\ e.arg \in {"position", "last"} -> scope.context[e.arg]
      [] e.op = "call"    -> CallOf(Static(e.arg, scope), e.parts, scope)
      [] e.op = "ref"     -> Static(e.arg[1], scope)
      [] e.op = "apply"   -> CallOf(Part(1), Tail(e.parts), scope)
      [] e.op = "arrow" /\ e.arg = "" ->
            CallOf(Part(2), <<e.parts[1]>> \o SubSeq(e.parts, 3, Len(e.parts)), scope)
      [] e.op = "arrow"   -> CallOf(Static(e.arg, scope), e.parts, scope)
      [] e.op = "inline"  -> <<[lambda |-> e, vars |-> scope.vars]>>
      [] e.op = "step"    -> StepValue(e, scope)
      [] e.op = "filter"  -> Filtered(Part(1), e.parts[2], scope)
      [] e.op \in {"path", "bang"} -> EachValue(e, scope)
      [] e.op = "descend" ->
            EachValue(X("path", "", <<X("path", "", <<e.parts[1], AnyDescendant>>), e.parts[2]>>),
                      scope)
      [] e.op = "binary" /\ e.arg \in {"And", "Or"} -> LogicalValue(e, scope)
      [] e.op = "binary"  -> OperatorValue(e.arg, Part(1), Part(2))
      [] e.op = "unary"   -> UnaryValue(e.arg, Part(1))
      [] e.op = "if"      ->
            LET test == Truth(Part(1))
            IN  IF test = Failed THEN Failed ELSE Part(IF test THEN 2 ELSE 3)
      [] e.op = "let"     ->
            LET v == Part(1)
            IN  IF v = Failed THEN Failed ELSE Value(e.parts[2], With(scope, e.arg, v))
      [] e.op \in {"for", "some", "every"} -> LoopValue(e, scope)

-----------------------------------------------------------------------------

\* Every name is bound around its use, every function exists, and the context
\* is used where there is one.
RECURSIVE WellScoped(_, _, _)

WellScoped(e, vars, context) ==
    LET Parts(is) == \A i \in is : WellScoped(e.parts[i], vars, context)
        arity == <<e.arg, Len(e.parts)>>
        binds == e.op \in {"let", "for", "some", "every"}
    IN  /\ e.op = "varref" => e.arg \in vars
        /\ e.op \in {"dot", "step", "slash"} => context
        /\ e.op = "call" \/ (e.op = "arrow" /\ e.arg # "") =>
              /\ arity \in KnownFunctions
              /\ e.arg \in {"position", "last"} => context
        /\ e.op = "ref" => /\ e.arg \in KnownFunctions
                           /\ e.arg[1] = "position" => context
        /\ CASE binds -> /\ WellScoped(e.parts[1], vars, context)
                         /\ WellScoped(e.parts[2], vars \cup {e.arg}, context)
             [] e.op = "inline" ->
                   WellScoped(e.parts[1], vars \cup ToSet(e.arg.params), FALSE)
             [] e.op \in {"path", "bang", "filter", "descend"} ->
                   /\ WellScoped(e.parts[1], vars, context)
                   /\ WellScoped(e.parts[2], vars, TRUE)
             [] e.op = "step" -> \A i \in DOMAIN e.parts : WellScoped(e.parts[i], vars, TRUE)
             [] OTHER -> Parts(DOMAIN e.parts)

MeaningOfXPath(e, item) ==
    Value(e, [vars |-> << >>, context |-> At([context |-> NoContext], <<item>>, 1).context])
===============================================================================
