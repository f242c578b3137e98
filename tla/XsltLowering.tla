------------------------------ MODULE XsltLowering ------------------------------
(***************************************************************************)
(* From a stylesheet to the intermediate representation, with the state    *)
(* and the bindings of module Lowering.  The context of an xsl:iterate has *)
(* a fourth name, the one that tells that the loop is broken.              *)
(***************************************************************************)
EXTENDS Lowering, XsltSyntax

\* Names are unique within an expression; the variables of the stylesheet are
\* not known there.
LowerExpression(s, e) == Lower(s, UniqueNames(Parse(e)))

VariableOf(x) == <<x, 0>>

PushIterateContext(s) ==
    LET names == ContextNames(Name(s.next), s.next + 1) @@ [loop |-> Name(s.next + 3)]
    IN  [Took(s, 4) EXCEPT !.contexts = Append(@, names)]

\* A break stands in an iterate, with no other loop in between.
InIterate(s) == CurrentContext(s) # Absent /\ "loop" \in DOMAIN CurrentContext(s)

EmptyContent(s) == Bind(s, <<>>, Const(<<>>))
EmptyBranch(s)  == [s EXCEPT !.bs = EmptyContent(s).bs]

-----------------------------------------------------------------------------
(* Sequence constructors. *)

RECURSIVE LowerContent(_, _), LowerChoose(_, _, _)

LowerFrom(s, from) ==
    IF "select" \in DOMAIN from THEN LowerExpression(s, from.select)
                                ELSE LowerContent(s, from.content)

\* The value of a variable at the front is around all that follows.
LowerVariable(s, cs) ==
    LET x == VariableOf(Head(cs).name)
        value == LowerFrom(NewVarName(s, x), Head(cs).from)
        rest == LowerContent(value, Tail(cs))
    IN  Bind(rest, <<>>, [op |-> "let", name |-> value.known[x],
                          value |-> Expr(value.bs), return |-> Expr(rest.bs)])

LowerApplyTemplates(s, c) ==
    LET select == LowerExpression(s, c.select)
    IN  Bind(select, Rest(select.bs), [op |-> "apply", select |-> Atom(select.bs), mode |-> c.mode])

LowerIfContent(s, c) ==
    LET test == LowerExpression(s, c.test)
        then == LowerContent(test, c.content)
    IN  Bind(then, Rest(test.bs), If(Atom(test.bs), Expr(then.bs), Const(<<>>)))

\* What comes otherwise is translated before what comes first.
LowerChoose(s, whens, otherwise) ==
    LET test == LowerExpression(s, Head(whens).test)
        else == CASE Len(whens) > 1    -> LowerChoose(test, Tail(whens), otherwise)
                  [] otherwise # <<>>  -> LowerContent(test, otherwise[1])
                  [] OTHER             -> EmptyBranch(test)
        then == LowerContent(else, Head(whens).content)
    IN  Bind(then, Rest(test.bs), If(Atom(test.bs), Expr(then.bs), Expr(else.bs)))

LowerForEach(s, c) ==
    LET select == LowerExpression(s, c.select)
        inside == PushContext(select)
        body == PopContext(LowerContent(inside, c.content))
    IN  Bind(body, Rest(select.bs), LoopOver("map", select, CurrentContext(inside), body))

\* The name of a parameter is visible only after its value.
LowerParam(a, p) ==
    LET value == LowerFrom(a.state, p.from)
        named == NewVarName(value, VariableOf(p.name))
    IN  [state |-> named,
         params |-> Append(a.params, [name |-> named.known[VariableOf(p.name)],
                                      value |-> Expr(value.bs)])]

LowerParams(s, params) == FoldLeft(LowerParam, [state |-> s, params |-> <<>>], params)

LowerIterateCompletingOutside(s, c) ==
    LET select == LowerExpression(s, c.select)
        given == LowerParams(select, c.params)
        inside == PushIterateContext(given.state)
        names == CurrentContext(inside)
        body == LowerContent(inside, c.content)
        outside == PopContext(body)
        complete == IF c.complete = <<>> THEN outside ELSE LowerFrom(outside, c.complete[1])
    IN  Bind(complete, Rest(select.bs),
             [op |-> "iterate", params |-> given.params, loop |-> names.loop,
              seq |-> Atom(select.bs), ctx |-> names, body |-> Expr(body.bs),
              complete |-> IF c.complete = <<>> THEN <<>> ELSE <<Expr(complete.bs)>>])

LowerIterate(s, c) ==
    LET select == LowerExpression(s, c.select)
        given == LowerParams(select, c.params)
        inside == PushIterateContext(given.state)
        names == CurrentContext(inside)
        body == LowerContent(inside, c.content)
        complete == IF c.complete = <<>> THEN body ELSE LowerFrom(body, c.complete[1])
    IN  Bind(PopContext(complete), Rest(select.bs),
             [op |-> "iterate", params |-> given.params, loop |-> names.loop,
              seq |-> Atom(select.bs), ctx |-> names, body |-> Expr(body.bs),
              complete |-> IF c.complete = <<>> THEN <<>> ELSE <<Expr(complete.bs)>>])

\* The bindings of the value stay before the break, which has them once more.
LowerBreak(s, c) ==
    LET value == LowerFrom(s, c.from)
    IN  IF InIterate(s)
        THEN Bind(value, value.bs, [op |-> "break", loop |-> CurrentContext(s).loop,
                                    return |-> Expr(value.bs)])
        ELSE Refuse(s)

LowerNextIteration(s, c) ==
    LET given == LowerParams(s, c.params)
        empty == EmptyContent(given.state)
    IN  Bind(empty, empty.bs, [op |-> "next", params |-> given.params, return |-> Expr(empty.bs)])

\* A variable is dealt with where it is at the front; elsewhere it is refused.
LowerInstruction(s, c) ==
    CASE s.refused         -> s
      [] c.op = "apply"    -> LowerApplyTemplates(s, c)
      [] c.op = "sequence" -> LowerFrom(s, c.from)
      [] c.op = "if"       -> LowerIfContent(s, c)
      [] c.op = "choose"   -> LowerChoose(s, c.whens, c.otherwise)
      [] c.op = "forEach"  -> LowerForEach(s, c)
      [] c.op = "iterate"  -> LowerIterate(s, c)
      [] c.op = "break"    -> LowerBreak(s, c)
      [] c.op = "next"     -> LowerNextIteration(s, c)
      [] c.op = "variable" -> Refuse(s)

LowerNextInstruction(a, c) ==
    LET t == LowerInstruction(a.state, c)
    IN  [state |-> t, items |-> Append(a.items, Expr(t.bs))]

LowerContent(s, cs) ==
    CASE s.refused                  -> s
      [] cs = <<>>                  -> EmptyContent(s)
      [] Head(cs).op = "variable"   -> LowerVariable(s, cs)
      [] Len(cs) = 1                -> LowerInstruction(s, cs[1])
      [] OTHER ->
            LET all == FoldLeft(LowerNextInstruction, [state |-> s, items |-> <<>>], cs)
            IN  Bind(all.state, <<>>, [op |-> "sequence", items |-> all.items])

-----------------------------------------------------------------------------
(* Template rules. *)

\* A function of the item, the position and the size of the context.
InContext(context, body) ==
    [op |-> "function", params |-> <<context.item, context.position, context.last>>,
     body |-> Expr(body.bs)]

\* A state after one more function.
NextFunction(a, inside, body) ==
    [state |-> PopContext(body),
     functions |-> Append(a.functions, InContext(CurrentContext(inside), body))]

LowerTemplateContent(a, content) ==
    LET inside == PushContext(a.state) IN NextFunction(a, inside, LowerContent(inside, content))

\* The bindings of the test stay before the predicate, which has them once more.
LowerPatternPredicate(a, e) ==
    LET inside == PushContext(a.state)
        test == Took(Lower(inside, Parse(e)), 1)
        predicate == [op |-> "predicate", body |-> Expr(test.bs),
                      position |-> CurrentContext(inside).position]
    IN  NextFunction(a, inside, Bind(test, test.bs, predicate))

\* The default priority in halves, of a path and of a pattern.  A union is not
\* one rule but several, which is not supported: it has none.
PathPriority(path) ==
    LET steps == path.steps
        kinds == {"*", "node()", "element()", "document-node()"}
    IN  CASE path.root = "slash" /\ steps = <<>>             -> -1
          [] path.root # "relative" \/ Len(steps) # 1        -> 1
          [] steps[1].preds # <<>>                           -> 1
          [] OTHER -> IF steps[1].test \in kinds THEN -1 ELSE 0

DefaultPriority(pattern) ==
    CASE pattern.op = "predicates"          -> <<IF pattern.preds = <<>> THEN -2 ELSE 2>>
      [] Last(pattern.links).how = "Union"  -> <<>>
      [] \E i \in DOMAIN pattern.links : pattern.links[i].how = "Union" -> <<1>>
      [] OTHER                              -> <<PathPriority(pattern.links[1].path)>>

LowerTemplate(a, t) ==
    LET priority == IF t.priority # <<>> THEN t.priority ELSE DefaultPriority(t.pattern)
        start == [state |-> a.state, functions |-> <<>>]
        content == LowerTemplateContent(start, t.content)
        all == FoldLeft(LowerPatternPredicate, content, t.tests)
    IN  IF priority = <<>> THEN [a EXCEPT !.state = Refuse(@)]
        ELSE [state |-> all.state,
              rules |-> Append(a.rules, [pattern |-> t.pattern, modes |-> t.modes,
                                         priority |-> priority[1],
                                         body |-> Head(all.functions), preds |-> Tail(all.functions)])]

LowerStylesheet(templates) ==
    LET start == [next |-> 0, known |-> << >>, contexts |-> <<>>, refused |-> FALSE, bs |-> <<>>]
        main == LowerTemplateContent([state |-> start, functions |-> <<>>], MainContent)
        all == FoldLeft(LowerTemplate, [state |-> main.state, rules |-> <<>>],
                        DefaultTemplates \o templates)
    IN  IF all.state.refused THEN [refused |-> TRUE]
        ELSE [refused |-> FALSE, rules |-> all.rules, main |-> main.functions[1]]
===============================================================================
