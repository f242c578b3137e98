-------------------------------- MODULE Lowering --------------------------------
(***************************************************************************)
(* From the syntax tree, in which names are unique, to the intermediate    *)
(* representation that FunctionCompiler compiles.                          *)
(*                                                                         *)
(* An expression becomes bindings: a sequence of named expressions each of *)
(* which may use the ones before it.  The value of the last is the value   *)
(* of the whole.  A state is [next, known, contexts, refused, bs]: the     *)
(* number of the next new name, the names of the variables met so far, the *)
(* contexts around the expression, whether an error was found, and the     *)
(* bindings of the expression lowered last.                                *)
(***************************************************************************)
EXTENDS XPathSyntax, TLC

-----------------------------------------------------------------------------
(* Names and contexts. *)

Name(n) == <<"v", n>>
Took(s, n) == [s EXCEPT !.next = @ + n]

\* A variable keeps the name it got first.
NewVarName(s, x) ==
    IF x \in DOMAIN s.known THEN s
    ELSE [Took(s, 1) EXCEPT !.known = x :> Name(s.next) @@ @]

Absent == [absent |-> TRUE]
ContextNames(item, n) == [item |-> item, position |-> Name(n), last |-> Name(n + 1)]

PushContext(s) ==
    [Took(s, 3) EXCEPT !.contexts = Append(@, ContextNames(Name(s.next), s.next + 1))]
PushAbsentContext(s) == [s EXCEPT !.contexts = Append(@, Absent)]
PopContext(s) == [s EXCEPT !.contexts = Front(@)]

CurrentContext(s) == IF s.contexts = <<>> THEN Absent ELSE Last(s.contexts)

-----------------------------------------------------------------------------
(* Bindings. *)

Const(v) == [op |-> "const", const |-> v]
Var(x) == [op |-> "var", name |-> x]

IsAtom(e) == e.op \in {"const", "var", "static"}

\* The last binding as an operand, and the bindings that are left.
Atom(bs) == IF IsAtom(Last(bs).expr) THEN Last(bs).expr ELSE Var(Last(bs).name)
Rest(bs) == IF IsAtom(Last(bs).expr) THEN Front(bs) ELSE bs

Around(b, e) == [op |-> "let", name |-> b.name, value |-> b.expr, return |-> e]
Expr(bs) == FoldRight(Around, Front(bs), Last(bs).expr)

Bind(s, bs, e) ==
    [Took(s, 1) EXCEPT !.bs = Append(bs, [name |-> Name(s.next), expr |-> e])]

Only(s, e) == [s EXCEPT !.bs = <<[name |-> e.name, expr |-> e]>>]

\* An error ends the whole; what follows is of no account.
Refuse(s) == [Bind(s, <<>>, Const(<<>>)) EXCEPT !.refused = TRUE]

VarRef(s, x) == IF x \in DOMAIN s.known THEN Only(s, Var(s.known[x])) ELSE Refuse(s)

ContextName(s, which) ==
    IF CurrentContext(s) = Absent THEN Refuse(s)
    ELSE Only(s, Var(CurrentContext(s)[which]))

\* The reference keeps the names of the context; only position needs one.
StaticFunctionRef(s, function, arity) ==
    LET context == CurrentContext(s)
        position == IF context = Absent THEN Absent ELSE context.position
    IN  IF <<function, arity>> \notin KnownFunctions
           \/ (function = "position" /\ context = Absent)
        THEN Refuse(s)
        ELSE Bind(s, <<>>, [op |-> "static", function |-> function, position |-> position])

-----------------------------------------------------------------------------
(* Expressions. *)

RECURSIVE Lower(_, _)

\* Operands one after the other: their bindings together, and their atoms.
NextArg(a, e) ==
    LET t == Lower(a.state, e)
    IN  [state |-> t, bs |-> a.bs \o Rest(t.bs), atoms |-> Append(a.atoms, Atom(t.bs))]

Args(s, es) == FoldLeft(NextArg, [state |-> s, bs |-> <<>>, atoms |-> <<>>], es)

\* Operands each with its own bindings inside.
NextWhole(a, e) ==
    LET t == Lower(a.state, e)
    IN  [state |-> t, items |-> Append(a.items, Expr(t.bs))]

Items(s, es) == FoldLeft(NextWhole, [state |-> s, items |-> <<>>], es)

LowerExprs(s, es) ==
    LET all == Items(s, es)
    IN  CASE es = <<>>   -> Bind(s, <<>>, Const(<<>>))
          [] Len(es) = 1 -> Lower(s, es[1])
          [] OTHER -> Bind(all.state, <<>>, [op |-> "sequence", items |-> all.items])

\* The value of `left`, item by item, as the context of e.
LoopOver(op, left, ctx, body) == [op |-> op, seq |-> Atom(left.bs), ctx |-> ctx, body |-> Expr(body.bs)]

InEach(left, op, e) ==
    LET inside == PushContext(left)
        body == PopContext(Lower(inside, e))
        loop == LoopOver(IF op = "filter" THEN "filter" ELSE "map", left, CurrentContext(inside), body)
    IN  Bind(body, Rest(left.bs),
             IF op = "path" THEN [op |-> "deduplicate", steps |-> loop] ELSE loop)

WithPredicate(s, e) == InEach(s, "filter", e)

LowerStep(s, e) ==
    LET item == ContextName(s, "item")
        step == [op |-> "step", context |-> Atom(item.bs), step |-> e.arg]
    IN  FoldLeft(WithPredicate, Bind(item, <<>>, step), e.parts)

Operation(how, l, r) == [op |-> "binary", how |-> how, left |-> l, right |-> r]
If(c, t, f) == [op |-> "if", cond |-> c, then |-> t, else |-> f]

LowerOperator(s, e) ==
    LET all == Args(s, e.parts)
    IN  Bind(all.state, all.bs, Operation(e.arg, all.atoms[1], all.atoms[2]))

LowerLogicalHoisted(s, e) ==
    LET all == Args(s, e.parts)
        True  == Const(<<Boolean(TRUE)>>)
        False == Const(<<Boolean(FALSE)>>)
        other == If(all.atoms[2], True, False)
    IN  Bind(all.state, all.bs,
             IF e.arg = "And" THEN If(all.atoms[1], other, False)
                              ELSE If(all.atoms[1], True, other))

\* and, or: the right operand is evaluated only in the branch that needs it.
LowerLogical(s, e) ==
    LET left  == Lower(s, e.parts[1])
        right == Lower(left, e.parts[2])
        True  == Const(<<Boolean(TRUE)>>)
        False == Const(<<Boolean(FALSE)>>)
        test  == Bind(right, Rest(right.bs), If(Atom(right.bs), True, False))
        other == Expr(test.bs)
    IN  Bind(test, Rest(left.bs),
             IF e.arg = "And" THEN If(Atom(left.bs), other, False)
                              ELSE If(Atom(left.bs), True, other))

\* The operands of a chain of such operators, which nests to the left.  An
\* operand in parentheses is no part of the chain.
RECURSIVE Chain(_, _)
Chain(e, hows) ==
    LET left == e.parts[1]
        link == [how |-> e.arg, operand |-> e.parts[2]]
    IN  IF left.op = "binary" /\ left.arg \in hows
        THEN Append(Chain(left, hows), link)
        ELSE <<[how |-> "first", operand |-> left], link>>

OperandsOf(chain, hows) ==
    LET links == SelectSeq(chain, LAMBDA link : link.how \in hows)
    IN  [i \in DOMAIN links |-> links[i].operand]

LowerNodeSet(s, how, operands) ==
    LET all == Items(s, operands)
    IN  IF Len(operands) = 1 THEN Lower(s, operands[1])
        ELSE Bind(all.state, <<>>, [op |-> "nodeset", how |-> how, operands |-> all.items])

LowerUnion(s, e) ==
    LowerNodeSet(s, "Union", OperandsOf(Chain(e, {"Union"}), {"first", "Union"}))

\* The intersection of all that is kept, except the union of all that is removed.
LowerIntersectExcept(s, e) ==
    LET chain == Chain(e, {"Intersect", "Except"})
        kept == LowerNodeSet(s, "Intersect", OperandsOf(chain, {"first", "Intersect"}))
        out  == OperandsOf(chain, {"Except"})
        removed == LowerNodeSet(kept, "Union", out)
    IN  IF out = <<>> THEN kept
        ELSE Bind(removed, Rest(kept.bs) \o Rest(removed.bs),
                  Operation("Except", Atom(kept.bs), Atom(removed.bs)))

LowerBinary(s, e) ==
    CASE e.arg \in {"And", "Or"}           -> LowerLogical(s, e)
      [] e.arg = "Union"                   -> LowerUnion(s, e)
      [] e.arg \in {"Intersect", "Except"} -> LowerIntersectExcept(s, e)
      [] OTHER                             -> LowerOperator(s, e)

LowerUnary(s, e) ==
    LET t == Lower(s, e.parts[1])
    IN  Bind(t, Rest(t.bs), [op |-> "unary", how |-> e.arg, operand |-> Atom(t.bs)])

LowerIf(s, e) ==
    LET test == Lower(s, e.parts[1])
        then == Lower(test, e.parts[2])
        else == Lower(then, e.parts[3])
    IN  Bind(else, Rest(test.bs), If(Atom(test.bs), Expr(then.bs), Expr(else.bs)))

LowerLet(s, e) ==
    LET value == Lower(NewVarName(s, e.arg), e.parts[1])
        rest  == Lower(value, e.parts[2])
    IN  Bind(rest, <<>>, [op |-> "let", name |-> value.known[e.arg],
                          value |-> Expr(value.bs), return |-> Expr(rest.bs)])

\* for, some, every: the variable stands where a context has its item, but the
\* context around stays the context inside.
LowerFor(s, e) ==
    LET value == Lower(NewVarName(s, e.arg), e.parts[1])
        ctx   == ContextNames(value.known[e.arg], value.next)
        body  == Lower(Took(value, 2), e.parts[2])
    IN  Bind(body, Rest(value.bs),
             LoopOver(IF e.op = "for" THEN "map" ELSE e.op, value, ctx, body))

\* A function has no context, except the one made of a call with placeholders.
LowerInlineFunction(s, e) ==
    LET named == FoldLeft(NewVarName, s, e.arg.params)
        params == [i \in DOMAIN e.arg.params |-> named.known[e.arg.params[i]]]
        body == IF e.arg.wrapper THEN Lower(named, e.parts[1])
                ELSE PopContext(Lower(PushAbsentContext(named), e.parts[1]))
    IN  Bind(body, <<>>, [op |-> "function", params |-> params, body |-> Expr(body.bs)])

LowerCall(s, function, es) ==
    LET all == Args(function, es)
    IN  Bind(all.state, Rest(function.bs) \o all.bs,
             [op |-> "call", function |-> Atom(function.bs), args |-> all.atoms])

LowerFunctionCall(s, e) ==
    CASE e.arg \in {"position", "last"} /\ e.parts = <<>> -> ContextName(s, e.arg)
      [] OTHER -> LowerCall(s, StaticFunctionRef(s, e.arg, Len(e.parts)), e.parts)

Lower(s, e) ==
    CASE s.refused         -> s
      [] e.op = "literal"  -> Bind(s, <<>>, Const(e.arg))
      [] e.op = "varref"   -> VarRef(s, e.arg)
      [] e.op = "dot"      -> ContextName(s, "item")
      [] e.op = "paren"    -> LowerExprs(s, e.parts)
      [] e.op = "call"     -> LowerFunctionCall(s, e)
      [] e.op = "ref"      -> StaticFunctionRef(s, e.arg[1], e.arg[2])
      [] e.op = "apply"    -> LowerCall(s, Lower(s, e.parts[1]), Tail(e.parts))
      [] e.op = "inline"   -> LowerInlineFunction(s, e)
      [] e.op = "step"     -> LowerStep(s, e)
      [] e.op \in {"filter", "path", "bang"} -> InEach(Lower(s, e.parts[1]), e.op, e.parts[2])
      [] e.op = "binary"   -> LowerBinary(s, e)
      [] e.op = "unary"    -> LowerUnary(s, e)
      [] e.op = "if"       -> LowerIf(s, e)
      [] e.op = "let"      -> LowerLet(s, e)
      [] e.op \in {"for", "some", "every"} -> LowerFor(s, e)

-----------------------------------------------------------------------------

\* The main function takes the item, the position and the size of the context.
LowerXPath(e) ==
    LET start == [next |-> 0, known |-> << >>, contexts |-> <<>>, refused |-> FALSE, bs |-> <<>>]
        inside == PushContext(start)
        body == Lower(inside, e)
        ctx == CurrentContext(inside)
    IN  IF body.refused THEN [refused |-> TRUE]
        ELSE [refused |-> FALSE,
              main |-> [op |-> "function", params |-> <<ctx.item, ctx.position, ctx.last>>,
                        body |-> Expr(body.bs)]]
===============================================================================
