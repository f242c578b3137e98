------------------------------ MODULE XPathSyntax ------------------------------
(***************************************************************************)
(* Expressions of XPath and what the parser makes of them.                 *)
(*                                                                         *)
(* An expression is [op, arg, parts]: its kind, what is said about it, and *)
(* the expressions in it.  A chain of steps, of predicates and argument    *)
(* lists, of `!` or of signs is nested from the left as the code folds it. *)
(*                                                                         *)
(*   literal arg: a value       varref arg: a name        dot              *)
(*   paren: any number          call arg: a function      hole: a `?`      *)
(*   ref arg: a function        apply: the function, then the arguments    *)
(*   inline arg: [params, wrapper], the body              arrow            *)
(*   filter: a value and a predicate      step arg: [axis, test]           *)
(*   slash: `/` alone, or at the start of a path                           *)
(*   path, descend (`//`), bang (`!`): two        if: three                *)
(*   binary arg: the operator   unary arg: the sign                        *)
(*   let, for, some, every arg: the variable; its value and the rest       *)
(*                                                                         *)
(* Strings, maps, arrays, lookups, casts and sequence types are left out.  *)
(***************************************************************************)
EXTENDS Values

X(op, arg, parts) == [op |-> op, arg |-> arg, parts |-> parts]

Holes(args) == {i \in DOMAIN args : args[i].op = "hole"}

\* The functions there are, with their arities.
KnownFunctions ==
    {<<"position", 0>>, <<"last", 0>>, <<"error", 0>>, <<"forEach", 2>>, <<"root", 1>>}

-----------------------------------------------------------------------------
(* What the grammar leaves out of the tree: placeholders, arrows, `//`.    *)

PlaceholderNames == <<"placeholder0", "placeholder1", "placeholder2">>

\* The number of the placeholder that argument i is.
PlaceholderIndex(args, i) == Cardinality({k \in Holes(args) : k <= i})

\* The arguments with variables for placeholders.
PlaceholderArguments(args) ==
    [i \in DOMAIN args |->
        IF i \in Holes(args)
        THEN X("varref", PlaceholderNames[PlaceholderIndex(args, i)], <<>>)
        ELSE args[i]]

\* A function of the placeholders around a call.
Wrapper(call, n) ==
    X("inline", [params |-> SubSeq(PlaceholderNames, 1, n), wrapper |-> TRUE], <<call>>)

PlaceholderWrapper(args, call) ==
    IF Holes(args) = {} THEN call ELSE Wrapper(call, Cardinality(Holes(args)))

StaticFunctionCall(name, args) ==
    PlaceholderWrapper(args, X("call", name, PlaceholderArguments(args)))

ArgumentListPostfix(function, args) ==
    PlaceholderWrapper(args, X("apply", "", <<function>> \o PlaceholderArguments(args)))

\* Only the function is wrapped, the placeholders stay arguments of the call.
DynamicFunctionCall(function, args) ==
    X("apply", "", <<PlaceholderWrapper(args, function)>> \o PlaceholderArguments(args))

\* An arrow puts its left operand, the first part, before the arguments; when
\* the function has no name it is the second part.
Arrow(name, parts) ==
    IF name # ""
    THEN StaticFunctionCall(name, parts)
    ELSE DynamicFunctionCall(parts[2], <<parts[1]>> \o SubSeq(parts, 3, Len(parts)))

AnyDescendant == X("step", [axis |-> "descendant-or-self", test |-> "node()"], <<>>)
RootStep == X("call", "root", <<X("step", [axis |-> "self", test |-> "node()"], <<>>)>>)

RECURSIVE Parse(_)

Parse(e) ==
    LET parts == [i \in DOMAIN e.parts |-> Parse(e.parts[i])]
    IN  CASE e.op = "call"    -> StaticFunctionCall(e.arg, parts)
          [] e.op = "apply"   -> ArgumentListPostfix(parts[1], Tail(parts))
          [] e.op = "arrow"   -> Arrow(e.arg, parts)
          [] e.op = "slash"   -> RootStep
          [] e.op = "descend" -> X("path", "", <<X("path", "", <<parts[1], AnyDescendant>>),
                                                 parts[2]>>)
          [] OTHER            -> [e EXCEPT !.parts = parts]

-----------------------------------------------------------------------------
(* Names of variables are made unique: one walk over the tree, with the    *)
(* names in scope and all names given so far.  The k-th name given for x   *)
(* is x with k asterisks, here <<x, k>>.                                   *)
(*                                                                         *)
(* A state is [taken, scope, tree]: the names given, the pairs of an old   *)
(* and a new name in scope, and the tree visited last.                     *)

Generate(taken, x) == <<x, CHOOSE k \in 0..Cardinality(taken) :
                              <<x, k>> \notin taken /\ \A j \in 0..(k - 1) : <<x, j>> \in taken>>

PushVariableName(r, x) ==
    LET new == Generate(r.taken, x)
    IN  [r EXCEPT !.taken = @ \cup {new}, !.scope = Append(@, [old |-> x, new |-> new])]

PopVariables(r, n) == [r EXCEPT !.scope = SubSeq(@, 1, Len(@) - n)]

\* A reference gets the innermost name, or one that nothing else has.
VisitVarRef(r, e) ==
    LET found == {i \in DOMAIN r.scope : r.scope[i].old = e.arg}
        bogus == Generate(r.taken, e.arg)
    IN  IF found # {}
        THEN [r EXCEPT !.tree = [e EXCEPT !.arg = r.scope[Max(found)].new]]
        ELSE [r EXCEPT !.taken = @ \cup {bogus}, !.tree = [e EXCEPT !.arg = bogus]]

RECURSIVE Visit(_, _)

VisitNext(r, e) ==
    LET t == Visit(r, e) IN [t EXCEPT !.tree = Append(r.tree, @)]

VisitParts(r, e) ==
    LET t == FoldLeft(VisitNext, [r EXCEPT !.tree = <<>>], e.parts)
    IN  [t EXCEPT !.tree = [e EXCEPT !.parts = t.tree]]

VisitBindingAtOnce(r, e) ==
    LET inside == PushVariableName(r, e.arg)
        value  == Visit(inside, e.parts[1])
        rest   == Visit(value, e.parts[2])
        name   == Last(inside.scope).new
    IN  [PopVariables(rest, 1) EXCEPT !.tree = X(e.op, name, <<value.tree, rest.tree>>)]

\* The variable is not visible in its own value.
VisitBinding(r, e) ==
    LET value  == Visit(r, e.parts[1])
        inside == PushVariableName(value, e.arg)
        rest   == Visit(inside, e.parts[2])
        name   == Last(inside.scope).new
    IN  [PopVariables(rest, 1) EXCEPT !.tree = X(e.op, name, <<value.tree, rest.tree>>)]

VisitInlineFunction(r, e) ==
    LET n == Len(e.arg.params)
        inside == FoldLeft(PushVariableName, r, e.arg.params)
        names == [i \in 1..n |-> inside.scope[Len(r.scope) + i].new]
        body == Visit(inside, e.parts[1])
    IN  [PopVariables(body, n) EXCEPT
            !.tree = X("inline", [e.arg EXCEPT !.params = names], <<body.tree>>)]

Visit(r, e) ==
    CASE e.op = "varref" -> VisitVarRef(r, e)
      [] e.op \in {"let", "for", "some", "every"} -> VisitBinding(r, e)
      [] e.op = "inline" -> VisitInlineFunction(r, e)
      [] OTHER           -> VisitParts(r, e)

UniqueNames(e) == Visit([taken |-> {}, scope |-> <<>>, tree |-> <<>>], e).tree
===============================================================================
