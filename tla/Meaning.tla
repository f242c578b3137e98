-------------------------------- MODULE Meaning --------------------------------
(***************************************************************************)
(* What a program of the intermediate representation means, by recursion   *)
(* on its expressions: no stack, no slots, no jumps.  An expression has a  *)
(* value in an environment of named values, and `set` holds what it        *)
(* assigns: the parameters of the iterate around it, or that it is broken. *)
(*                                                                         *)
(* The one machine limit that the meaning knows is how deep calls nest: a  *)
(* call fails when as many functions as the limit are open already.        *)
(* Steps and template rules are the matter of XPathMeaning and XsltMeaning.*)
(***************************************************************************)
EXTENDS Values, SequencesExt, TLC

Assigns(v, set) == [val |-> v, set |-> set]
Is(v) == Assigns(v, << >>)

Fails == Is(Failed)

\* The values one after the other, if none of them failed.
Together(vs) ==
    IF \E i \in DOMAIN vs : vs[i] = Failed THEN Failed ELSE FlattenSeq(vs)

\* Parameter i takes argument i.
Bind(params, args) ==
    [x \in ToSet(params) |-> args[CHOOSE i \in DOMAIN params : params[i] = x]]

InContext(ctx, items, i) ==
       ctx.item :> <<items[i]>>
    @@ ctx.position :> <<Integer(i)>>
    @@ ctx.last :> <<Integer(Len(items))>>

\* Where a predicate gives a number, the position decides.
Positional(v, position) ==
    IF v # Failed /\ OneInt(v) THEN Eq(v, position) ELSE v

Test(v) == IF v = Failed THEN Failed ELSE EffectiveBoolean(v)

\* How many arguments a function item takes.
Takes(item) ==
    IF "lambda" \in DOMAIN item THEN Len(item.lambda.params)
                                ELSE [position |-> 0, error |-> 0, forEach |-> 2][item.static]

RECURSIVE Eval(_, _, _, _), CallItem(_, _, _, _), Repeat(_, _, _, _, _)

\* A function item called with argument values.
CallItem(item, args, limit, depth) ==
    LET each == [i \in DOMAIN args[1] |->
                    CallItem(args[2][1], <<<<args[1][i]>>>>, limit, depth)]
    IN  CASE "lambda" \in DOMAIN item ->
                IF Len(args) # Len(item.lambda.params) \/ depth >= limit
                THEN Failed
                ELSE Eval(item.lambda.body, Bind(item.lambda.params, args) @@ item.env,
                          limit, depth + 1).val
          [] item.static = "position" -> IF args = <<>> THEN item.vars[1] ELSE Failed
          [] item.static = "forEach" /\ Len(args) = 2 ->
                IF OneFunction(args[2]) /\ Takes(args[2][1]) = 1
                THEN Together(each) ELSE Failed
          [] OTHER -> Failed

\* Some or every item: the first item that decides or fails is the last one
\* looked at.
Decide(some, tests) ==
    LET decisive == {i \in DOMAIN tests : tests[i] = Failed \/ tests[i] = some}
        first == CHOOSE i \in decisive : \A j \in decisive : i <= j
    IN  CASE decisive = {}            -> <<Boolean(~ some)>>
          [] tests[first] = Failed    -> Failed
          [] OTHER                    -> <<Boolean(some)>>

\* The rounds of an iterate from the i-th on, with the parameters' values.
Repeat(e, items, i, params, around) ==
    LET env == params @@ around.env
        round == Eval(e.body, InContext(e.ctx, items, i) @@ env, around.limit, around.depth)
        rest == Repeat(e, items, i + 1, round.set @@ params, around)
        complete == [k \in DOMAIN e.complete |->
                        Eval(e.complete[k], env, around.limit, around.depth).val]
    IN  CASE i > Len(items)             -> Together(complete)
          [] round.val = Failed         -> Failed
          [] e.loop \in DOMAIN round.set -> round.val
          [] rest = Failed              -> Failed
          [] OTHER                      -> round.val \o rest

Eval(e, env, limit, depth) ==
    LET Value(x) == Eval(x, env, limit, depth).val
        Items == Value(e.seq)
        InItem(i) == Eval(e.body, InContext(e.ctx, Items, i) @@ env, limit, depth).val
        Bodies == [i \in DOMAIN Items |-> InItem(i)]
    IN
    CASE e.op = "const"  -> Is(e.const)
      [] e.op = "var"    -> Is(env[e.name])
      [] e.op = "static" ->
            Is(<<[static |-> e.function,
                  vars |-> IF e.function = "position" THEN <<env[e.position]>> ELSE <<>>]>>)
      [] e.op = "let" ->
            LET v == Value(e.value)
            IN  IF v = Failed THEN Fails
                ELSE Eval(e.return, e.name :> v @@ env, limit, depth)
      [] e.op = "if" ->
            LET test == Test(Value(e.cond))
            IN  IF test = Failed THEN Fails
                ELSE Eval(IF test THEN e.then ELSE e.else, env, limit, depth)
      [] e.op = "binary" /\ e.how \in Operators ->
            Is(Apply(e.how, Value(e.left), Value(e.right)))
      [] e.op = "binary" ->
            LET decides == (e.how = "Or")
                right == Test(Value(e.right))
                left == Test(Value(e.left))
            IN  CASE right = decides -> Is(<<Boolean(decides)>>)
                  [] right = Failed \/ left = Failed -> Fails
                  [] OTHER -> Is(<<Boolean(left)>>)
      [] e.op = "function" -> Is(<<[lambda |-> e, env |-> env]>>)
      [] e.op = "call" ->
            LET f == Value(e.function)
            IN  IF OneFunction(f)
                THEN Is(CallItem(f[1], [i \in DOMAIN e.args |-> Value(e.args[i])],
                                 limit, depth))
                ELSE Fails
      [] e.op = "sequence" ->
            LET parts == [i \in DOMAIN e.items |-> Eval(e.items[i], env, limit, depth)]
            IN  Assigns(Together([i \in DOMAIN parts |-> parts[i].val]),
                        IF parts = <<>> THEN << >> ELSE Last(parts).set)
      [] e.op = "map" -> Is(Together(Bodies))
      [] e.op = "filter" ->
            LET tests == [i \in DOMAIN Items |->
                              Test(Positional(Bodies[i], <<Integer(i)>>))]
            IN  Is(Together([i \in DOMAIN Items |->
                    CASE tests[i] = Failed -> Failed
                      [] tests[i]          -> <<Items[i]>>
                      [] OTHER             -> <<>>]))
      [] e.op \in {"some", "every"} ->
            Is(Decide(e.op = "some", [i \in DOMAIN Items |-> Test(Bodies[i])]))
      [] e.op = "iterate" ->
            LET start == FoldLeft(LAMBDA ps, p :
                             p.name :> Eval(p.value, ps @@ env, limit, depth).val @@ ps,
                             << >>, e.params)
            IN  IF \E x \in DOMAIN start : start[x] = Failed THEN Fails
                ELSE Is(Repeat(e, Items, 1, start,
                               [env |-> env, limit |-> limit, depth |-> depth]))
      [] e.op = "break" -> Assigns(Value(e.return), e.loop :> <<Boolean(TRUE)>>)
      [] e.op = "next" ->
            LET vs == [i \in DOMAIN e.params |-> Value(e.params[i].value)]
                set == Bind([i \in DOMAIN e.params |-> e.params[i].name], vs)
            IN  IF \E i \in DOMAIN vs : vs[i] = Failed THEN Fails
                ELSE Assigns(Eval(e.return, set @@ env, limit, depth).val, set)

\* The main function on a context item.
MeaningOf(source, item, limit) ==
    LET args == << <<item>>, <<Integer(1)>>, <<Integer(1)>> >>
    IN  Eval(source.main.body, Bind(source.main.params, args), limit, 1).val
===============================================================================
