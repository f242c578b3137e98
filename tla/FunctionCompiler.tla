--------------------------- MODULE FunctionCompiler ---------------------------
(***************************************************************************)
(* From the intermediate representation to instructions.  The compiler     *)
(* keeps the names of the locals of each open function in the order of     *)
(* their slots on the run-time stack: what it emits is right only if the   *)
(* names and the stack grow and shrink together on every path.             *)
(*                                                                         *)
(* A builder state is [functions, scopes, code, closed, modes, refused]:   *)
(* the functions finished so far, the names of every open function, the    *)
(* instructions and captured names of the innermost one, the modes that    *)
(* template rules have, and whether an error was found.  Slots and jumps   *)
(* are counted from one and in instructions, in the code from zero and in  *)
(* bytes; the widths of the instruction fields are left out.               *)
(***************************************************************************)
EXTENDS Values, TLC

-----------------------------------------------------------------------------
(* The builder. *)

Emit(s, op, arg) == [s EXCEPT !.code = Append(@, [op |-> op, arg |-> arg])]

EmitAll(s, ops) == FoldLeft(LAMBDA t, op : Emit(t, op, 0), s, ops)

\* The jump at index `at` now leads to the instruction that comes next.
Patch(s, at) == [s EXCEPT !.code[at].arg = Len(s.code) - at]

\* A jump back to the instruction at `start`.
EmitBack(s, start) == Emit(s, "Jump", start - Len(s.code) - 2)

PushName(s, x) == [s EXCEPT !.scopes[Len(s.scopes)] = Append(@, x)]
PopNames(s, n) ==
    [s EXCEPT !.scopes[Len(s.scopes)] = SubSeq(@, 1, Len(@) - n)]

\* The innermost local of that name; 0 if the open function has none.
Slot(s, x) ==
    LET names == Last(s.scopes)
    IN  Max({0} \cup {i \in DOMAIN names : names[i] = x})

AddClosureName(s, x) ==
    IF x \in ToSet(s.closed) THEN s ELSE [s EXCEPT !.closed = Append(@, x)]

\* The scope at the bottom belongs to no function.
IsClosedOver(s, x) == \E i \in 2..Len(s.scopes) : x \in ToSet(s.scopes[i])

CompileClosureVariable(s, x) ==
    LET t == AddClosureName(s, x)
    IN  Emit(t, "ClosureVar", CHOOSE i \in DOMAIN t.closed : t.closed[i] = x)

\* A name that nothing around has is an error that ends the whole.
CompileVariable(s, x) ==
    CASE Slot(s, x) # 0     -> Emit(s, "Var", Slot(s, x))
      [] IsClosedOver(s, x) -> CompileClosureVariable(s, x)
      [] OTHER              -> [s EXCEPT !.refused = TRUE]

CompileVariableSet(s, x) == Emit(s, "Set", Slot(s, x))

CompileStaticFunctionReference(s, e) ==
    Emit(IF e.function = "position" THEN CompileVariable(s, e.position) ELSE s,
         "StaticClosure", e.function)

-----------------------------------------------------------------------------
(* Expressions. *)

RECURSIVE Compile(_, _)

CompileAll(s, es) == FoldLeft(Compile, s, es)

CompileLet(s, e) ==
    LET value == Compile(s, e.value)
        whole == Compile(PushName(value, e.name), e.return)
    IN  PopNames(Emit(whole, "LetDone", 0), 1)

CompileIf(s, e) ==
    LET test  == Emit(Compile(s, e.cond), "JumpIfFalse", 0)
        first == Emit(Compile(test, e.then), "Jump", 0)
        whole == Compile(Patch(first, Len(test.code)), e.else)
    IN  Patch(whole, Len(first.code))

\* And and Or test the right operand first; if it decides, the left operand
\* is popped unseen.
CompileConnective(s, e) ==
    LET jump  == IF e.how = "And" THEN "JumpIfFalse" ELSE "JumpIfTrue"
        tests == Emit(Emit(s, jump, 0), jump, 0)
        fall  == Emit(tests, "Const", <<Boolean(e.how = "And")>>)
        skip  == Emit(fall, "Jump", 0)
        pop   == Emit(Patch(skip, Len(s.code) + 1), "Pop", 0)
        other == Emit(Patch(pop, Len(s.code) + 2), "Const", <<Boolean(e.how = "Or")>>)
    IN  Patch(other, Len(skip.code))

CompileBinary(s, e) ==
    LET operands == CompileAll(s, <<e.left, e.right>>)
    IN  IF e.how \in Operators THEN Emit(operands, e.how, 0)
                               ELSE CompileConnective(operands, e)

\* A function is compiled in a scope of its own; the captured values are then
\* pushed in reverse, for Closure to pop them in order.
CompileFunctionId(s, e) ==
    LET inner == Compile([s EXCEPT !.code = <<>>, !.closed = <<>>,
                                   !.scopes = Append(@, e.params)], e.body)
        function == [code |-> Emit(inner, "Return", 0).code,
                     closed |-> inner.closed, arity |-> Len(e.params)]
        captured == FoldLeft(CompileVariable, s, Reverse(inner.closed))
    IN  [captured EXCEPT !.functions = Append(inner.functions, function),
                         !.refused = inner.refused \/ captured.refused]

CompileFunctionDefinition(s, e) ==
    LET t == CompileFunctionId(s, e) IN Emit(t, "Closure", Len(t.functions))

CompileFunctionCall(s, e) ==
    Emit(CompileAll(Compile(s, e.function), e.args), "Call", Len(e.args))

\* Items are joined as a binary counter carries.  Each run that waits on the
\* stack occupies a slot under a name that nothing looks up.
TrailingZeros(n) == Max({k \in 0..n : n % (2^k) = 0})
Ones(n) == Cardinality({k \in 0..n : (n \div 2^k) % 2 = 1})
Waiting(n) == [i \in 1..n |-> <<"waiting", 0>>]
JoinBy(s, join, n) == EmitAll(s, [i \in 1..n |-> join])

ReserveRuns(s, named, runs) ==
    [s EXCEPT !.scopes[Len(s.scopes)] = SubSeq(@, 1, Len(@) - named) \o Waiting(runs)]

CompileJoinedUnnamed(s, items, join) ==
    LET n == Len(items)
        Item(t, i) == JoinBy(Compile(t, items[i]), join, TrailingZeros(i))
    IN  JoinBy(FoldLeft(Item, s, [i \in 1..n |-> i]), join, Ones(n) - 1)

CompileJoined(s, items, join) ==
    LET n == Len(items)
        Item(t, i) ==
            ReserveRuns(JoinBy(Compile(t, items[i]), join, TrailingZeros(i)),
                        Ones(i - 1), Ones(i))
        all == FoldLeft(Item, s, [i \in 1..n |-> i])
    IN  PopNames(JoinBy(all, join, Ones(n) - 1), Ones(n))

CompileSequence(s, e) ==
    IF e.items = <<>> THEN Emit(s, "Const", <<>>) ELSE CompileJoined(s, e.items, "Comma")

CompileNodeSet(s, e) == CompileJoined(s, e.operands, e.how)

-----------------------------------------------------------------------------
(* Loops.  The number of items and the index are locals; the sequence is   *)
(* an atom, compiled again wherever it is needed.                          *)

EmitLoopInit(s, e) ==
    LET length == Emit(PushName(Compile(s, e.seq), e.ctx.last), "SequenceLen", 0)
    IN  PushName(Emit(length, "Const", <<Integer(1)>>), e.ctx.position)

\* Leaves the loop when the index is greater than the length.
EmitLoopTest(s, e) ==
    LET position == CompileVariable(s, e.ctx.position)
    IN  Emit(Emit(CompileVariable(position, e.ctx.last), "Gt", 0), "JumpIfTrue", 0)

EmitGetItem(s, e) ==
    Emit(Compile(CompileVariable(s, e.ctx.position), e.seq), "SequenceGet", 0)

EmitLoopIterate(s, e, start) ==
    LET one == Emit(CompileVariable(s, e.ctx.position), "Const", <<Integer(1)>>)
    IN  EmitBack(CompileVariableSet(Emit(one, "Add", 0), e.ctx.position), start)

EmitLoopEnd(s) == EmitAll(s, <<"Pop", "Pop">>)

\* The item gets a name for the body only.
CompileBody(s, e) ==
    PopNames(Compile(PushName(EmitGetItem(s, e), e.ctx.item), e.body), 1)

CompileMap(s, e) ==
    LET init == EmitLoopInit(Emit(s, "BuildNew", 0), e)
        test == EmitLoopTest(init, e)
        body == EmitAll(CompileBody(test, e), <<"BuildPush", "Pop">>)
        back == EmitLoopIterate(body, e, Len(init.code) + 1)
        end  == EmitLoopEnd(Patch(back, Len(test.code)))
    IN  PopNames(Emit(end, "BuildComplete", 0), 2)

\* A number is compared with the position; whatever it is then decides.
EmitPositionTest(s, position) ==
    LET kind == Emit(EmitAll(s, <<"Dup", "IsNumeric">>), "JumpIfFalse", 0)
    IN  Patch(Emit(CompileVariable(kind, position), "Eq", 0), Len(kind.code))

CompileFilter(s, e) ==
    LET init == EmitLoopInit(Emit(s, "BuildNew", 0), e)
        test == EmitLoopTest(init, e)
        keep == Emit(EmitPositionTest(CompileBody(test, e), e.ctx.position), "JumpIfTrue", 0)
        drop == Emit(Emit(keep, "Pop", 0), "Jump", 0)
        push == Emit(Patch(drop, Len(keep.code)), "BuildPush", 0)
        back == EmitLoopIterate(Patch(push, Len(drop.code)), e, Len(init.code) + 1)
        end  == EmitLoopEnd(Patch(back, Len(test.code)))
    IN  PopNames(Emit(end, "BuildComplete", 0), 2)

CompileQuantified(s, e) ==
    LET some == e.op = "some"
        init == EmitLoopInit(s, e)
        test == EmitLoopTest(init, e)
        out  == Emit(CompileBody(test, e), IF some THEN "JumpIfTrue" ELSE "JumpIfFalse", 0)
        back == EmitLoopIterate(Emit(out, "Pop", 0), e, Len(init.code) + 1)
        end  == EmitLoopEnd(Patch(back, Len(test.code)))
        past == Emit(Emit(end, "Const", <<Boolean(~ some)>>), "Jump", 0)
        left == EmitLoopEnd(Emit(Patch(past, Len(out.code)), "Pop", 0))
        whole == Emit(left, "Const", <<Boolean(some)>>)
    IN  PopNames(Patch(whole, Len(past.code)), 2)

\* The parameters and the flag that the loop is broken are locals around the
\* loop.  e.complete is the sequence constructor of on-completion, if any.
CompileIterate(s, e) ==
    LET n == Len(e.params)
        Param(t, p) == PushName(Compile(t, p.value), p.name)
        params == FoldLeft(Param, Emit(s, "BuildNew", 0), e.params)
        flag == PushName(Emit(params, "Const", <<Boolean(FALSE)>>), e.loop)
        init == EmitLoopInit(flag, e)
        test == EmitLoopTest(init, e)
        body == EmitAll(CompileBody(test, e), <<"BuildPush", "Pop">>)
        broken == Emit(CompileVariable(body, e.loop), "JumpIfTrue", 0)
        back == EmitLoopIterate(broken, e, Len(init.code) + 1)
        after == FoldLeft(LAMBDA t, c : Emit(Compile(t, c), "BuildPush", 0),
                          Patch(back, Len(test.code)), e.complete)
        end  == EmitLoopEnd(Patch(after, Len(broken.code)))
        clean == EmitAll(end, [i \in 1..(n + 1) |-> "Pop"])
    IN  PopNames(Emit(clean, "BuildComplete", 0), n + 3)

CompileIterateBreak(s, e) ==
    Compile(CompileVariableSet(Emit(s, "Const", <<Boolean(TRUE)>>), e.loop), e.return)

\* All values first, then the stores in reverse.
CompileIterateLetNext(s, e) ==
    LET values == FoldLeft(LAMBDA t, p : Compile(t, p.value), s, e.params)
        stores == FoldLeft(LAMBDA t, p : CompileVariableSet(t, p.name),
                           values, Reverse(e.params))
    IN  Compile(stores, e.return)

CompilePatternPredicate(s, e) ==
    EmitPositionTest(Compile(s, e.body), e.position)

\* A mode that no rule has selects no rule: the value is empty.
CompileApplyTemplates(s, e) ==
    LET select == Compile(s, e.select)
    IN  IF e.mode \in s.modes THEN Emit(select, "ApplyTemplates", e.mode)
                              ELSE Emit(select, "Const", <<>>)

\* A function is always open, so that the first case never holds; it makes TLC
\* evaluate the builder state before it goes down into the expression.
Compile(s, e) ==
    CASE s.scopes = <<>>    -> s
      [] e.op = "const"     -> Emit(s, "Const", e.const)
      [] e.op = "var"       -> CompileVariable(s, e.name)
      [] e.op = "static"    -> CompileStaticFunctionReference(s, e)
      [] e.op = "let"       -> CompileLet(s, e)
      [] e.op = "if"        -> CompileIf(s, e)
      [] e.op = "binary"    -> CompileBinary(s, e)
      [] e.op = "unary"     -> Emit(Compile(s, e.operand), e.how, 0)
      [] e.op = "nodeset"   -> CompileNodeSet(s, e)
      [] e.op = "step"      -> Emit(Compile(s, e.context), "Step", e.step)
      [] e.op = "deduplicate" -> Emit(Compile(s, e.steps), "Deduplicate", 0)
      [] e.op = "function"  -> CompileFunctionDefinition(s, e)
      [] e.op = "call"      -> CompileFunctionCall(s, e)
      [] e.op = "sequence"  -> CompileSequence(s, e)
      [] e.op = "map"       -> CompileMap(s, e)
      [] e.op = "filter"    -> CompileFilter(s, e)
      [] e.op \in {"some", "every"} -> CompileQuantified(s, e)
      [] e.op = "iterate"   -> CompileIterate(s, e)
      [] e.op = "break"     -> CompileIterateBreak(s, e)
      [] e.op = "next"      -> CompileIterateLetNext(s, e)
      [] e.op = "predicate" -> CompilePatternPredicate(s, e)
      [] e.op = "apply"     -> CompileApplyTemplates(s, e)

-----------------------------------------------------------------------------
(* A stylesheet: the functions of every template rule, the rules of each   *)
(* mode in the order in which they are tried, and the main function.  An   *)
(* XPath expression is a program without rules.                            *)
(*                                                                         *)
(* A rule of the source is [pattern, preds, body, priority, modes]; preds  *)
(* are the predicates of the pattern in their order, as functions.         *)

AllModes == "#all"

\* A mode exists if a rule has it by its name.
ModesOf(rules) == UNION {rules[i].modes : i \in DOMAIN rules} \ {AllModes}

CompileNextId(acc, e) ==
    LET t == CompileFunctionId(acc.builder, e)
    IN  [builder |-> t, ids |-> Append(acc.ids, Len(t.functions))]

\* The body before the predicates; every function after the functions in it.
CompileRule(acc, rule) ==
    LET all == FoldLeft(CompileNextId, [builder |-> acc.builder, ids |-> <<>>],
                        <<rule.body>> \o rule.preds)
        compiled == [pattern |-> rule.pattern, preds |-> Tail(all.ids), body |-> Head(all.ids),
                     priority |-> rule.priority, modes |-> rule.modes, order |-> Len(acc.rules)]
    IN  [builder |-> all.builder, rules |-> Append(acc.rules, compiled)]

TriedBefore(rule, other) ==
    \/ rule.priority > other.priority
    \/ rule.priority = other.priority /\ rule.order > other.order

RulesWith(rules, mode) == SelectSeq(rules, LAMBDA rule : mode \in rule.modes)

RulesOfAllLast(rules, mode) ==
    SortSeq(RulesWith(rules, mode), TriedBefore) \o SortSeq(RulesWith(rules, AllModes), TriedBefore)

\* The rules of a mode and those of all modes: higher priorities first, then
\* the last declaration first.
RulesOf(rules, mode) ==
    SortSeq(RulesWith(rules, mode) \o RulesWith(rules, AllModes), TriedBefore)

\* The rules come first, the main function last.
CompileDeclarations(source) ==
    LET empty == [functions |-> <<>>, scopes |-> << <<>> >>, code |-> <<>>, closed |-> <<>>,
                  modes |-> ModesOf(source.rules), refused |-> FALSE]
        compiled == FoldLeft(CompileRule, [builder |-> empty, rules |-> <<>>], source.rules)
        all == CompileFunctionId(compiled.builder, source.main)
    IN  IF all.refused THEN [refused |-> TRUE]
        ELSE [functions |-> all.functions, main |-> Len(all.functions),
              rules |-> [mode \in empty.modes |-> RulesOf(compiled.rules, mode)]]
===============================================================================
