------------------------------ MODULE MCStylesheets ------------------------------
(***************************************************************************)
(* Two families of stylesheets: in one, two template rules with each two   *)
(* of fourteen patterns, in several modes and with several priorities; in  *)
(* the other, two instructions around a leaf, in every combination.        *)
(***************************************************************************)
EXTENDS XsltContracts

\*   1 document node; 2 r; 3 a; 4 b in 3; 5 a in 4; 6 b; 7 b
TheTree == <<[parent |-> 0, name |-> "document"], [parent |-> 1, name |-> "r"],
             [parent |-> 2, name |-> "a"], [parent |-> 3, name |-> "b"],
             [parent |-> 4, name |-> "a"], [parent |-> 2, name |-> "b"],
             [parent |-> 2, name |-> "b"]>>
TheDocument == NodeItem(1)

-----------------------------------------------------------------------------
(* A notation. *)

Num(n) == X("literal", <<Integer(n)>>, <<>>)
Ref(x) == X("varref", x, <<>>)
Dot == X("dot", "", <<>>)
Paren(es) == X("paren", "", es)
Call(f) == X("call", f, <<>>)
Bin(how, a, b) == X("binary", how, <<a, b>>)
Children(test) == X("step", [axis |-> "child", test |-> test], <<>>)
ThreeOne == Paren(<<Num(3), Num(1)>>)
Position == Call("position")
x == Ref("x")
y == Ref("y")
p == Ref("p")
q == Ref("q")

Select(e) == [select |-> e]
Content(cs) == [content |-> cs]
Gives1(e) == [op |-> "sequence", from |-> Select(e)]
Let(name, from) == [op |-> "variable", name |-> name, from |-> from]
When(e, cs) == [test |-> e, content |-> cs]
Choose1(whens, otherwise) == [op |-> "choose", whens |-> whens, otherwise |-> otherwise]
Each(e, cs) == [op |-> "forEach", select |-> e, content |-> cs]
Par(name, from) == [name |-> name, from |-> from]
Iterate(e, params, cs, complete) ==
    [op |-> "iterate", select |-> e, params |-> params, content |-> cs, complete |-> complete]
Break(from) == [op |-> "break", from |-> from]
NextRound(params) == [op |-> "next", params |-> params]

Step(axis, test, preds) == [axis |-> axis, test |-> test, preds |-> preds]
Links(hows, paths) ==
    [op |-> "paths", links |-> [i \in DOMAIN hows |-> [how |-> hows[i], path |-> paths[i].links[1].path]]]
Of(pattern, tests) == [pattern |-> pattern, tests |-> tests]
Rule1(of, modes, priority, cs) ==
    [pattern |-> of.pattern, tests |-> of.tests, modes |-> modes, priority |-> priority, content |-> cs]

Unnamed == {"unnamed"}
OfDocument == Of(Path("slash", <<>>), <<>>)
AnyItem(tests) == Of([op |-> "predicates", preds |-> [i \in DOMAIN tests |-> i]], tests)

-----------------------------------------------------------------------------
(* Patterns. *)

Patterns1 == 14

InR(step) == Path("relative", <<ChildStep("r"), step>>)

Pattern1(i) ==
    CASE i = 1  -> Of(Path("relative", <<ChildStep("a")>>), <<>>)
      [] i = 2  -> Of(Path("relative", <<ChildStep("b")>>), <<>>)
      [] i = 3  -> Of(Path("relative", <<ChildStep("a"), ChildStep("b")>>), <<>>)
      [] i = 4  -> Of(InR(Step("descendant", "b", <<>>)), <<>>)
      [] i = 5  -> Of(Path("slash", <<ChildStep("r"), ChildStep("b")>>), <<>>)
      [] i = 6  -> Of(Path("doubleSlash", <<ChildStep("b")>>), <<>>)
      [] i = 7  -> Of(Path("relative", <<Step("child", "element()", <<1>>)>>), <<Num(2)>>)
      [] i = 8  -> Of(Path("relative", <<Step("child", "b", <<1>>)>>), <<Children("a")>>)
      [] i = 9  -> Of(Links(<<"First", "Union">>, <<Path("relative", <<ChildStep("a")>>), InR(ChildStep("b"))>>),
                      <<>>)
      [] i = 10 -> Of(Links(<<"First", "Except">>, <<Path("relative", <<ChildStep("b")>>), InR(ChildStep("b"))>>),
                      <<>>)
      [] i = 11 -> Of(Links(<<"First", "Intersect">>,
                            <<Path("relative", <<Step("child", "b", <<1>>)>>),
                              InR(Step("child", "element()", <<2>>))>>),
                      <<Bin("Eq", Num(1), Num(1)), Bin("Eq", Position, Call("last"))>>)
      [] i = 12 -> AnyItem(<<Bin("Eq", Num(1), Num(1)), Children("a")>>)
      [] i = 13 -> OfDocument
      [] i = 14 -> Of(Path("relative", <<Step("child", "a", <<1>>), Step("descendant", "a", <<>>)>>),
                      <<Children("b")>>)

\* In which modes and with which priorities the two rules are.
Variants == <<[modes1 |-> Unnamed, priority1 |-> <<>>, modes2 |-> Unnamed, priority2 |-> <<>>],
              [modes1 |-> Unnamed, priority1 |-> <<1>>, modes2 |-> {"#all"}, priority2 |-> <<0>>],
              [modes1 |-> {"#all"}, priority1 |-> <<>>, modes2 |-> {"unnamed", "m"}, priority2 |-> <<>>],
              [modes1 |-> {"m"}, priority1 |-> <<1>>, modes2 |-> {"#all", "m"}, priority2 |-> <<1>>]>>

\* Rules for numbers, which go on to smaller numbers; none is for 0.
Numbers ==
    <<Rule1(AnyItem(<<Bin("Eq", Dot, Num(1))>>), {"n"}, <<>>,
            <<Gives1(Call("last"))>>),
      Rule1(AnyItem(<<Bin("Gt", Dot, Num(1))>>), {"n"}, <<>>,
            <<Gives1(Dot), ApplyTo(Paren(<<Bin("Add", Dot, Num(-1)), Num(0)>>), "n")>>)>>

\* A pattern for all items asks for children: of a number it would fail.
Modes(pattern, modes) ==
    IF pattern.op = "predicates" /\ "#all" \in modes THEN {"unnamed", "m"} ELSE modes

TwoRules(i) ==
    LET v == Variants[1 + ((i + (i \div Patterns1)) % Len(Variants))]
        one == Pattern1(1 + (i \div Patterns1))
        two == Pattern1(1 + (i % Patterns1))
    IN  <<Rule1(one, Modes(one.pattern, v.modes1), v.priority1, <<Gives1(Num(10)), ApplyToChildren>>),
          Rule1(two, Modes(two.pattern, v.modes2), v.priority2,
                <<Gives1(Paren(<<Num(20), Position>>)), ApplyTo(Children("element()"), "m")>>),
          Rule1(Of(Path("relative", <<ChildStep("element()")>>), <<>>), {"m"}, <<-1>>,
                <<Gives1(Num(30)), ApplyToChildren, ApplyTo(Num(2), "n")>>)>>
    \o Numbers

Pairs == Patterns1 * Patterns1

-----------------------------------------------------------------------------
(* Instructions. *)

Instructions == 15

\* h is the content that the instruction is around.  No variable has the name
\* of a parameter: next-iteration would then store into the variable.
Around1(m, h) ==
    CASE m = 1  -> <<Let("x", Content(h)), Gives1(Paren(<<x, Num(1)>>))>>
      [] m = 2  -> <<Let("y", Select(Num(2)))>> \o h
      [] m = 3  -> <<Let("x", Select(Bin("Add", x, Num(1))))>> \o h
      [] m = 4  -> <<[op |-> "if", test |-> x, content |-> h]>>
      [] m = 5  -> <<Choose1(<<When(Paren(<<>>), <<Gives1(Num(0))>>), When(Position, h)>>, <<h>>)>>
      [] m = 6  -> <<Choose1(<<When(Bin("Gt", x, Num(7)), h)>>, << <<Gives1(x)>> >>)>>
      [] m = 7  -> <<Each(ThreeOne, h)>>
      [] m = 8  -> <<Each(Children("element()"), h), Gives1(Call("last"))>>
      [] m = 9  -> <<Iterate(ThreeOne, <<Par("p", Content(h))>>,
                             <<Gives1(p), NextRound(<<Par("p", Select(Position))>>)>>, <<Select(p)>>)>>
      [] m = 10 -> <<Iterate(ThreeOne, <<Par("p", Select(Num(1)))>>,
                             <<Choose1(<<When(Bin("Gt", p, Num(5)), <<Break(Content(h))>>)>>,
                                       << h \o <<NextRound(<<Par("p", Select(Num(6)))>>)>> >>)>>,
                             <<Select(Num(9))>>)>>
      [] m = 11 -> <<Iterate(ThreeOne, <<Par("p", Select(Num(0))), Par("q", Select(Bin("Add", p, Num(1))))>>,
                             h \o <<NextRound(<<Par("p", Select(q)), Par("q", Select(p))>>)>>,
                             <<Content(<<Gives1(p), Gives1(q)>>)>>)>>
      [] m = 12 -> <<ApplyTo(ThreeOne, "n")>> \o h \o <<Gives1(x)>>
      [] m = 13 -> <<Iterate(ThreeOne, <<>>, h, <<Select(Num(8))>>)>>
      [] m = 14 -> <<[op |-> "sequence", from |-> Content(h \o h)]>>
      [] m = 15 -> <<Let("y", Content(<<Let("x", Content(h)), Gives1(x)>>)), Gives1(Paren(<<y, x>>))>>

Loops == {9, 10, 11, 13}
Values1 == {1, 9, 14, 15}

Leaves == 6

Leaf1(m) ==
    CASE m = 1 -> <<Gives1(Paren(<<x, Dot, Position>>))>>
      [] m = 2 -> <<Gives1(y)>>
      [] m = 3 -> <<Gives1(p)>>
      [] m = 4 -> <<Gives1(Call("error"))>>
      [] m = 5 -> <<>>
      [] m = 6 -> <<Break(Select(Num(7)))>>

\* A break in the value of a variable, of a parameter or of an xsl:sequence is
\* left out.
Combination(i) ==
    LET m == 1 + (i \div (Instructions * Leaves))
        n == 1 + ((i \div Leaves) % Instructions)
        leaf == 1 + (i % Leaves)
    IN  <<m, n, IF m \in Loops /\ n \in Values1 /\ leaf = 6 THEN 1 ELSE leaf>>

\* A rule before has a variable y, and the rule itself one called x.
Instructed(i) ==
    LET c == Combination(i)
    IN  <<Rule1(Pattern1(8), Unnamed, <<>>, <<Let("y", Select(Num(5))), Gives1(y)>>),
          Rule1(OfDocument, Unnamed, <<>>,
                <<Let("x", Select(Num(1)))>> \o Around1(c[1], Around1(c[2], Leaf1(c[3]))))>>
    \o Numbers

Combinations == Instructions * Instructions * Leaves

-----------------------------------------------------------------------------

\* One rule for the document.
TheRule(of, priority, cs) == <<Rule1(of, Unnamed, priority, cs)>>
OfUnion == Of(Links(<<"First", "Union">>, <<Path("slash", <<>>), InR(ChildStep("b"))>>), <<>>)

\* Templates that apply templates to ever greater numbers, and stylesheets that
\* are refused.
Others ==
    <<TheRule(OfDocument, <<>>, <<ApplyTo(Num(1), "n")>>)
      \o <<Rule1(AnyItem(<<>>), {"n"}, <<>>,
                 <<ApplyTo(Bin("Add", Dot, Num(1)), "n")>>)>>,
      TheRule(OfDocument, <<>>, <<Gives1(Num(1)), Let("x", Select(Num(2))), Gives1(x)>>),
      TheRule(OfDocument, <<>>, <<Iterate(ThreeOne, <<>>, <<>>, <<Select(Dot)>>)>>),
      TheRule(OfDocument, <<>>, <<Iterate(ThreeOne, <<Par("p", Select(q)), Par("q", Select(Num(1)))>>, <<>>, <<>>)>>),
      TheRule(OfUnion, <<>>, <<Gives1(Num(1))>>),
      TheRule(OfUnion, <<0>>, <<Gives1(Num(1))>>)>>

Source(i) ==
    CASE i <= Pairs -> TwoRules(i - 1)
      [] i <= Pairs + Combinations -> Instructed(i - Pairs - 1)
      [] OTHER -> Others[i - Pairs - Combinations]

\* The empty sequence in front has TLC evaluate each list once.
SourceList == <<>> \o [i \in 1..(Pairs + Combinations + Len(Others)) |-> Source(i)]
ProgramList == <<>> \o [i \in 1..(Pairs + Combinations + Len(Others)) |-> Translate(Source(i))]
MeaningList == <<>> \o [i \in 1..(Pairs + Combinations + Len(Others)) |-> Meaning(Source(i))]

\* What is under a LET is left out of the statistics of coverage, which would
\* otherwise expand the compilers at every mention of a program.
TheSources  == LET list == SourceList IN list
ThePrograms == LET list == ProgramList IN list
TheMeanings == LET list == MeaningList IN list

-----------------------------------------------------------------------------
(* Two stylesheets whose result is not what they mean. *)

\* xsl:next-iteration with two parameters, the second of which is computed by
\* way of a local: while it is computed the first value waits on the stack in
\* a slot that the compiler has not counted.
SecondValue ==
    <<Rule1(OfDocument, Unnamed, <<>>,
            <<Iterate(ThreeOne, <<Par("p", Select(Num(1))), Par("q", Select(Num(2)))>>,
                      <<NextRound(<<Par("p", Select(Dot)),
                                    Par("q", Select(Bin("Add", Bin("Add", q, Num(1)), Num(1))))>>)>>,
                      <<Select(q)>>)>>)>>

\* Of the rules for numbers the one that is tried first has a predicate that
\* fails.
FailingPredicate ==
    <<Rule1(OfDocument, Unnamed, <<>>, <<ApplyTo(Num(4), "n")>>),
      Rule1(AnyItem(<<>>), {"n"}, <<>>, <<Gives1(Dot)>>),
      Rule1(AnyItem(<<Call("error")>>), {"n"}, <<>>, <<Gives1(Num(0))>>)>>

\* What is under a LET is left out of the statistics of coverage, which would
\* otherwise expand the compilers at every mention of a program.
SecondValueSource  == LET list == <<SecondValue>> IN list
SecondValueProgram == LET list == <<Translate(SecondValue)>> IN list
SecondValueMeaning == LET list == <<Meaning(SecondValue)>> IN list

FailingPredicateSource  == LET list == <<FailingPredicate>> IN list
FailingPredicateProgram == LET list == <<Translate(FailingPredicate)>> IN list
FailingPredicateMeaning == LET list == <<Meaning(FailingPredicate)>> IN list

\* The compilers make balanced code.
ASSUME CodeAssumption ==
    \A i \in DOMAIN Programs : "refused" \in DOMAIN Programs[i] \/ Verified(Programs[i])
===============================================================================
