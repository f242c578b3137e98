-------------------------------- MODULE MCXPath --------------------------------
(***************************************************************************)
(* Two constructs around a leaf, in every combination.  Every binder binds *)
(* x or y, so that almost every expression shadows a name or uses one that *)
(* is not bound; the context is a node, an integer, or absent.             *)
(***************************************************************************)
EXTENDS XPathContracts

\*   1 document node; 2 r; 3 b; 4 b in 3; 5 a; 6 b in 5
TheTree == <<[parent |-> 0, name |-> "document"], [parent |-> 1, name |-> "r"],
             [parent |-> 2, name |-> "b"], [parent |-> 3, name |-> "b"],
             [parent |-> 2, name |-> "a"], [parent |-> 5, name |-> "b"]>>
TheRoot == NodeItem(2)

-----------------------------------------------------------------------------
(* A notation. *)

Num(n) == X("literal", <<Integer(n)>>, <<>>)
Ref(x) == X("varref", x, <<>>)
Dot == X("dot", "", <<>>)
Hole == X("hole", "", <<>>)
Paren(es) == X("paren", "", es)
Call(f, es) == X("call", f, es)
ApplyTo(f, es) == X("apply", "", <<f>> \o es)
Arrows(f, es) == X("arrow", f, es)
Fun(xs, e) == X("inline", [params |-> xs, wrapper |-> FALSE], <<e>>)
Bin(how, a, b) == X("binary", how, <<a, b>>)
LetX(x, a, b) == X("let", x, <<a, b>>)
In(op, x, a, b) == X(op, x, <<a, b>>)
Two(op, a, b) == X(op, "", <<a, b>>)
Step(axis, test) == X("step", [axis |-> axis, test |-> test], <<>>)
StepIf(axis, test, e) == X("step", [axis |-> axis, test |-> test], <<e>>)
IfX(a, b, c) == X("if", "", <<a, b, c>>)
PositionRef == X("ref", <<"position", 0>>, <<>>)
RootRef == X("ref", <<"root", 1>>, <<>>)

Children == Step("child", "*")
ThreeOne == Paren(<<Num(3), Num(1)>>)
x == Ref("x")
y == Ref("y")

-----------------------------------------------------------------------------

Constructs == 31

\* h is what the construct is around.
Around1(m, h) ==
    CASE m = 1  -> LetX("x", h, Paren(<<x, y>>))
      [] m = 2  -> LetX("y", Num(2), Paren(<<h, y>>))
      [] m = 3  -> LetX("x", Bin("Add", x, Num(1)), h)
      [] m = 4  -> Paren(<<LetX("x", Num(4), h), LetX("x", h, x)>>)
      [] m = 5  -> In("for", "x", ThreeOne, h)
      [] m = 6  -> In("for", "y", h, Paren(<<y, Call("position", <<>>)>>))
      [] m = 7  -> In("some", "x", Paren(<<Num(0), Num(2)>>), h)
      [] m = 8  -> In("every", "x", h, x)
      [] m = 9  -> ApplyTo(Fun(<<"x">>, h), <<Num(5)>>)
      [] m = 10 -> LetX("y", Fun(<<"x", "y">>, Paren(<<x, h>>)),
                        ApplyTo(ApplyTo(y, <<Hole, Num(6)>>), <<Num(7)>>))
      [] m = 11 -> Call("forEach", <<ThreeOne, Fun(<<"x">>, h)>>)
      [] m = 12 -> LetX("x", Num(8), ApplyTo(Call("forEach", <<Paren(<<x, h>>), Hole>>),
                                             <<Fun(<<"y">>, Paren(<<x, y>>))>>))
      [] m = 13 -> Two("bang", ThreeOne, h)
      [] m = 14 -> Two("bang", h, Paren(<<Dot, Call("last", <<>>)>>))
      [] m = 15 -> Two("filter", ThreeOne, h)
      [] m = 16 -> Two("filter", Paren(<<Num(9), h>>), Num(2))
      [] m = 17 -> Two("path", Children, h)
      [] m = 18 -> Two("descend", h, Step("parent", "node()"))
      [] m = 19 -> Bin("And", x, h)
      [] m = 20 -> Bin("Or", h, Bin("Gt", y, Num(0)))
      [] m = 21 -> IfX(h, x, Call("position", <<>>))
      [] m = 22 -> Bin("Union", Bin("Union", h, Children), Step("self", "*"))
      [] m = 23 -> Bin("Except", Bin("Intersect", Bin("Except", Step("descendant", "b"), h),
                                     Step("descendant", "*")), Children)
      [] m = 24 -> X("unary", "Minus", <<X("unary", "Plus", <<h>>)>>)
      [] m = 25 -> StepIf("descendant", "*", h)
      [] m = 26 -> Two("path", Step("descendant", "*"), StepIf("ancestor", "*", h))
      [] m = 27 -> Arrows("forEach", <<h, Fun(<<"x">>, Paren(<<x, y>>))>>)
      [] m = 28 -> Arrows("", <<Num(1), Paren(<<Fun(<<"y">>, h)>>)>>)
      [] m = 29 -> LetX("y", PositionRef, Two("bang", Paren(<<Num(4), h>>), ApplyTo(y, <<>>)))
      [] m = 30 -> ApplyTo(Call("forEach", <<Hole, Fun(<<"y">>, Paren(<<y, h>>))>>), <<ThreeOne>>)
      [] m = 31 -> Call("forEach", <<h, RootRef>>)

Leaves == 9

Leaf1(m) ==
    CASE m = 1 -> x
      [] m = 2 -> y
      [] m = 3 -> Dot
      [] m = 4 -> Call("position", <<>>)
      [] m = 5 -> Call("error", <<>>)
      [] m = 6 -> Children
      [] m = 7 -> Paren(<<>>)
      [] m = 8 -> LetX("x", Num(0), x)
      [] m = 9 -> Two("path", Dot, Step("parent", "*"))

\* A variable x around all of it.
Expression(i) ==
    LET m == 1 + (i \div (Constructs * Leaves))
        n == 1 + ((i \div Leaves) % Constructs)
    IN  LetX("x", Num(1), Around1(m, Around1(n, Leaf1(1 + (i % Leaves)))))

Combinations == Constructs * Constructs * Leaves

\* The empty sequence in front has TLC evaluate each list once.
SourceList == <<>> \o [i \in 1..Combinations |-> Expression(i - 1)]
ProgramList == <<>> \o [i \in 1..Combinations |-> Translate(Expression(i - 1))]

\* What is under a LET is left out of the statistics of coverage, which would
\* otherwise expand the compiler at every mention of a program.
TheSources  == LET list == SourceList IN list
ThePrograms == LET list == ProgramList IN list

\* The compilers make balanced code.
ASSUME CodeAssumption ==
    \A i \in DOMAIN Programs : "refused" \in DOMAIN Programs[i] \/ Verified(Programs[i])
===============================================================================
