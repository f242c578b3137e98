---------------------------- MODULE MCExpressions ----------------------------
(***************************************************************************)
(* The interpreter on what the compiler made of given sources: two         *)
(* constructs around a leaf, in every combination.                         *)
(***************************************************************************)
EXTENDS Interpreter, FunctionCompiler, Meaning

CONSTANT Sources    \* programs of the intermediate representation

(***************************************************************************)
(* A program that ends has computed the value that its source has by       *)
(* recursion on its expressions, and a program stops with an error only if *)
(* its source has none: whatever the compiler decides about slots, jumps,  *)
(* captured values and rules, and the interpreter about frames and         *)
(* call-backs, cancels out.                                                *)
(***************************************************************************)
ResultIsMeaning ==
    status # "running" =>
        LET meaning == MeaningOf(Sources[program], ContextItem, FramesMax)
        IN  IF status = "done" THEN Last(stack) = meaning ELSE meaning = Failed

-----------------------------------------------------------------------------
(* Expressions. *)

K(v) == [op |-> "const", const |-> v]
N(n) == K(<<Integer(n)>>)
V(x) == [op |-> "var", name |-> x]
LetE(x, e, f) == [op |-> "let", name |-> x, value |-> e, return |-> f]
IfE(c, e, f) == [op |-> "if", cond |-> c, then |-> e, else |-> f]
Bin(how, a, b) == [op |-> "binary", how |-> how, left |-> a, right |-> b]
Fun(xs, e) == [op |-> "function", params |-> xs, body |-> e]
CallE(f, args) == [op |-> "call", function |-> f, args |-> args]
SeqE(es) == [op |-> "sequence", items |-> es]
Static(f, c) == [op |-> "static", function |-> f, position |-> c.position]
Loop(op, a, c, e) == [op |-> op, seq |-> a, ctx |-> c, body |-> e]
Iterate(ps, l, a, c, e, after) ==
    [op |-> "iterate", params |-> ps, loop |-> l, seq |-> a, ctx |-> c, body |-> e,
     complete |-> after]
Par(x, e) == [name |-> x, value |-> e]
Break(l, e) == [op |-> "break", loop |-> l, return |-> e]
NextE(ps) == [op |-> "next", params |-> ps, return |-> K(<<>>)]

\* No step is taken.
NoDocument == <<>>

\* Names are made unique by the depth at which they are bound.
Context(k) == [item |-> <<"item", k>>, position |-> <<"position", k>>, last |-> <<"last", k>>]
v(k) == <<"v", k>>
w(k) == <<"w", k>>
Main(e) == [rules |-> <<>>, main |-> Fun(<<Context(0).item, Context(0).position, Context(0).last>>, e)]

\* Calls of library functions, which are bound to a local first.
Position(k, c) == LetE(v(k), Static("position", c), CallE(V(v(k)), <<>>))
ErrorE(k, c) == LetE(v(k), Static("error", c), CallE(V(v(k)), <<>>))
ForEach(k, a, f, c) ==
    LetE(v(k), Static("forEach", c), LetE(w(k), f, CallE(V(v(k)), <<a, V(w(k))>>)))

-----------------------------------------------------------------------------
(* Construct(m, k, x, c, Hole) is the m-th construct at depth k, where the *)
(* local x and the context c are visible, with the hole filled by what     *)
(* Hole makes of the local and the context that are visible there.         *)

Two == K(<<Integer(3), Integer(1)>>)

Constructs == 1..22

Construct(m, k, x, c, Hole(_, _)) ==
    LET d == Context(k)
        loop == <<"loop", k>>
        Bind1(e, f) == LetE(v(k), e, f)
        Iter(ps, e, after) == Iterate(ps, loop, Two, d, e, after)
        Ends(e, stop, go) == SeqE(<<e, IfE(stop, Break(loop, V(v(k))), NextE(go))>>)
    IN  CASE m = 1  -> Bind1(Hole(x, c), Bin("Comma", V(v(k)), V(x)))
          [] m = 2  -> Bind1(N(2), Hole(v(k), c))
          [] m = 3  -> Bind1(Hole(x, c), Bin("And", V(v(k)), V(x)))
          [] m = 4  -> Bind1(Hole(x, c), Bin("Or", V(x), V(v(k))))
          [] m = 5  -> Bind1(Hole(x, c), IfE(V(v(k)), V(x), K(<<>>)))
          [] m = 6  -> IfE(V(x), Hole(x, c), N(0))
          [] m = 7  -> IfE(K(<<>>), N(0), Hole(x, c))
          [] m = 8  -> SeqE(<<Hole(x, c), N(1)>>)
          [] m = 9  -> SeqE(<<N(1), V(x), Hole(x, c), N(4)>>)
          [] m = 10 -> SeqE(<<N(1), Hole(x, c), N(1), N(2), Hole(x, c)>>)
          [] m = 11 -> Loop("map", Two, d, Hole(d.item, d))
          [] m = 12 -> Loop("filter", Two, d, Hole(d.item, d))
          [] m = 13 -> Loop("some", Two, d, Hole(d.item, d))
          [] m = 14 -> Loop("every", Two, d, Hole(d.item, d))
          [] m = 15 -> Bind1(Fun(<<w(k)>>, Hole(w(k), c)), CallE(V(v(k)), <<V(x)>>))
          [] m = 16 -> Bind1(Fun(<<w(k)>>, LetE(v(k), V(w(k)), Hole(x, c))),
                             CallE(V(v(k)), <<N(5)>>))
          [] m = 17 -> ForEach(k, Two, Fun(<<w(k)>>, Hole(w(k), c)), c)
          [] m = 18 -> Iter(<<Par(v(k), Hole(x, c))>>, Ends(V(v(k)), V(x), <<>>),
                            <<V(v(k))>>)
          [] m = 19 -> Iter(<<Par(v(k), N(1)), Par(w(k), V(x))>>,
                            Ends(Hole(w(k), d), K(<<>>),
                                 <<Par(v(k), V(w(k))), Par(w(k), V(v(k)))>>), <<V(w(k))>>)
          [] m = 20 -> Iter(<<Par(v(k), N(1))>>,
                            IfE(V(d.item), Hole(v(k), c), K(<<>>)), <<Hole(v(k), c)>>)
          [] m = 21 -> Iter(<<Par(v(k), N(1))>>, Break(loop, Hole(d.item, d)), <<>>)
          [] m = 22 -> Iter(<<Par(v(k), N(1))>>,
                            SeqE(<<V(v(k)), NextE(<<Par(v(k), Hole(v(k), d))>>)>>),
                            <<V(v(k))>>)

Leaves == 1..7

Leaf(m, k, x, c) ==
    CASE m = 1 -> V(x)
      [] m = 2 -> K(<<>>)
      [] m = 3 -> Bin("Add", V(x), V(c.position))
      [] m = 4 -> Position(k, c)
      [] m = 5 -> ErrorE(k, c)
      [] m = 6 -> LetE(v(k), Fun(<<w(k)>>, V(w(k))), CallE(V(v(k)), <<V(x)>>))
      [] m = 7 -> LetE(v(k), Fun(<<w(k)>>, V(w(k))), CallE(V(v(k)), <<>>))

Expression(n) ==
    Construct(n[1], 1, Context(0).item, Context(0), LAMBDA x, c :
        Construct(n[2], 2, x, c, LAMBDA y, d : Leaf(n[3], 3, y, d)))

\* The i-th combination of two constructs and a leaf.
Choice(i) == <<1 + (i \div (22 * 7)), 1 + ((i \div 7) % 22), 1 + (i % 7)>>

Combinations == Cardinality(Constructs) * Cardinality(Constructs) * Cardinality(Leaves)

\* The empty sequence in front has TLC evaluate each list once.
Source(i) == Main(Expression(Choice(i - 1)))
SourceList == <<>> \o [i \in 1..Combinations |-> Source(i)]
ProgramList == <<>> \o [i \in 1..Combinations |-> CompileDeclarations(Source(i))]

\* What is under a LET is left out of the statistics of coverage, which would
\* otherwise expand the compiler at every mention of a program.
TheSources  == LET list == SourceList IN list
ThePrograms == LET list == ProgramList IN list
Seven       == Integer(7)

\* The compilers make balanced code.
ASSUME CodeAssumption ==
    \A i \in DOMAIN Programs : "refused" \in DOMAIN Programs[i] \/ Verified(Programs[i])
===============================================================================
