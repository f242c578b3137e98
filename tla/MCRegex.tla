------------------------------- MODULE MCRegex -------------------------------
(***************************************************************************)
(* Patterns: a repeated group of two parts with groups of their own and    *)
(* something behind it; and some with anchors and literals.                *)
(***************************************************************************)
EXTENDS RegexMatchers

Set(chars)      == [op |-> "set", chars |-> chars]
Group(n, e)     == [op |-> "group", nr |-> n, node |-> e]
Concat(parts)   == [op |-> "concat", parts |-> parts]
Alt(parts)      == [op |-> "alt", parts |-> parts]
Repeat(e, min, max, greedy) ==
    [op |-> "repeat", node |-> e, min |-> min, max |-> max, greedy |-> greedy]
Back(n)         == [op |-> "backref", nr |-> n]
Empty           == [op |-> "empty"]
Bol             == [op |-> "bol"]
Eol             == [op |-> "eol"]
CharA           == Set({"a"})
CharB           == Set({"b"})

Parts(n) == <<CharA, Group(n, Set({"a", "b"})), Group(n, Repeat(CharA, 0, Unbounded, TRUE)),
              Repeat(Group(n, CharA), 0, 1, FALSE), Repeat(Group(n, Alt(<<CharB, Empty>>)), 0, Unbounded, TRUE)>>

Times == <<<<0, Unbounded>>, <<0, 2>>, <<1, 3>>, <<2, Unbounded>>>>

Tails == <<Empty, CharB, Back(2), Concat(<<Back(1), Eol>>)>>

Whole2(x, y, alt) == IF alt THEN Alt(<<x, y>>) ELSE Concat(<<x, y>>)

Repeated2(x, y, alt, t, greedy, tail) ==
    LET first  == Parts(2)[x]
        second == Parts(2 + Cardinality(GroupsIn(first)))[y]
    IN  Concat(<<Repeat(Group(1, Whole2(first, second, alt)), t[1], t[2], greedy), tail>>)

\* The k-th digit of i to base n, counted from 1.
Pick(list, i, weight) == list[1 + ((i \div weight) % Len(list))]

Pattern(i) ==
    Repeated2(Pick(<<1, 2, 3, 4, 5>>, i, 1), Pick(<<1, 2, 3, 4, 5>>, i, 5),
              Pick(<<TRUE, FALSE>>, i, 25), Pick(Times, i, 50),
              Pick(<<TRUE, FALSE>>, i, 200), Pick(Tails, i, 400))

\* A back-reference only to a group of the pattern.
Wellformed(e) == \A n \in {1, 2} : Last(e.parts) = Back(n) => n \in GroupsIn(e)

LineParts == <<CharA, Concat(<<CharA, CharB>>), Group(1, Alt(<<CharA, Concat(<<CharA, CharB>>)>>)),
               Repeat(Concat(<<CharA, CharB>>), 2, 2, TRUE), Repeat(CharA, 1, 3, FALSE),
               Set({"a", "newline"})>>

LinePatterns(e) ==
    <<Concat(<<Bol, e>>), Concat(<<e, Eol>>), Alt(<<Concat(<<Bol, e>>), CharB>>),
      Concat(<<e, CharB>>), Concat(<<CharA, Repeat(e, 0, 1, TRUE), CharA>>)>>

Texts == <<<<"a", "a", "b">>, <<"b", "a">>>>

LineTexts == <<<<>>, <<"a", "newline", "a", "b">>, <<"a", "b", "a", "b", "newline">>,
               <<"newline", "a", "a">>, <<"b", "b", "a", "a", "b">>>>

PatternList == SelectSeq([i \in 1..1600 |-> Pattern(i - 1)], Wellformed)
LineList    == FlattenSeq([i \in DOMAIN LineParts |-> LinePatterns(LineParts[i])])
               \o <<Repeat(Bol, 0, Unbounded, TRUE), Concat(<<Bol, Eol>>)>>

Repeats == Len(PatternList)
Lines   == Len(LineList)

\* Every repeated pattern, then every pattern of lines without and with flag m.
BuildAll(list, multiline) == <<>> \o [i \in DOMAIN list |-> Build(list[i], multiline)]

RegexList ==
    BuildAll(PatternList, FALSE) \o BuildAll(LineList, FALSE) \o BuildAll(LineList, TRUE)

CallOf(i, text, need) == [regex |-> i, text |-> text, need |-> need]

CallSet ==
    {CallOf(i, text, "groups") : i \in 1..Repeats, text \in Range(Texts)}
    \cup {CallOf(i, text, need) : i \in Repeats + 1 .. Repeats + 2 * Lines,
             text \in Range(LineTexts), need \in {"exists", "bounds", "groups"}}

TheRegexes == LET list == RegexList IN list
TheCalls   == LET all == CallSet IN all
===============================================================================
